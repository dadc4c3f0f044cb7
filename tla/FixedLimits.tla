---------------------------- MODULE FixedLimits ----------------------------
(***************************************************************************)
(* live_trading/risk.py: the fee estimate and the fixed production limits  *)
(* an order has to pass.  Money is counted in units of 1/10000 dollar, the *)
(* precision the code rounds to, prices likewise; a price lies in          *)
(* 0..Dollar.                                                              *)
(***************************************************************************)
EXTENDS Integers

Dollar == 10000

MaxContracts         == 1
MaxOrderCost         == Dollar
MaxMarketExposure    == Dollar
MaxEventExposure     == 2 * Dollar
MaxTotalExposure     == 5 * Dollar
MaxDailyLoss         == 2 * Dollar
MaxMarkLoss          == 3 * Dollar
MaxConsecutiveLosses == 2

\* {name} when the condition holds.
When(condition, name) == IF condition THEN {name} ELSE {}

\* 7% * price * (1 - price) a contract, rounded up.
Fee(price, count) == -((-(7 * price * (Dollar - price) * count)) \div 1000000)

OrderCost(count, price, fees) == count * price + fees

\* validate_fixed_limits: the limits an order of that cost would break in a
\* risk state s (exposures, profits of the day, losses in a row).
FixedLimitBlockers(count, price, fees, s) ==
  LET cost == OrderCost(count, price, fees) IN
  UNION {When(count > MaxContracts, "MAX_CONTRACTS_PER_ORDER"),
         When(cost > MaxOrderCost, "MAX_ORDER_COST"),
         When(s.market + cost > MaxMarketExposure, "MAX_MARKET_EXPOSURE"),
         When(s.event + cost > MaxEventExposure, "MAX_EVENT_DATE_EXPOSURE"),
         When(s.total + cost > MaxTotalExposure, "MAX_TOTAL_EXPOSURE"),
         When(s.realized <= -MaxDailyLoss, "MAX_DAILY_REALIZED_LOSS"),
         When(s.mark <= -MaxMarkLoss, "MAX_DAILY_MARK_TO_MARKET_LOSS"),
         When(s.losses >= MaxConsecutiveLosses,
              "MAX_CONSECUTIVE_SETTLED_LOSSES"),
         When(s.unknown, "UNKNOWN_ORDER"),
         When(~s.healthy, "RECONCILIATION_REQUIRED")}
=============================================================================

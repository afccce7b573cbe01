------------------------------ MODULE MCTokenSale ------------------------------
(* Two sales to choose from and two that initialize_sale refuses; the amounts *)
(* leave remainders in the split, and the smallest is below the minimum.      *)
EXTENDS TokenSale

Params(duration, bonus, hardCap) ==
  [base_price |-> 1000, slope_bps |-> 500, max_bonus_bps |-> bonus, rebate_rate_bps |-> 2000, sale_duration |-> duration,
   hard_cap |-> hardCap, early_reward_cap |-> 4, max_rebate_per_buyer |-> 2, min_contribution |-> 5]

MCSaleParams == {Params(3, 5000, 60), Params(2, 3333, 60), Params(2, 3333, 3), Params(2, 6000, 60)}
=============================================================================

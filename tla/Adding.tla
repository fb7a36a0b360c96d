-------------------------------- MODULE Adding --------------------------------
(***************************************************************************)
(* The sum of a sequence of numbers, which the replay of a security and the    *)
(* evaluation of balance assertions are made of.                              *)
(***************************************************************************)
EXTENDS Integers, Sequences

AddUp(nums) ==
    LET sum[i \in 0 .. Len(nums)] == IF i = 0 THEN 0 ELSE sum[i - 1] + nums[i]
    IN sum[Len(nums)]

=============================================================================

------------------------------- MODULE MCBruck -------------------------------
(* Constants of the model-checked instances of BruckAlltoall.              *)
EXTENDS BruckAlltoall

AllOrders == Shuffles(len)
=============================================================================

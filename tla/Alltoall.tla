------------------------------ MODULE Alltoall ------------------------------
(***************************************************************************)
(* What MPI_Alltoall promises the ranks of a communicator, whatever the    *)
(* algorithm: a call places in slot s of the receive buffer the block that *)
(* rank s addressed to this rank in the same call, and a call that returns *)
(* success has filled every slot.  The ranks make the same calls in the    *)
(* same order but need not make them at the same time; a call may fail,    *)
(* and a rank whose call failed makes no further call.                     *)
(***************************************************************************)
EXTENDS Integers

CONSTANTS N,      \* the number of ranks
          Calls   \* bound: how many calls each rank makes

Ranks == 0 .. N - 1

VARIABLES stage,  \* "out" of the library, "in" a call, or "failed"
          call,   \* the number of calls a rank has entered
          rbuf    \* rbuf[r][s]: the block in slot s of r's receive buffer

vars == <<stage, call, rbuf>>

\* The block rank s addresses to rank d in call c.  A receive buffer is reused
\* from call to call: a slot keeps what an earlier call left in it.
Block(s, d, c) == <<s, d, c>>
NoBlock == <<>>

Filled(r) == \A s \in Ranks : rbuf[r][s] = Block(s, r, call[r])

Init == /\ stage = [r \in Ranks |-> "out"]
        /\ call = [r \in Ranks |-> 0]
        /\ rbuf = [r \in Ranks |-> [s \in Ranks |-> NoBlock]]

Enter(r) == /\ stage[r] = "out"
            /\ call[r] < Calls
            /\ stage' = [stage EXCEPT ![r] = "in"]
            /\ call' = [call EXCEPT ![r] = @ + 1]
            /\ UNCHANGED rbuf

\* A block can only arrive once its sender has entered the call.  A receive
\* that a failed call left behind may still take its block.
Deliver(r, s) == /\ stage[r] # "out"
                 /\ call[s] >= call[r]
                 /\ rbuf' = [rbuf EXCEPT ![r][s] = Block(s, r, call[r])]
                 /\ UNCHANGED <<stage, call>>

Return(r) == /\ stage[r] = "in"
             /\ Filled(r)
             /\ stage' = [stage EXCEPT ![r] = "out"]
             /\ UNCHANGED <<call, rbuf>>

Fail(r) == /\ stage[r] = "in"
           /\ stage' = [stage EXCEPT ![r] = "failed"]
           /\ UNCHANGED <<call, rbuf>>

Next == \E r \in Ranks : \/ Enter(r) \/ Return(r) \/ Fail(r)
                         \/ \E s \in Ranks : Deliver(r, s)

Spec == Init /\ [][Next]_vars
=============================================================================

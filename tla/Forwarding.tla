---------------------------- MODULE Forwarding ----------------------------
(***************************************************************************)
(* What the OTTL forwarder promises the validation that calls it           *)
(* (src/server/ottl-forward.ts:61-76): a call settles its blocks one after *)
(* another, each with what was found in its own text or with nothing, and  *)
(* returns; or it finds nothing at all, when there is no process to ask.   *)
(* There is no process, uri, timer or frame here: OttlForward implements   *)
(* this specification with them.                                           *)
(***************************************************************************)
EXTENDS Integers, Sequences

CONSTANTS Calls, Texts, Blocks

VARIABLES
    phase,    \* per call: "idle", "asking" or "returned"
    found     \* per call, what each settled block contributed, in order
fvars == <<phase, found>>

Init ==
    /\ phase = [ c \in Calls |-> "idle" ]
    /\ found = [ c \in Calls |-> <<>> ]

After(c, n) == IF n = Len(Blocks[c]) THEN "returned" ELSE "asking"

(* A call begins with its first block; without blocks it returns.          *)
Ask(c) ==
    /\ phase[c] = "idle"
    /\ phase' = [ phase EXCEPT ![c] = After(c, 0) ]
    /\ UNCHANGED found

(* It returns at once: nothing was found in any block.                     *)
Decline(c) ==
    /\ phase[c] = "idle"
    /\ phase' = [ phase EXCEPT ![c] = "returned" ]
    /\ found' = [ found EXCEPT ![c] = [ i \in 1..Len(Blocks[c]) |-> {} ] ]

(* The next block is settled.                                              *)
Settle(c) ==
    /\ phase[c] = "asking"
    /\ \E diags \in { {}, {Blocks[c][Len(found[c]) + 1]} } :
          found' = [ found EXCEPT ![c] = Append(@, diags) ]
    /\ phase' = [ phase EXCEPT ![c] = After(c, Len(found[c]) + 1) ]

Next == \E c \in Calls : Ask(c) \/ Decline(c) \/ Settle(c)

Spec == Init /\ [][Next]_fvars
=============================================================================

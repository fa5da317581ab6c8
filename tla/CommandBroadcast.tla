-------------------------- MODULE CommandBroadcast --------------------------
(* What a caller of emitMwNfdcCommand relies on: its command is executed    *)
(* once by every forwarding worker, and the call returns, after all of them *)
(* have executed it.                                                        *)
EXTENDS Naturals, Sequences

CONSTANTS Cmds, Workers

VARIABLES
    call,   \* the state of each call: "none", "open" or "returned"
    log     \* the commands each worker has executed, in order

Executed(w, c) == \E i \in 1 .. Len(log[w]) : log[w][i] = c

BInit == /\ call = [c \in Cmds |-> "none"]
         /\ log = [w \in Workers |-> <<>>]

Open(c) ==
    /\ call[c] = "none"
    /\ call' = [call EXCEPT ![c] = "open"]
    /\ UNCHANGED log

Execute(w, c) ==
    /\ call[c] = "open"
    /\ ~Executed(w, c)
    /\ log' = [log EXCEPT ![w] = Append(@, c)]
    /\ UNCHANGED call

Return(c) ==
    /\ call[c] = "open"
    /\ \A w \in Workers : Executed(w, c)
    /\ call' = [call EXCEPT ![c] = "returned"]
    /\ UNCHANGED log

BNext == \E c \in Cmds : Open(c) \/ Return(c) \/ \E w \in Workers : Execute(w, c)

\* A call that was made is carried through.
BSpec == /\ BInit /\ [][BNext]_<<call, log>>
         /\ \A c \in Cmds : WF_<<call, log>>(Return(c) \/ \E w \in Workers : Execute(w, c))
=============================================================================

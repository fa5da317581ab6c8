-------------------------- MODULE WorkerInputProofs --------------------------
(* What forwarding workers are handed by other threads, whatever their number. *)
(* Commands: with a single emitting thread a call gets the replies to its own  *)
(* command, and the channel implements CommandBroadcast as far as safety goes. *)
(* Fragments: all fragments of a packet meet in one worker, as long as no two  *)
(* peers use the same sequence numbers (g_fragmentMap does not tell faces      *)
(* apart).                                                                     *)
EXTENDS CommandChannel, FragmentDispatch, FiniteSetTheorems, TLAPS

-----------------------------------------------------------------------------
(* The command channel.  e is the emitting thread.                           *)

\* The worker that e is talking to has been sent the command.
Busy(e) == pc[e] \in {"raise", "recv"}

\* That worker has not read it yet, is about to reply, or has replied.
Unread(e) ==
    /\ inbox[idx[e]] = <<cmd[e]>>
    /\ wpc[idx[e]] # "reply"
    /\ replies = <<>>
Replying(e) ==
    /\ inbox[idx[e]] = <<>>
    /\ wpc[idx[e]] = "reply"
    /\ wcmd[idx[e]] = cmd[e]
    /\ replies = <<>>
Replied(e) ==
    /\ inbox[idx[e]] = <<>>
    /\ wpc[idx[e]] # "reply"
    /\ replies = <<[from |-> idx[e], cmd |-> cmd[e]]>>
OneMessage(e) == Busy(e) => Unread(e) \/ Replying(e) \/ Replied(e)

\* Nobody else has anything to do.
OthersQuiet(e) ==
    /\ \A w \in Workers : ~ (Busy(e) /\ w = idx[e]) => inbox[w] = <<>> /\ wpc[w] # "reply"
    /\ ~ Busy(e) => replies = <<>>

\* The open call is that of e.
OneCall(e) ==
    /\ pc[e] # "idle" => cmd[e] \in Cmds
    /\ \A c \in Cmds : call[c] = "open" <=> (pc[e] # "idle" /\ c = cmd[e])

\* What each worker has executed: the calls that have returned, and the open
\* one if its turn has come.
Done(e, w) ==
    \/ w < idx[e]
    \/ w = idx[e] /\ pc[e] = "lower"
    \/ w = idx[e] /\ Busy(e) /\ inbox[w] = <<>>
InTurn(e) ==
    \A w \in Workers, c \in Cmds :
        Broadcast!Executed(w, c) <=> (call[c] = "returned" \/ (call[c] = "open" /\ Done(e, w)))

\* A reply for each worker that e has turned away from
RepliesCounted(e) ==
    pc[e] # "idle" => Len(got[e]) = IF pc[e] = "lower" THEN idx[e] + 1 ELSE idx[e]

IInv(e) ==
    /\ TypeOK /\ OneMessage(e) /\ OthersQuiet(e) /\ OneCall(e) /\ InTurn(e)
    /\ RepliesCounted(e) /\ OwnReplies

-----------------------------------------------------------------------------
\* Appending a command to a log adds it to what the worker has executed.
LEMMA LogGrows ==
    ASSUME TypeOK, NEW w \in Workers, NEW c \in Cmds,
           log' = [log EXCEPT ![w] = Append(@, c)]
    PROVE  \A v \in Workers, d \in Cmds :
               Broadcast!Executed(v, d)' <=> (Broadcast!Executed(v, d) \/ (v = w /\ d = c))
<1> SUFFICES ASSUME NEW v \in Workers, NEW d \in Cmds
             PROVE  Broadcast!Executed(v, d)' <=> (Broadcast!Executed(v, d) \/ (v = w /\ d = c))
  OBVIOUS
<1>0. log \in [Workers -> Seq(Cmds)] /\ log[v] \in Seq(Cmds)
  BY DEF TypeOK
<1>1. CASE v # w
  <2>1. log'[v] = log[v]
    BY <1>0, <1>1
  <2> QED
    BY <1>1, <2>1 DEF Broadcast!Executed
<1>2. CASE v = w
  <2>1. log'[v] = Append(log[v], c)
    BY <1>0, <1>2
  <2>2. /\ Len(log'[v]) = Len(log[v]) + 1
        /\ \A i \in 1 .. Len(log[v]) : log'[v][i] = log[v][i]
        /\ log'[v][Len(log[v]) + 1] = c
    BY <1>0, <2>1
  <2>3. Len(log[v]) \in Nat
    BY <1>0
  <2> QED
    BY <1>2, <2>2, <2>3 DEF Broadcast!Executed
<1> QED
  BY <1>1, <1>2

\* A step that leaves the logs alone leaves alone what was executed.
LEMMA LogStays ==
    ASSUME UNCHANGED log
    PROVE  \A w \in Workers, c \in Cmds : Broadcast!Executed(w, c)' <=> Broadcast!Executed(w, c)
BY DEF Broadcast!Executed

\* Before any call nothing is under way.
LEMMA InitHolds ==
    ASSUME NEW e, Emitters = {e}, Init
    PROVE  IInv(e)
<1> USE ChannelAssumption
<1>1. TypeOK
  BY DEF Init, TypeOK, Workers, Reply
<1>2. OneMessage(e) /\ OthersQuiet(e) /\ OneCall(e)
  BY DEF Init, OneMessage, OthersQuiet, OneCall, Busy
<1>3. InTurn(e)
  BY DEF Init, InTurn, Broadcast!Executed
<1>4. RepliesCounted(e) /\ OwnReplies
  BY DEF Init, RepliesCounted, OwnReplies
<1> QED
  BY <1>1, <1>2, <1>3, <1>4 DEF IInv

\* A call begins when the one before has returned.
LEMMA EmitStep ==
    ASSUME NEW e, Emitters = {e}, IInv(e), NEW c \in Cmds, emit(e, c)
    PROVE  IInv(e)'
<1> USE ChannelAssumption
<1>1. TypeOK'
  BY DEF IInv, TypeOK, emit, workerVars, Workers
<1>2. /\ pc[e] = "idle" /\ pc'[e] = "send" /\ cmd'[e] = c /\ idx'[e] = 0 /\ got'[e] = <<>>
      /\ call' = [call EXCEPT ![c] = "open"] /\ call[c] = "none"
      /\ UNCHANGED <<inbox, replies, wpc, wcmd, log>>
  BY DEF IInv, TypeOK, emit, workerVars
<1>3. OneMessage(e)' /\ OthersQuiet(e)'
  BY <1>2 DEF IInv, OneMessage, OthersQuiet, Busy
<1>4. OneCall(e)'
  BY <1>2 DEF IInv, TypeOK, OneCall
<1>5. InTurn(e)'
  <2>1. \A w \in Workers : ~ Done(e, w)'
    BY <1>2 DEF Done, Busy, Workers
  <2>2. \A d \in Cmds : call'[d] = "returned" <=> call[d] = "returned"
    BY <1>2 DEF IInv, TypeOK
  <2>3. \A d \in Cmds : call[d] # "open"
    BY <1>2 DEF IInv, OneCall
  <2> QED
    BY <1>2, <2>1, <2>2, <2>3, LogStays DEF IInv, InTurn
<1>6. RepliesCounted(e)' /\ OwnReplies'
  BY <1>2 DEF RepliesCounted, OwnReplies
<1> QED
  BY <1>1, <1>3, <1>4, <1>5, <1>6 DEF IInv

\* The command goes to a worker that has not executed it.
LEMMA SendStep ==
    ASSUME NEW e, Emitters = {e}, IInv(e), sendto(e)
    PROVE  IInv(e)'
<1>1. /\ pc[e] = "send" /\ pc'[e] = "raise" /\ idx[e] \in Workers /\ cmd[e] \in Cmds
      /\ inbox' = [inbox EXCEPT ![idx[e]] = Append(@, cmd[e])]
      /\ UNCHANGED <<cmd, idx, got, call, replies, wpc, wcmd, log>>
  BY DEF IInv, TypeOK, sendto, workerVars, OneCall
<1>2. inbox'[idx[e]] = <<cmd[e]>> /\ wpc[idx[e]] # "reply" /\ replies = <<>>
  <2>1. inbox[idx[e]] = <<>> /\ wpc[idx[e]] # "reply" /\ replies = <<>>
    BY <1>1 DEF IInv, OthersQuiet, Busy
  <2>2. inbox'[idx[e]] = Append(<<>>, cmd[e])
    BY <1>1, <2>1 DEF IInv, TypeOK
  <2>3. Append(<<>>, cmd[e]) = <<cmd[e]>>
    OBVIOUS
  <2> QED
    BY <2>1, <2>2, <2>3
<1>3. TypeOK'
  BY <1>1 DEF IInv, TypeOK, sendto, workerVars
<1>4. OneMessage(e)'
  BY <1>1, <1>2 DEF OneMessage, Unread
<1>5. OthersQuiet(e)'
  BY <1>1 DEF IInv, TypeOK, OthersQuiet, Busy
<1>6. OneCall(e)' /\ RepliesCounted(e)' /\ OwnReplies'
  BY <1>1 DEF IInv, OneCall, RepliesCounted, OwnReplies
<1>7. InTurn(e)'
  <2>1. \A w \in Workers : Done(e, w)' <=> Done(e, w)
    <3>1. inbox'[idx[e]] # <<>>
      BY <1>2
    <3> QED
      BY <1>1, <3>1 DEF Done, Busy
  <2> QED
    BY <1>1, <2>1, LogStays DEF IInv, InTurn
<1> QED
  BY <1>3, <1>4, <1>5, <1>6, <1>7 DEF IInv

\* The flags do not matter for what is under way.
LEMMA FlagStep ==
    ASSUME NEW e, Emitters = {e}, IInv(e), raiseFlag(e)
    PROVE  IInv(e)'
<1>1. /\ pc[e] = "raise" /\ pc'[e] = "recv" /\ idx[e] \in Workers
      /\ UNCHANGED <<cmd, idx, got, call, inbox, replies, wpc, wcmd, log>>
  BY DEF IInv, TypeOK, raiseFlag, workerVars
<1>2. TypeOK'
  <2>1. flag' \in [Workers -> BOOLEAN]
    BY <1>1, Zenon DEF IInv, TypeOK, raiseFlag
  <2>2. pc' \in [Emitters -> {"idle", "send", "raise", "recv", "lower"}]
    BY DEF IInv, TypeOK, raiseFlag
  <2> QED
    BY <1>1, <2>1, <2>2 DEF IInv, TypeOK
<1>3. OneMessage(e)' /\ OthersQuiet(e)'
  BY <1>1 DEF IInv, OneMessage, OthersQuiet, Busy, Unread, Replying, Replied
<1>4. OneCall(e)' /\ RepliesCounted(e)' /\ OwnReplies'
  BY <1>1 DEF IInv, OneCall, RepliesCounted, OwnReplies
<1>5. InTurn(e)'
  BY <1>1, LogStays DEF IInv, InTurn, Done, Busy
<1> QED
  BY <1>2, <1>3, <1>4, <1>5 DEF IInv

\* The reply e takes is the one to its command from the worker it talks to.
LEMMA ReceiveStep ==
    ASSUME NEW e, Emitters = {e}, IInv(e), recvReply(e)
    PROVE  IInv(e)'
<1>1. /\ pc[e] = "recv" /\ pc'[e] = "lower" /\ idx[e] \in Workers /\ cmd[e] \in Cmds
      /\ replies # <<>> /\ replies' = Tail(replies)
      /\ got'[e] = Append(got[e], Head(replies)) /\ got[e] \in Seq(Reply)
      /\ UNCHANGED <<cmd, idx, call, flag, inbox, wpc, wcmd, log>>
  BY DEF IInv, TypeOK, recvReply, workerVars, OneCall
<1>2. Replied(e)
  BY <1>1 DEF IInv, OneMessage, Busy, Unread, Replying
<1> DEFINE r == [from |-> idx[e], cmd |-> cmd[e]]
<1>3. Head(replies) = r /\ replies' = <<>> /\ r \in Reply
  BY <1>1, <1>2 DEF Replied, Reply
<1>4. TypeOK'
  <2>1. got' \in [Emitters -> Seq(Reply)]
    BY <1>1, <1>3 DEF IInv, TypeOK, recvReply
  <2>2. pc' \in [Emitters -> {"idle", "send", "raise", "recv", "lower"}]
    BY DEF IInv, TypeOK, recvReply
  <2> QED
    BY <1>1, <1>3, <2>1, <2>2 DEF IInv, TypeOK
<1>5. OneMessage(e)' /\ OthersQuiet(e)'
  BY <1>1, <1>2, <1>3 DEF IInv, OneMessage, OthersQuiet, Busy, Replied
<1>6. OneCall(e)'
  BY <1>1 DEF IInv, OneCall
<1>7. InTurn(e)'
  <2>1. \A w \in Workers : Done(e, w)' <=> Done(e, w)
    BY <1>1, <1>2 DEF Done, Busy, Replied
  <2> QED
    BY <1>1, <2>1, LogStays DEF IInv, InTurn
<1>8. Len(got[e]) = idx[e]
  BY <1>1 DEF IInv, RepliesCounted
<1>9. /\ Len(got'[e]) = idx[e] + 1
      /\ \A i \in 1 .. Len(got[e]) : got'[e][i] = got[e][i]
      /\ got'[e][idx[e] + 1] = r
  BY <1>1, <1>3, <1>8
<1>10. RepliesCounted(e)'
  BY <1>1, <1>9 DEF RepliesCounted
<1>11. OwnReplies'
  <2> SUFFICES ASSUME NEW i \in 1 .. idx[e] + 1
               PROVE  got'[e][i] = [from |-> i - 1, cmd |-> cmd[e]]
    BY <1>1, <1>9, Zenon DEF OwnReplies
  <2>0. idx[e] \in Nat
    BY <1>1, ChannelAssumption DEF Workers
  <2>1. CASE i <= idx[e]
    <3>1. i \in 1 .. Len(got[e])
      BY <1>8, <2>0, <2>1
    <3>2. got[e][i] = [from |-> i - 1, cmd |-> cmd[e]]
      BY <3>1 DEF IInv, OwnReplies
    <3> QED
      BY <1>9, <3>1, <3>2
  <2>2. CASE i = idx[e] + 1
    BY <1>9, <2>0, <2>2
  <2> QED
    BY <2>0, <2>1, <2>2
<1> QED
  BY <1>4, <1>5, <1>6, <1>7, <1>10, <1>11 DEF IInv

\* e turns to the next worker, or returns when the last one has executed the command.
LEMMA LowerStep ==
    ASSUME NEW e, Emitters = {e}, IInv(e), lowerFlag(e)
    PROVE  IInv(e)'
<1>1. /\ pc[e] = "lower" /\ idx[e] \in Workers /\ cmd[e] \in Cmds
      /\ UNCHANGED <<cmd, got, inbox, replies, wpc, wcmd, log>>
  BY DEF IInv, TypeOK, lowerFlag, workerVars, OneCall
<1>2. flag' \in [Workers -> BOOLEAN]
  BY <1>1, Zenon DEF IInv, TypeOK, lowerFlag
<1>3. CASE MoreWorkers(idx[e])
  <2>1. /\ pc' = [pc EXCEPT ![e] = "send"] /\ idx' = [idx EXCEPT ![e] = @ + 1]
        /\ call' = call /\ pc'[e] = "send" /\ idx'[e] = idx[e] + 1 /\ idx[e] + 1 \in Workers
    <3>1. /\ pc' = [pc EXCEPT ![e] = "send"] /\ idx' = [idx EXCEPT ![e] = @ + 1]
          /\ call' = call
      BY <1>3 DEF lowerFlag
    <3>2. e \in DOMAIN pc /\ e \in DOMAIN idx
      BY DEF IInv, TypeOK
    <3>3. pc'[e] = "send" /\ idx'[e] = idx[e] + 1
      BY <3>1, <3>2
    <3>4. idx[e] + 1 \in Workers
      BY <1>1, <1>3, ChannelAssumption DEF MoreWorkers, Workers
    <3> QED
      BY <3>1, <3>3, <3>4
  <2>2. TypeOK'
    BY <1>1, <1>2, <2>1 DEF IInv, TypeOK
  <2>3. OneMessage(e)' /\ OthersQuiet(e)' /\ OneCall(e)'
    BY <1>1, <2>1 DEF IInv, OneMessage, OthersQuiet, OneCall, Busy
  <2>4. \A w \in Workers : Done(e, w)' <=> Done(e, w)
    BY <1>1, <2>1 DEF Done, Busy, Workers
  <2>5. InTurn(e)'
    BY <1>1, <2>1, <2>4, LogStays DEF IInv, InTurn
  <2>6. RepliesCounted(e)' /\ OwnReplies'
    BY <1>1, <2>1 DEF IInv, RepliesCounted, OwnReplies
  <2> QED
    BY <2>2, <2>3, <2>5, <2>6 DEF IInv
<1>4. CASE ~ MoreWorkers(idx[e])
  <2>1. /\ pc' = [pc EXCEPT ![e] = "idle"] /\ call' = [call EXCEPT ![cmd[e]] = "returned"]
        /\ idx' = idx /\ pc'[e] = "idle"
    BY <1>1, <1>4 DEF IInv, TypeOK, lowerFlag
  <2>2. TypeOK'
    BY <1>1, <1>2, <2>1 DEF IInv, TypeOK
  <2>3. OneMessage(e)' /\ OthersQuiet(e)'
    BY <1>1, <2>1 DEF IInv, OneMessage, OthersQuiet, Busy
  <2>4. OneCall(e)'
    BY <1>1, <2>1 DEF IInv, TypeOK, OneCall
  <2>5. \A w \in Workers : Done(e, w)
    BY <1>1, <1>4, ChannelAssumption DEF Done, MoreWorkers, Workers
  <2>6. InTurn(e)'
    <3>1. \A c \in Cmds : call'[c] = "returned" <=> (call[c] = "returned" \/ c = cmd[e])
      BY <1>1, <2>1 DEF IInv, TypeOK
    <3>2. \A c \in Cmds : call'[c] # "open"
      BY <2>1, <2>4 DEF OneCall
    <3>3. \A c \in Cmds : call[c] = "open" <=> c = cmd[e]
      BY <1>1 DEF IInv, OneCall
    <3> QED
      BY <1>1, <2>5, <3>1, <3>2, <3>3, LogStays DEF IInv, InTurn
  <2>7. RepliesCounted(e)' /\ OwnReplies'
    BY <1>1, <2>1 DEF IInv, RepliesCounted, OwnReplies
  <2> QED
    BY <2>2, <2>3, <2>4, <2>6, <2>7 DEF IInv
<1> QED
  BY <1>3, <1>4

\* A worker that looks and finds nothing changes only where it is in its loop.
LEMMA LookStep ==
    ASSUME NEW e, Emitters = {e}, IInv(e), NEW w \in Workers, pollFlag(w) \/ recvNothing(w)
    PROVE  IInv(e)'
<1>1. /\ UNCHANGED <<pc, cmd, idx, got, call, flag, inbox, replies, wcmd, log>>
      /\ wpc[w] # "reply"
      /\ wpc' = [wpc EXCEPT ![w] = "loop"] \/ wpc' = [wpc EXCEPT ![w] = "recv"]
  BY DEF pollFlag, recvNothing, emitterVars
<1>2. TypeOK'
  BY <1>1, Zenon DEF IInv, TypeOK
<1>3. \A v \in Workers : wpc'[v] = "reply" <=> wpc[v] = "reply"
  BY <1>1 DEF IInv, TypeOK
<1>4. idx[e] \in Workers
  BY DEF IInv, TypeOK
<1>5. OneMessage(e)'
  BY <1>1, <1>3, <1>4 DEF IInv, OneMessage, Busy, Unread, Replying, Replied
<1>6. OthersQuiet(e)'
  BY <1>1, <1>3 DEF IInv, OthersQuiet, Busy
<1>7. OneCall(e)' /\ RepliesCounted(e)' /\ OwnReplies'
  BY <1>1 DEF IInv, OneCall, RepliesCounted, OwnReplies
<1>8. InTurn(e)'
  BY <1>1, LogStays DEF IInv, InTurn, Done, Busy
<1> QED
  BY <1>2, <1>5, <1>6, <1>7, <1>8 DEF IInv

\* Only the worker that e talks to has a command to execute: that of e, once.
LEMMA ExecuteIsTurn ==
    ASSUME NEW e, Emitters = {e}, IInv(e), NEW w \in Workers, processNfdcCommand(w)
    PROVE  /\ Busy(e) /\ w = idx[e] /\ Unread(e) /\ cmd[e] \in Cmds
           /\ log' = [log EXCEPT ![w] = Append(@, cmd[e])]
           /\ inbox' = [inbox EXCEPT ![w] = <<>>]
           /\ wcmd' = [wcmd EXCEPT ![w] = cmd[e]]
           /\ ~ Broadcast!Executed(w, cmd[e]) /\ call[cmd[e]] = "open"
<1>1. inbox[w] # <<>>
  BY DEF processNfdcCommand
<1>2. Busy(e) /\ w = idx[e]
  BY <1>1 DEF IInv, OthersQuiet
<1>3. Unread(e)
  BY <1>1, <1>2 DEF IInv, OneMessage, Replying, Replied
<1>4. cmd[e] \in Cmds /\ call[cmd[e]] = "open"
  BY <1>2 DEF IInv, OneCall, Busy
<1>5. Head(inbox[w]) = cmd[e] /\ Tail(inbox[w]) = <<>>
  BY <1>2, <1>3 DEF Unread
<1>6. ~ Done(e, w)
  BY <1>1, <1>2, ChannelAssumption DEF Done, Busy, Workers
<1>7. ~ Broadcast!Executed(w, cmd[e])
  BY <1>4, <1>6 DEF IInv, InTurn
<1> QED
  BY <1>2, <1>3, <1>4, <1>5, <1>7, Zenon DEF processNfdcCommand

LEMMA ExecuteStep ==
    ASSUME NEW e, Emitters = {e}, IInv(e), NEW w \in Workers, processNfdcCommand(w)
    PROVE  IInv(e)'
<1>1. /\ Busy(e) /\ w = idx[e] /\ Unread(e) /\ cmd[e] \in Cmds
      /\ log' = [log EXCEPT ![w] = Append(@, cmd[e])]
      /\ inbox' = [inbox EXCEPT ![w] = <<>>]
      /\ wcmd' = [wcmd EXCEPT ![w] = cmd[e]]
      /\ call[cmd[e]] = "open"
  BY ExecuteIsTurn
<1>2. /\ wpc' = [wpc EXCEPT ![w] = "reply"]
      /\ UNCHANGED <<pc, cmd, idx, got, call, flag, replies>>
  BY DEF processNfdcCommand, emitterVars
<1>3. TypeOK'
  <2>1. log' \in [Workers -> Seq(Cmds)]
    BY <1>1 DEF IInv, TypeOK
  <2>2. inbox' \in [Workers -> Seq(Cmds)]
    BY <1>1 DEF IInv, TypeOK
  <2> QED
    BY <1>1, <1>2, <2>1, <2>2 DEF IInv, TypeOK
<1>4. OneMessage(e)'
  <2>1. Replying(e)'
    BY <1>1, <1>2 DEF IInv, TypeOK, Replying, Unread
  <2> QED
    BY <2>1 DEF OneMessage
<1>5. OthersQuiet(e)'
  BY <1>1, <1>2 DEF IInv, TypeOK, OthersQuiet, Busy
<1>6. OneCall(e)' /\ RepliesCounted(e)' /\ OwnReplies'
  BY <1>2, Zenon DEF IInv, OneCall, RepliesCounted, OwnReplies
<1>7. InTurn(e)'
  <2>1. \A v \in Workers : Done(e, v)' <=> (Done(e, v) \/ v = w)
    BY <1>1, <1>2 DEF IInv, TypeOK, Done, Busy
  <2>2. \A c \in Cmds : call[c] = "open" <=> c = cmd[e]
    BY <1>1 DEF IInv, OneCall, Busy
  <2>3. \A v \in Workers, c \in Cmds :
            Broadcast!Executed(v, c)' <=> (Broadcast!Executed(v, c) \/ (v = w /\ c = cmd[e]))
    BY <1>1, LogGrows, Zenon DEF IInv
  <2> QED
    BY <1>2, <2>1, <2>2, <2>3 DEF IInv, InTurn
<1> QED
  BY <1>3, <1>4, <1>5, <1>6, <1>7 DEF IInv

\* The reply is to the command that e waits for.
LEMMA ReplyStep ==
    ASSUME NEW e, Emitters = {e}, IInv(e), NEW w \in Workers, reply(w)
    PROVE  IInv(e)'
<1>1. /\ wpc[w] = "reply" /\ wpc' = [wpc EXCEPT ![w] = "loop"]
      /\ wcmd' = [wcmd EXCEPT ![w] = NoCmd]
      /\ replies' = Append(replies, [from |-> w, cmd |-> wcmd[w]])
      /\ UNCHANGED <<pc, cmd, idx, got, call, flag, inbox, log>>
  BY DEF reply, emitterVars
<1>2. Busy(e) /\ w = idx[e]
  BY <1>1 DEF IInv, OthersQuiet
<1>3. Replying(e) /\ cmd[e] \in Cmds
  BY <1>1, <1>2 DEF IInv, OneMessage, Unread, Replied, OneCall, Busy
<1>4. replies' = <<[from |-> idx[e], cmd |-> cmd[e]]>>
  <2>1. replies' = Append(<<>>, [from |-> idx[e], cmd |-> cmd[e]])
    BY <1>1, <1>2, <1>3 DEF Replying
  <2> QED
    BY <2>1
<1>5. TypeOK'
  <2>1. replies' \in Seq(Reply)
    BY <1>2, <1>3, <1>4 DEF Reply
  <2> QED
    BY <1>1, <2>1 DEF IInv, TypeOK
<1>6. OneMessage(e)'
  <2>1. Replied(e)'
    BY <1>1, <1>2, <1>3, <1>4 DEF IInv, TypeOK, Replied, Replying
  <2> QED
    BY <2>1 DEF OneMessage
<1>7. OthersQuiet(e)'
  BY <1>1, <1>2 DEF IInv, TypeOK, OthersQuiet, Busy
<1>8. OneCall(e)' /\ RepliesCounted(e)' /\ OwnReplies'
  BY <1>1 DEF IInv, OneCall, RepliesCounted, OwnReplies
<1>9. InTurn(e)'
  BY <1>1, LogStays DEF IInv, InTurn, Done, Busy
<1> QED
  BY <1>5, <1>6, <1>7, <1>8, <1>9 DEF IInv

\* Every step, and every stuttering step, preserves the invariant.
LEMMA NextHolds ==
    ASSUME NEW e, Emitters = {e}, IInv(e), [Next]_vars
    PROVE  IInv(e)'
<1>1. CASE UNCHANGED vars
  <2>1. /\ UNCHANGED <<pc, cmd, idx, got, call>>
        /\ UNCHANGED <<flag, inbox, replies, wpc, wcmd, log>>
    BY <1>1 DEF vars, emitterVars, workerVars
  <2>2. TypeOK' /\ OwnReplies' /\ RepliesCounted(e)' /\ OneCall(e)'
    BY <2>1 DEF IInv, TypeOK, OwnReplies, RepliesCounted, OneCall
  <2>3. OneMessage(e)' /\ OthersQuiet(e)'
    BY <2>1 DEF IInv, OneMessage, OthersQuiet, Busy, Unread, Replying, Replied
  <2>4. InTurn(e)'
    BY <2>1, LogStays DEF IInv, InTurn, Done, Busy
  <2> QED
    BY <2>2, <2>3, <2>4 DEF IInv
<1>2. CASE \E c \in Cmds : emit(e, c)
  BY <1>2, EmitStep
<1>3. CASE EmitterStep(e)
  BY <1>3, SendStep, FlagStep, ReceiveStep, LowerStep DEF EmitterStep
<1>4. CASE \E w \in Workers : WorkerStep(w)
  BY <1>4, LookStep, ExecuteStep, ReplyStep DEF WorkerStep
<1> QED
  BY <1>1, <1>2, <1>3, <1>4 DEF Next

LEMMA Invariance ==
    ASSUME NEW CONSTANT e, Emitters = {e}
    PROVE  Spec => []IInv(e)
<1>1. Init => IInv(e)
  BY InitHolds
<1>2. IInv(e) /\ [Next]_vars => IInv(e)'
  BY NextHolds
<1> QED
  BY <1>1, <1>2, PTL DEF Spec

-----------------------------------------------------------------------------
\* With one emitting thread, the replies that emitMwNfdcCommand adds up are
\* the workers' answers to its own command, however many workers there are.
THEOREM OwnRepliesOneEmitter ==
    ASSUME NEW CONSTANT e, Emitters = {e}
    PROVE  Spec => []OwnReplies
<1>1. IInv(e) => OwnReplies
  BY DEF IInv
<1> QED
  BY <1>1, Invariance, PTL

\* With one emitting thread, emitMwNfdcCommand returns only after every worker
\* has executed the command.
THEOREM AllEmitOneEmitter ==
    ASSUME NEW CONSTANT e, Emitters = {e}
    PROVE  Spec => []AllEmit
<1>1. IInv(e) => AllEmit
  BY DEF IInv, InTurn, AllEmit, Broadcast!Executed
<1> QED
  BY <1>1, Invariance, PTL

\* A step of the channel is a step of CommandBroadcast, or none: entering
\* emitMwNfdcCommand opens the call, processNfdcCommand executes it, and
\* lowering the flag of the last worker returns from it.
LEMMA StepRefines ==
    ASSUME NEW e, Emitters = {e}, IInv(e), [Next]_vars
    PROVE  [Broadcast!BNext]_<<call, log>>
<1>1. CASE UNCHANGED vars
  BY <1>1 DEF vars, emitterVars, workerVars
<1>2. CASE \E c \in Cmds : emit(e, c)
  <2>1. PICK c \in Cmds : emit(e, c)
    BY <1>2
  <2>2. Broadcast!Open(c)
    BY <2>1 DEF emit, workerVars, Broadcast!Open
  <2> QED
    BY <2>2 DEF Broadcast!BNext
<1>3. CASE sendto(e) \/ raiseFlag(e) \/ recvReply(e)
  BY <1>3 DEF sendto, raiseFlag, recvReply, workerVars
<1>4. CASE lowerFlag(e) /\ MoreWorkers(idx[e])
  BY <1>4 DEF lowerFlag, workerVars
<1>5. CASE lowerFlag(e) /\ ~ MoreWorkers(idx[e])
  <2>1. /\ pc[e] = "lower" /\ UNCHANGED log
        /\ call' = [call EXCEPT ![cmd[e]] = "returned"]
    BY <1>5 DEF lowerFlag, workerVars
  <2>2. cmd[e] \in Cmds /\ call[cmd[e]] = "open"
    BY <2>1 DEF IInv, OneCall
  <2>3. idx[e] \in Workers
    BY DEF IInv, TypeOK
  <2>4. \A w \in Workers : Done(e, w)
    BY <1>5, <2>1, <2>3, ChannelAssumption DEF Done, Workers, MoreWorkers
  <2>5. \A w \in Workers : Broadcast!Executed(w, cmd[e])
    BY <2>2, <2>4 DEF IInv, InTurn
  <2>6. Broadcast!Return(cmd[e])
    BY <2>1, <2>2, <2>5 DEF Broadcast!Return
  <2> QED
    BY <2>2, <2>6 DEF Broadcast!BNext
<1>6. CASE \E w \in Workers : pollFlag(w) \/ recvNothing(w) \/ reply(w)
  BY <1>6 DEF pollFlag, recvNothing, reply, emitterVars
<1>7. CASE \E w \in Workers : processNfdcCommand(w)
  <2>1. PICK w \in Workers : processNfdcCommand(w)
    BY <1>7
  <2>2. /\ cmd[e] \in Cmds /\ call[cmd[e]] = "open"
        /\ ~ Broadcast!Executed(w, cmd[e])
        /\ log' = [log EXCEPT ![w] = Append(@, cmd[e])]
    BY <2>1, ExecuteIsTurn
  <2>3. UNCHANGED call
    BY <2>1 DEF processNfdcCommand, emitterVars
  <2>4. Broadcast!Execute(w, cmd[e])
    BY <2>2, <2>3 DEF Broadcast!Execute
  <2> QED
    BY <2>2, <2>4 DEF Broadcast!BNext
<1> QED
  BY <1>1, <1>2, <1>3, <1>4, <1>5, <1>6, <1>7 DEF Next, EmitterStep, WorkerStep

\* With one emitting thread the channel implements the safety part of
\* CommandBroadcast: every worker executes a command at most once, while its
\* call is open, and the call returns after all of them have.
THEOREM ChannelIsBroadcast ==
    ASSUME NEW CONSTANT e, Emitters = {e}
    PROVE  Spec => Broadcast!BInit /\ [][Broadcast!BNext]_<<call, log>>
<1>1. Init => Broadcast!BInit
  BY DEF Init, Broadcast!BInit
<1>2. IInv(e) /\ [Next]_vars => [Broadcast!BNext]_<<call, log>>
  BY StepRefines
<1> QED
  BY <1>1, <1>2, Invariance, PTL DEF Spec

-----------------------------------------------------------------------------
(* Fragments.                                                                *)

\* What a packet becomes when its next fragment arrives or is lost: the same
\* packet, one fragment further.
Advanced(m, n) ==
    /\ n.face = m.face /\ n.id = m.id /\ n.count = m.count /\ n.home = m.home
    /\ n.next = m.next + 1

\* The packets of a face have numbers of their own, from those that its peer has
\* given out; each packet that is sent moves the counter by at most M.
Numbered(M) ==
    /\ IsFiniteSet(packets) /\ Cardinality(packets) <= MaxPackets
    /\ \A f \in Faces : /\ StartSeq[f] <= lastSeqNo[f]
                        /\ lastSeqNo[f] <= StartSeq[f] + Cardinality(packets) * M
    /\ \A m \in packets : StartSeq[m.face] <= m.id /\ m.id < lastSeqNo[m.face]
    /\ \A m, n \in packets : m.face = n.face /\ m.id = n.id => m = n

\* The map sends the fragments that follow a first one where that one went, and
\* it does so until the last one.
MapLeadsHome ==
    /\ \A e \in fragmentMap, m \in packets : e.id = m.id => e.worker = m.home /\ m.next > 0
    /\ \A m \in packets : ~ m.lost /\ m.next \in 1 .. m.count - 1 =>
        \E e \in fragmentMap : e.id = m.id

\* The inductive invariant
FragmentInv(M) == FragmentTypeOK /\ MapForgets /\ Numbered(M) /\ MapLeadsHome /\ FragmentsGoHome

-----------------------------------------------------------------------------
(* Type correctness, and that the map forgets: these need no assumption on   *)
(* the numbers.                                                              *)

\* A packet that has moved on is a packet.
LEMMA LostPacket ==
    ASSUME NEW m \in Packet
    PROVE  LET n == [m EXCEPT !.next = @ + 1, !.lost = TRUE]
           IN  n \in Packet /\ Advanced(m, n) /\ n.lost
<1>1. m.next + 1 \in Nat  BY DEF Packet
<1> QED BY <1>1, Zenon DEF Packet, Advanced

LEMMA ArrivedPacket ==
    ASSUME NEW m \in Packet, NEW S, S \subseteq Workers
    PROVE  LET n == [m EXCEPT !.next = @ + 1, !.went = S]
           IN  n \in Packet /\ Advanced(m, n) /\ n.lost = m.lost /\ n.went = S
<1>1. m.next + 1 \in Nat  BY DEF Packet
<1> QED BY <1>1, Zenon DEF Packet, Advanced

\* A lookup in g_fragmentMap gives a worker, or nothing.
LEMMA FoundType ==
    ASSUME FragmentTypeOK, NEW id, NEW w \in Found(id)
    PROVE  w \subseteq Workers
  BY DEF Found, FragmentTypeOK

LEMMA PacketType ==
    ASSUME FragmentTypeOK, NEW m \in packets
    PROVE  /\ m \in Packet /\ m.next \in Nat /\ m.id \in Nat /\ m.home \in Workers
           /\ m.face \in Faces /\ m.went \subseteq Workers /\ m.lost \in BOOLEAN
           /\ m.count \in Nat /\ m.count > 1 /\ m.next <= m.count
<1>1. m \in Packet /\ m.next <= m.count  BY DEF FragmentTypeOK
<1>2. m.count \in FragCounts  BY <1>1 DEF Packet
<1>3. \A c \in FragCounts : c \in Nat /\ c > 1  BY FragmentAssumption
<1>4. m.count \in Nat /\ m.count > 1  BY <1>2, <1>3, Zenon
<1> QED BY <1>1, <1>4 DEF Packet

\* What the three steps of a packet do to it: it moves on by one fragment, which is
\* lost or goes to a worker.
Goes(m, n) ==
    \/ lose(m) /\ n.lost
    \/ dissectFirst(m) /\ n.lost = m.lost /\ n.went = {m.home}
    \/ dissectLater(m) /\ n.lost = m.lost /\ \E w \in Found(m.id) : n.went = m.went \cup w

LEMMA StepOfPacket ==
    ASSUME FragmentTypeOK, NEW m \in packets, lose(m) \/ dissectFirst(m) \/ dissectLater(m)
    PROVE  \E n \in Packet : /\ packets' = (packets \ {m}) \cup {n}
                             /\ Advanced(m, n) /\ m.next < m.count
                             /\ Goes(m, n)
                             /\ lastSeqNo' = lastSeqNo
<1>0. m \in Packet /\ m.next \in Nat /\ m.count \in Nat /\ m.count > 1 /\ m.home \in Workers
      /\ m.went \subseteq Workers
  BY PacketType
<1>1. CASE lose(m)
  <2> DEFINE n == [m EXCEPT !.next = @ + 1, !.lost = TRUE]
  <2>1. n \in Packet /\ Advanced(m, n) /\ n.lost  BY <1>0, LostPacket, Zenon
  <2> HIDE DEF n
  <2>2. packets' = (packets \ {m}) \cup {n}  BY <1>1 DEF lose, n
  <2>3. m.next < m.count /\ lastSeqNo' = lastSeqNo  BY <1>1 DEF lose
  <2> QED BY <1>1, <2>1, <2>2, <2>3 DEF Goes
<1>2. CASE dissectFirst(m)
  <2> DEFINE n == [m EXCEPT !.next = m.next + 1, !.went = {m.home}]
  <2>2. m.next = 0  BY <1>2 DEF dissectFirst
  <2>3. m.next + 1 = 1  BY <2>2
  <2>4. packets' = (packets \ {m}) \cup {n}  BY <1>2, <2>3 DEF dissectFirst
  <2>1. n \in Packet /\ Advanced(m, n) /\ n.lost = m.lost /\ n.went = {m.home}
    BY <1>0, {m.home} \subseteq Workers, ArrivedPacket, Zenon
  <2> HIDE DEF n
  <2>5. m.next < m.count /\ lastSeqNo' = lastSeqNo  BY <1>0, <1>2, <2>2 DEF dissectFirst
  <2> QED BY <1>2, <2>1, <2>4, <2>5 DEF Goes
<1>3. CASE dissectLater(m)
  <2>1. PICK w \in Found(m.id) :
            packets' = (packets \ {m}) \cup {[m EXCEPT !.next = @ + 1, !.went = @ \cup w]}
    BY <1>3, Zenon DEF dissectLater
  <2> DEFINE n == [m EXCEPT !.next = m.next + 1, !.went = m.went \cup w]
  <2>2. m.went \cup w \subseteq Workers  BY <1>0, FoundType
  <2>4. packets' = (packets \ {m}) \cup {n}  BY <2>1
  <2>3. n \in Packet /\ Advanced(m, n) /\ n.lost = m.lost /\ n.went = m.went \cup w
    BY <1>0, <2>2, ArrivedPacket, Zenon
  <2> HIDE DEF n
  <2>5. m.next \in 1 .. m.count - 1 /\ lastSeqNo' = lastSeqNo  BY <1>3, Zenon DEF dissectLater
  <2>6. m.next < m.count  BY <1>0, <2>5
  <2> QED BY <1>3, <2>3, <2>4, <2>5, <2>6 DEF Goes
<1> QED BY <1>1, <1>2, <1>3

\* The pairs of g_fragmentMap keep their type and their distinct keys.
LEMMA MapType ==
    ASSUME FragmentTypeOK, NEW m \in packets, lose(m) \/ dissectFirst(m) \/ dissectLater(m)
    PROVE  /\ fragmentMap' \subseteq [id : Nat, worker : Workers]
           /\ \A e, f \in fragmentMap' : e.id = f.id => e = f
<1>1. CASE lose(m)  BY <1>1 DEF lose, FragmentTypeOK
<1>2. CASE dissectFirst(m)
  <2>1. [id |-> m.id, worker |-> m.home] \in [id : Nat, worker : Workers]
    BY DEF FragmentTypeOK, Packet
  <2> QED BY <1>2, <2>1 DEF dissectFirst, Inserted, FragmentTypeOK
<1>3. CASE dissectLater(m)  BY <1>3, Zenon DEF dissectLater, Erased, FragmentTypeOK
<1> QED BY <1>1, <1>2, <1>3

\* The step that sends a packet adds one that nothing has been received of.
LEMMA SentPacket ==
    ASSUME FragmentTypeOK, NEW f \in Faces, NEW c \in FragCounts, NEW token \in BOOLEAN,
           NEW home \in Workers, sendNetPacket(f, c, token, home)
    PROVE  \E n \in Packet :
              /\ packets' = packets \cup {n}
              /\ n.face = f /\ n.id = lastSeqNo[f] /\ n.count = c /\ n.home = home
              /\ n.next = 0 /\ ~ n.lost /\ n.went = {}
<1> DEFINE n == [face |-> f, id |-> lastSeqNo[f], count |-> c, token |-> token, home |-> home,
                 next |-> 0, lost |-> FALSE, went |-> {}]
<1>1. n \in Packet  BY DEF FragmentTypeOK, Packet
<1> QED BY <1>1, Zenon DEF sendNetPacket

\* FragmentTypeOK and MapForgets are inductive together.  Of an entry that stays in the map
\* the packet has not come to its end, since Erased takes the entries of one that has.
LEMMA TypeStep == FragmentTypeOK /\ MapForgets /\ [FragmentNext]_fragmentVars => FragmentTypeOK' /\ MapForgets'
<1> SUFFICES ASSUME FragmentTypeOK, MapForgets, [FragmentNext]_fragmentVars PROVE FragmentTypeOK' /\ MapForgets'
  OBVIOUS
<1>1. CASE UNCHANGED fragmentVars  BY <1>1 DEF fragmentVars, FragmentTypeOK, MapForgets
<1>2. ASSUME NEW f \in Faces, NEW c \in FragCounts, NEW token \in BOOLEAN, NEW home \in Workers,
             sendNetPacket(f, c, token, home)
      PROVE  FragmentTypeOK' /\ MapForgets'
  <2>1. PICK n \in Packet : packets' = packets \cup {n} /\ n.count = c /\ n.next = 0
    BY <1>2, SentPacket
  <2>2. c \in Nat  BY FragmentAssumption
  <2>3. lastSeqNo' \in [Faces -> Nat]  BY <1>2, <2>2 DEF sendNetPacket, FragmentTypeOK
  <2>4. packets' \subseteq Packet /\ \A k \in packets' : k.next <= k.count
    BY <2>1, <2>2 DEF FragmentTypeOK
  <2>5. fragmentMap' = fragmentMap  BY <1>2 DEF sendNetPacket
  <2>6. FragmentTypeOK'  BY <2>3, <2>4, <2>5 DEF FragmentTypeOK
  <2>7. MapForgets'  BY <2>1, <2>5 DEF MapForgets
  <2> QED BY <2>6, <2>7
<1>3. ASSUME NEW m \in packets, lose(m) \/ dissectFirst(m) \/ dissectLater(m)
      PROVE  FragmentTypeOK' /\ MapForgets'
  <2>1. PICK n \in Packet : /\ packets' = (packets \ {m}) \cup {n}
                            /\ Advanced(m, n) /\ m.next < m.count
                            /\ Goes(m, n)
                            /\ lastSeqNo' = lastSeqNo
    BY <1>3, StepOfPacket
  <2>2. m.next \in Nat /\ m.count \in Nat /\ m.count > 1 /\ m.lost \in BOOLEAN  BY PacketType
  <2>3. n.id = m.id /\ n.count = m.count /\ n.next = m.next + 1  BY <2>1 DEF Advanced
  <2>4. packets' \subseteq Packet /\ \A k \in packets' : k.next <= k.count
    BY <2>1, <2>2, <2>3 DEF FragmentTypeOK
  <2>5. FragmentTypeOK'
    <3>1. /\ fragmentMap' \subseteq [id : Nat, worker : Workers]
          /\ \A e, f \in fragmentMap' : e.id = f.id => e = f
      BY <1>3, MapType
    <3> QED BY <2>1, <2>4, <3>1 DEF FragmentTypeOK
  <2>6. ASSUME NEW e \in fragmentMap'
        PROVE  e \in fragmentMap \/ e.id = m.id
    <3>1. fragmentMap' \in {fragmentMap, Inserted(m.id, m.home), Erased(m)}
      BY <1>3, Zenon DEF lose, dissectFirst, dissectLater
    <3> QED BY <3>1 DEF Inserted, Erased
  <2>7. ASSUME NEW e \in fragmentMap', e.id = m.id
        PROVE  n.lost \/ n.next < n.count
    <3>1. CASE lose(m) /\ n.lost  BY <3>1
    <3>2. CASE dissectFirst(m)  BY <2>2, <2>3, <3>2 DEF dissectFirst
    <3>3. CASE dissectLater(m)
      <4>1. m.next # m.count - 1  BY <2>7, <3>3 DEF dissectLater, Erased
      <4> QED BY <2>1, <2>2, <2>3, <4>1
    <3> QED BY <2>1, <3>1, <3>2, <3>3 DEF Goes
  <2>8. m.lost => n.lost  BY <2>1, <2>2, Zenon DEF Goes
  <2>9. ASSUME NEW e \in fragmentMap'
        PROVE  \E k \in packets' : k.id = e.id /\ (k.lost \/ k.next < k.count)
    <3>1. CASE e.id = m.id  BY <2>1, <2>3, <2>7, <3>1
    <3>2. CASE e.id # m.id
      <4>1. PICK k \in packets : k.id = e.id /\ (k.lost \/ k.next < k.count)
        BY <2>6, <3>2 DEF MapForgets
      <4> QED BY <2>1, <3>2, <4>1
    <3> QED BY <3>1, <3>2
  <2> QED BY <2>5, <2>9 DEF MapForgets
<1> QED BY <1>1, <1>2, <1>3 DEF FragmentNext

\* The types of the counters of the peers, of the packets and of g_fragmentMap.
THEOREM FragmentTypeCorrect == FragmentSpec => []FragmentTypeOK
<1>1. FragmentInit => FragmentTypeOK /\ MapForgets  BY FragmentAssumption DEF FragmentInit, FragmentTypeOK, MapForgets
<1> QED BY <1>1, TypeStep, PTL DEF FragmentSpec

\* g_fragmentMap keeps no entry of a packet that has arrived without loss: the last
\* fragment erases it (dissectNdnPacket).
THEOREM MapForgetsAlways == FragmentSpec => []MapForgets
<1>1. FragmentInit => FragmentTypeOK /\ MapForgets  BY FragmentAssumption DEF FragmentInit, FragmentTypeOK, MapForgets
<1> QED BY <1>1, TypeStep, PTL DEF FragmentSpec

-----------------------------------------------------------------------------
(* That fragments go home, when the peers' numbers are apart.                *)

LEMMA Multiples ==
    ASSUME NEW a \in Nat, NEW b \in Nat, NEW M \in Nat, a <= b
    PROVE  a * M <= b * M /\ (a + 1) * M = a * M + M /\ a * M \in Nat /\ b * M \in Nat
<1>1. PICK d \in Nat : b = a + d
  <2>1. b - a \in Nat /\ b = a + (b - a)  OBVIOUS
  <2> QED BY <2>1
<1>2. b * M = a * M + d * M  BY <1>1
<1>3. a * M \in Nat /\ d * M \in Nat  OBVIOUS
<1> QED BY <1>2, <1>3

\* Two packets never have the same key in g_fragmentMap.
DistinctIds == \A m, n \in packets : m.id = n.id => m = n

LEMMA UniqueIds ==
    ASSUME NEW M, NumbersApart(M)
    PROVE  FragmentTypeOK /\ Numbered(M) => DistinctIds
<1> SUFFICES ASSUME FragmentTypeOK, Numbered(M), NEW m \in packets, NEW n \in packets, m.id = n.id
             PROVE  m = n
  BY DEF DistinctIds
<1>1. /\ M \in Nat /\ MaxPackets \in Nat
      /\ \A f \in Faces : StartSeq[f] \in Nat /\ lastSeqNo[f] \in Nat
  BY FragmentAssumption DEF NumbersApart, FragmentTypeOK
<1>2. IsFiniteSet(packets) /\ Cardinality(packets) <= MaxPackets  BY DEF Numbered
<1>3. Cardinality(packets) \in Nat  BY <1>2, FS_CardinalityType
<1>4. Cardinality(packets) * M <= MaxPackets * M
  BY <1>1, <1>2, <1>3, Multiples
<1>5. Cardinality(packets) * M \in Nat /\ MaxPackets * M \in Nat  BY <1>1, <1>3
<1>6. ASSUME NEW k \in packets
      PROVE  /\ k.face \in Faces /\ k.id \in Nat
             /\ StartSeq[k.face] <= k.id /\ k.id < StartSeq[k.face] + MaxPackets * M
  <2>1. k.face \in Faces /\ k.id \in Nat  BY PacketType
  <2>2. StartSeq[k.face] <= k.id /\ k.id < lastSeqNo[k.face]  BY DEF Numbered
  <2>3. lastSeqNo[k.face] <= StartSeq[k.face] + Cardinality(packets) * M  BY <2>1 DEF Numbered
  <2>4. StartSeq[k.face] \in Nat /\ lastSeqNo[k.face] \in Nat  BY <1>1, <2>1
  <2> HIDE DEF Numbered
  <2> QED BY <1>4, <1>5, <2>1, <2>2, <2>3, <2>4
<1>7. m.face = n.face
  <2> SUFFICES ASSUME m.face # n.face PROVE FALSE  OBVIOUS
  <2>1. \/ StartSeq[m.face] + MaxPackets * M <= StartSeq[n.face]
        \/ StartSeq[n.face] + MaxPackets * M <= StartSeq[m.face]
    BY <1>6 DEF NumbersApart
  <2>2. StartSeq[m.face] \in Nat /\ StartSeq[n.face] \in Nat  BY <1>1, <1>6
  <2>3. StartSeq[m.face] <= m.id /\ m.id < StartSeq[m.face] + MaxPackets * M /\ m.id \in Nat
    BY <1>6
  <2>4. StartSeq[n.face] <= m.id /\ m.id < StartSeq[n.face] + MaxPackets * M
    BY <1>6
  <2> QED BY <1>5, <2>1, <2>2, <2>3, <2>4
<1> QED BY <1>7 DEF Numbered

LEMMA UniqueIdsNext ==
    ASSUME NEW M, NumbersApart(M)
    PROVE  FragmentTypeOK' /\ Numbered(M)' => DistinctIds'
  BY UniqueIds, PTL

\* The packets stay numbered apart when one of them moves on.
LEMMA NumberedStep ==
    ASSUME NEW M, FragmentTypeOK, Numbered(M), NEW m \in packets, NEW n,
           Advanced(m, n), packets' = (packets \ {m}) \cup {n}, lastSeqNo' = lastSeqNo
    PROVE  Numbered(M)'
<1>1. n.face = m.face /\ n.id = m.id  BY DEF Advanced
<1>2. IsFiniteSet(packets)  BY DEF Numbered
<1>3. n \notin packets \ {m}
  <2>1. ASSUME n \in packets PROVE n = m  BY <1>1, <2>1 DEF Numbered
  <2> QED BY <2>1
<1>4. IsFiniteSet(packets \ {m}) /\ Cardinality(packets \ {m}) = Cardinality(packets) - 1
  BY <1>2, FS_RemoveElement
<1>5. IsFiniteSet(packets') /\ Cardinality(packets') = Cardinality(packets \ {m}) + 1
  BY <1>3, <1>4, FS_AddElement
<1>6. Cardinality(packets) \in Nat  BY <1>2, FS_CardinalityType
<1>7. Cardinality(packets') = Cardinality(packets)  BY <1>4, <1>5, <1>6
<1>8. \A k \in packets' : StartSeq[k.face] <= k.id /\ k.id < lastSeqNo'[k.face]
  BY <1>1 DEF Numbered
<1>9. \A k, l \in packets' : k.face = l.face /\ k.id = l.id => k = l
  BY <1>1 DEF Numbered
<1>10. Cardinality(packets') <= MaxPackets  BY <1>7 DEF Numbered
<1>11. \A f \in Faces : /\ StartSeq[f] <= lastSeqNo'[f]
                        /\ lastSeqNo'[f] <= StartSeq[f] + Cardinality(packets') * M
  BY <1>7 DEF Numbered
<1> QED BY <1>5, <1>8, <1>9, <1>10, <1>11, Zenon DEF Numbered

\* A packet that is sent takes the next numbers of its face, at most M of them.
LEMMA NumberedSend ==
    ASSUME NEW M, NumbersApart(M), FragmentTypeOK, Numbered(M),
           NEW f \in Faces, NEW c \in FragCounts, NEW n,
           Cardinality(packets) < MaxPackets, lastSeqNo' = [lastSeqNo EXCEPT ![f] = @ + c],
           packets' = packets \cup {n}, n.face = f, n.id = lastSeqNo[f]
    PROVE  Numbered(M)' /\ \A k \in packets : k.face = f => k.id # n.id
<1>1. M \in Nat /\ c \in Nat /\ 0 < c /\ c <= M
  <2>1. c \in Nat \ {0, 1} /\ c \in 0 .. M  BY FragmentAssumption DEF NumbersApart
  <2> QED BY <2>1 DEF NumbersApart
<1>2. \A g \in Faces : lastSeqNo[g] \in Nat /\ StartSeq[g] \in Nat
  BY FragmentAssumption, Zenon DEF FragmentTypeOK
<1>3. \A k \in packets : k.face \in Faces /\ k.id \in Nat  BY PacketType
<1>4. IsFiniteSet(packets)  BY DEF Numbered
<1>5. Cardinality(packets) \in Nat /\ MaxPackets \in Nat
  BY <1>4, FS_CardinalityType, FragmentAssumption
<1>6. \A k \in packets : k.face = f => k.id # n.id
  BY <1>2, <1>3 DEF Numbered
<1>7. n \notin packets  BY <1>6
<1>8. IsFiniteSet(packets') /\ Cardinality(packets') = Cardinality(packets) + 1
  BY <1>4, <1>7, FS_AddElement
<1>9. Cardinality(packets') <= MaxPackets  BY <1>5, <1>8
<1>10. /\ Cardinality(packets') * M = Cardinality(packets) * M + M
       /\ Cardinality(packets) * M \in Nat
  BY <1>1, <1>5, <1>8, Multiples
<1>11. /\ lastSeqNo'[f] = lastSeqNo[f] + c
       /\ \A g \in Faces : g # f => lastSeqNo'[g] = lastSeqNo[g]
  BY DEF FragmentTypeOK
<1>12. ASSUME NEW g \in Faces
       PROVE  StartSeq[g] <= lastSeqNo'[g] /\ lastSeqNo[g] <= lastSeqNo'[g]
              /\ lastSeqNo'[g] <= StartSeq[g] + Cardinality(packets') * M
  <2>1. /\ StartSeq[g] <= lastSeqNo[g]
        /\ lastSeqNo[g] <= StartSeq[g] + Cardinality(packets) * M
    BY DEF Numbered
  <2>2. lastSeqNo[g] \in Nat /\ StartSeq[g] \in Nat  BY <1>2
  <2>3. CASE g = f  BY <1>1, <1>10, <1>11, <2>1, <2>2, <2>3
  <2>4. CASE g # f  BY <1>1, <1>10, <1>11, <2>1, <2>2, <2>4
  <2> QED BY <2>3, <2>4
<1>13. ASSUME NEW k \in packets'
       PROVE  StartSeq[k.face] <= k.id /\ k.id < lastSeqNo'[k.face]
  <2>1. CASE k \in packets
    <3>1. k.face \in Faces /\ k.id \in Nat  BY <1>3, <2>1
    <3>2. StartSeq[k.face] <= k.id /\ k.id < lastSeqNo[k.face]  BY <2>1 DEF Numbered
    <3>3. lastSeqNo[k.face] <= lastSeqNo'[k.face]  BY <1>12, <3>1
    <3>4. lastSeqNo'[k.face] \in Nat  BY <1>1, <1>2, <1>11, <3>1
    <3> QED BY <1>2, <3>1, <3>2, <3>3, <3>4
  <2>2. CASE k = n
    <3>1. StartSeq[f] <= lastSeqNo[f]  BY DEF Numbered
    <3> QED BY <1>1, <1>2, <1>11, <2>2, <3>1
  <2> QED BY <2>1, <2>2
<1>14. \A k, l \in packets' : k.face = l.face /\ k.id = l.id => k = l
  BY <1>6 DEF Numbered
<1> QED BY <1>6, <1>8, <1>9, <1>12, <1>13, <1>14, Zenon DEF Numbered

\* A first fragment leaves its worker in the map, a later one is sent there.
LEMMA HomeStep ==
    ASSUME NEW M, NumbersApart(M), FragmentInv(M), NEW m \in packets, NEW n \in Packet,
           packets' = (packets \ {m}) \cup {n}, Advanced(m, n), m.next < m.count, Goes(m, n)
    PROVE  MapLeadsHome' /\ FragmentsGoHome'
<1> USE DEF FragmentInv
<1>1. /\ m.next \in Nat /\ m.count \in Nat /\ m.count > 1 /\ m.lost \in BOOLEAN
      /\ m.home \in Workers /\ m.id \in Nat
  BY PacketType
<1>2. n.id = m.id /\ n.count = m.count /\ n.home = m.home /\ n.next = m.next + 1
  BY DEF Advanced
<1>3. \A k \in packets : k.id = m.id => k = m  BY UniqueIds DEF DistinctIds
<1>4. n.lost \in BOOLEAN /\ (m.lost => n.lost)  BY <1>1 DEF Goes, Packet
<1>5. ASSUME NEW e \in fragmentMap'
      PROVE  \/ e \in fragmentMap
             \/ dissectFirst(m) /\ e.id = m.id /\ e.worker = m.home
  <2>1. CASE lose(m)  BY <2>1 DEF lose
  <2>2. CASE dissectFirst(m)  BY <2>2, <1>5 DEF dissectFirst, Inserted
  <2>3. CASE dissectLater(m)  BY <2>3, <1>5 DEF dissectLater, Erased
  <2> QED BY <2>1, <2>2, <2>3 DEF Goes
<1>6. ASSUME NEW e \in fragmentMap, e.id # m.id
      PROVE  e \in fragmentMap'
  <2>1. CASE lose(m)  BY <2>1 DEF lose
  <2>2. CASE dissectFirst(m)  BY <2>2 DEF dissectFirst, Inserted
  <2>3. CASE dissectLater(m)  BY <1>6, <2>3 DEF dissectLater, Erased
  <2> QED BY <2>1, <2>2, <2>3 DEF Goes
<1>7. ASSUME NEW e \in fragmentMap', NEW k \in packets', e.id = k.id
      PROVE  e.worker = k.home /\ k.next > 0
  <2>1. CASE k = n
    <3>1. n.next > 0  BY <1>1, <1>2
    <3>2. CASE e \in fragmentMap  BY <1>2, <1>7, <2>1, <3>1, <3>2 DEF MapLeadsHome
    <3>3. CASE e.worker = m.home  BY <1>2, <2>1, <3>1, <3>3
    <3> QED BY <1>5, <3>2, <3>3
  <2>2. CASE k \in packets \ {m}
    <3>1. k.id # m.id  BY <1>3, <2>2
    <3>2. e \in fragmentMap  BY <1>5, <1>7, <3>1
    <3> QED BY <1>7, <2>2, <3>2 DEF MapLeadsHome
  <2> QED BY <2>1, <2>2
<1>8. ASSUME NEW k \in packets', ~ k.lost, k.next \in 1 .. k.count - 1
      PROVE  \E e \in fragmentMap' : e.id = k.id
  <2>1. CASE k = n
    <3>1. ~ m.lost  BY <1>1, <1>4, <1>8, <2>1
    <3>2. CASE dissectFirst(m)
      <4>1. fragmentMap' = Inserted(m.id, m.home)  BY <3>2 DEF dissectFirst
      <4>2. \E e \in Inserted(m.id, m.home) : e.id = m.id
        <5>1. [id |-> m.id, worker |-> m.home].id = m.id  OBVIOUS
        <5> QED BY <5>1, Zenon DEF Inserted
      <4> QED BY <1>2, <2>1, <4>1, <4>2
    <3>4. CASE lose(m) /\ n.lost  BY <1>8, <2>1, <3>4
    <3>3. CASE dissectLater(m)
      <4>1. m.next \in 1 .. m.count - 1  BY <3>3, Zenon DEF dissectLater
      <4>2. PICK e \in fragmentMap : e.id = m.id  BY <3>1, <4>1 DEF MapLeadsHome
      <4>3. m.next # m.count - 1  BY <1>1, <1>2, <1>8, <2>1
      <4>4. fragmentMap' = fragmentMap  BY <3>3, <4>3 DEF dissectLater, Erased
      <4> QED BY <1>2, <2>1, <4>2, <4>4
    <3> QED BY <3>2, <3>3, <3>4 DEF Goes
  <2>2. CASE k \in packets \ {m}
    <3>1. PICK e \in fragmentMap : e.id = k.id  BY <1>8, <2>2 DEF MapLeadsHome
    <3>2. k.id # m.id  BY <1>3, <2>2
    <3> QED BY <1>6, <3>1, <3>2
  <2> QED BY <2>1, <2>2
<1>9. ASSUME NEW k \in packets', ~ k.lost
      PROVE  k.went \subseteq {k.home}
  <2>1. CASE k = n
    <3>1. ~ m.lost  BY <1>1, <1>4, <1>9, <2>1
    <3>2. m.went \subseteq {m.home}  BY <3>1 DEF FragmentsGoHome
    <3>3. CASE lose(m) /\ n.lost  BY <1>9, <2>1, <3>3
    <3>4. CASE dissectFirst(m) /\ n.went = {m.home}  BY <1>2, <2>1, <3>4
    <3>5. CASE dissectLater(m) /\ \E w \in Found(m.id) : n.went = m.went \cup w
      <4>1. PICK w \in Found(m.id) : n.went = m.went \cup w  BY <3>5
      <4>2. m.next \in 1 .. m.count - 1  BY <3>5, Zenon DEF dissectLater
      <4>3. \E e \in fragmentMap : e.id = m.id  BY <3>1, <4>2 DEF MapLeadsHome
      <4>4. \A e \in fragmentMap : e.id = m.id => e.worker = m.home  BY DEF MapLeadsHome
      <4>5. w = {m.home}  BY <4>3, <4>4 DEF Found
      <4> QED BY <1>2, <2>1, <3>2, <4>1, <4>5
    <3> QED BY <3>3, <3>4, <3>5 DEF Goes
  <2>2. CASE k \in packets \ {m}  BY <1>9, <2>2 DEF FragmentsGoHome
  <2> QED BY <2>1, <2>2
<1> QED BY <1>7, <1>8, <1>9 DEF MapLeadsHome, FragmentsGoHome

LEMMA FragmentStep ==
    ASSUME NEW M, NumbersApart(M), FragmentInv(M), [FragmentNext]_fragmentVars
    PROVE  FragmentInv(M)'
<1>1. FragmentTypeOK /\ MapForgets /\ Numbered(M) /\ MapLeadsHome /\ FragmentsGoHome
  BY DEF FragmentInv
<1>2. FragmentTypeOK' /\ MapForgets'  BY <1>1, TypeStep
<1>3. CASE UNCHANGED fragmentVars
  <2>1. Numbered(M)'  BY <1>1, <1>3 DEF fragmentVars, Numbered
  <2>2. MapLeadsHome' /\ FragmentsGoHome'  BY <1>1, <1>3 DEF fragmentVars, MapLeadsHome, FragmentsGoHome
  <2> QED BY <1>2, <2>1, <2>2 DEF FragmentInv
<1>4. ASSUME NEW f \in Faces, NEW c \in FragCounts, NEW token \in BOOLEAN, NEW home \in Workers,
             sendNetPacket(f, c, token, home)
      PROVE  FragmentInv(M)'
  <2>1. PICK n \in Packet :
            /\ packets' = packets \cup {n}
            /\ n.face = f /\ n.id = lastSeqNo[f] /\ n.count = c /\ n.home = home
            /\ n.next = 0 /\ ~ n.lost /\ n.went = {}
    BY <1>1, <1>4, SentPacket
  <2>2. /\ Cardinality(packets) < MaxPackets /\ lastSeqNo' = [lastSeqNo EXCEPT ![f] = @ + c]
        /\ fragmentMap' = fragmentMap
    BY <1>4 DEF sendNetPacket
  <2>3. Numbered(M)' /\ \A k \in packets : k.face = f => k.id # n.id
    BY <1>1, <2>1, <2>2, NumberedSend, Zenon
  <2>4. \A k \in packets : k.id # n.id
    <3> SUFFICES ASSUME NEW k \in packets, k.id = n.id PROVE FALSE  OBVIOUS
    <3>1. k \in packets' /\ n \in packets'  BY <2>1
    <3>2. k = n  BY <1>2, <2>3, <3>1, UniqueIdsNext DEF DistinctIds
    <3> QED BY <2>1, <2>3, <3>2
  <2>5. \A e \in fragmentMap : e.id # n.id  BY <1>1, <2>4 DEF MapForgets
  <2>6. MapLeadsHome'
    <3>1. \A e \in fragmentMap', k \in packets' : e.id = k.id => e.worker = k.home /\ k.next > 0
      BY <1>1, <2>1, <2>2, <2>5 DEF MapLeadsHome
    <3>2. \A k \in packets' : ~ k.lost /\ k.next \in 1 .. k.count - 1 =>
            \E e \in fragmentMap' : e.id = k.id
      BY <1>1, <2>1, <2>2 DEF MapLeadsHome
    <3> QED BY <3>1, <3>2 DEF MapLeadsHome
  <2>7. FragmentsGoHome'  BY <1>1, <2>1 DEF FragmentsGoHome
  <2> QED BY <1>2, <2>3, <2>6, <2>7 DEF FragmentInv
<1>5. ASSUME NEW m \in packets, lose(m) \/ dissectFirst(m) \/ dissectLater(m)
      PROVE  FragmentInv(M)'
  <2>1. PICK n \in Packet : /\ packets' = (packets \ {m}) \cup {n}
                            /\ Advanced(m, n) /\ m.next < m.count
                            /\ Goes(m, n)
                            /\ lastSeqNo' = lastSeqNo
    BY <1>1, <1>5, StepOfPacket
  <2>2. Numbered(M)'  BY <1>1, <2>1, NumberedStep
  <2>3. MapLeadsHome' /\ FragmentsGoHome'  BY <2>1, HomeStep
  <2> QED BY <1>2, <2>2, <2>3 DEF FragmentInv
<1> QED BY <1>3, <1>4, <1>5 DEF FragmentNext

\* The fragments of a packet of which none is lost all go to the worker of its PIT
\* token or name, whatever else arrives in between on this or on other faces.  The
\* assumption is needed: g_fragmentMap is keyed by Sequence - FragIndex alone, which
\* tells packets of different faces apart only if their peers' numbers differ.
THEOREM FragmentsGoHomeAlways ==
    ASSUME NEW M, NumbersApart(M)
    PROVE  FragmentSpec => []FragmentsGoHome
<1>1. FragmentInit => FragmentInv(M)
  <2> SUFFICES ASSUME FragmentInit PROVE FragmentInv(M)  OBVIOUS
  <2>1. packets = {} /\ fragmentMap = {} /\ lastSeqNo = StartSeq  BY DEF FragmentInit
  <2>2. FragmentTypeOK /\ MapForgets /\ MapLeadsHome /\ FragmentsGoHome
    BY <2>1, FragmentAssumption DEF FragmentTypeOK, MapForgets, MapLeadsHome, FragmentsGoHome
  <2>3. IsFiniteSet(packets) /\ Cardinality(packets) = 0  BY <2>1, FS_EmptySet
  <2>4. M \in Nat /\ 0 * M = 0  BY DEF NumbersApart
  <2>5. Numbered(M)  BY <2>1, <2>3, <2>4, FragmentAssumption DEF Numbered
  <2> QED BY <2>2, <2>5 DEF FragmentInv
<1>2. FragmentInv(M) /\ [FragmentNext]_fragmentVars => FragmentInv(M)'  BY FragmentStep
<1>3. FragmentInv(M) => FragmentsGoHome  BY DEF FragmentInv
<1> QED BY <1>1, <1>2, <1>3, PTL DEF FragmentSpec
=============================================================================

---------------------------- MODULE FtpStoreProofs ----------------------------
(***************************************************************************)
(* What ReadDir of the FTP store promises, for any number of calls, any    *)
(* names, and a server that answers, fails or stays silent at any stage.   *)
(***************************************************************************)
EXTENDS FtpStore, TLAPS

(* The inductive invariant, for one call.                                   *)

\* A goroutine has ended exactly when its answer is in the channel.
AnswersEnd(c) == \A s \in Stage : answer[c][s] # "none" <=> request[c][s] = "ended"

\* A stage is begun when the stages before it have succeeded, and none before
\* the call is there; without a user in the URL there is no login.
InOrder(c) ==
  /\ pc[c] = "idle" => request[c]["dial"] = "none"
  /\ pc[c] \in {"idle", "dial"} => request[c]["login"] = "none"
  /\ pc[c] \in {"idle", "dial", "login"} => request[c]["list"] = "none"
  /\ request[c]["login"] # "none" => answer[c]["dial"] = "ok" /\ user[c] # "anonymous"
  /\ request[c]["list"] # "none" =>
       answer[c]["dial"] = "ok" /\ (user[c] = "anonymous" \/ answer[c]["login"] = "ok")

\* The connection is the call's from the dial's answer until it returns.
HoldsConn(c) ==
  /\ pc[c] \in {"idle", "dial"} =>
       conn[c] = IF answer[c]["dial"] = "ok" THEN "dialled" ELSE "none"
  /\ pc[c] \in {"login", "list"} => conn[c] = "taken"
  /\ pc[c] = "returned" => conn[c] # "taken" /\ (conn[c] = "dialled" => cancelled[c])
  /\ conn[c] \in {"taken", "quit"} => answer[c]["dial"] = "ok"
  /\ conn[c] = "quit" => pc[c] = "returned"

\* Unless the call was cancelled, the only goroutine is the one it waits for.
WaitsForIt(c) == ~cancelled[c] => \A s \in Stage : Busy(c, s) => pc[c] = s

\* The goroutine of the stage it waits for has been started.
Begun(c) == pc[c] \in Stage => request[c][pc[c]] # "none"

\* No names before the end, and then only those that were earned.
NamesLast(c) ==
  result[c].ok =>
    /\ pc[c] = "returned"
    /\ answer[c]["dial"] = "ok" /\ answer[c]["list"] = "ok"
    /\ user[c] = "anonymous" \/ answer[c]["login"] = "ok"

CallInv(c) ==
  AnswersEnd(c) /\ InOrder(c) /\ HoldsConn(c) /\ WaitsForIt(c) /\ Begun(c) /\ NamesLast(c)

FtpInv == TypeOK /\ \A c \in Call : CallInv(c)

USE FtpStoreAssumption
-----------------------------------------------------------------------------
LEMMA FtpInit == Init => FtpInv
  BY DEF Init, FtpInv, TypeOK, CallInv, AnswersEnd, InOrder, HoldsConn, WaitsForIt, Begun,
         NamesLast, Busy,
         Error, Stage

\* A step leaves the types as they are.
LEMMA FtpTypes ==
  ASSUME TypeOK, [Next]_vars
  PROVE  TypeOK'
  <1>1. ASSUME NEW c \in Call, ReadDir(c) PROVE TypeOK'
    BY <1>1 DEF ReadDir, Await, TypeOK, Stage
  <1>2. ASSUME NEW c \in Call, NEW s \in Stage, Send(c, s) PROVE TypeOK'
    BY <1>2 DEF Send, TypeOK
  <1>3. ASSUME NEW c \in Call, NEW s \in Stage, NEW how \in {"ok", "error"},
  NEW names \in SUBSET Name,
               Answer(c, s, how, names)
        PROVE  TypeOK'
    BY <1>3 DEF Answer, TypeOK
  <1>4. ASSUME NEW c \in Call, NEW r \in [ok : BOOLEAN, names : SUBSET (Name \ DotName)], Return(c,
  r),
               UNCHANGED <<user, cancelled, answer, listed>>
        PROVE  TypeOK'
    BY <1>4 DEF Return, TypeOK
  <1>5. ASSUME NEW c \in Call, Returns(c) PROVE TypeOK'
    <2>1. Error \in [ok : BOOLEAN, names : SUBSET (Name \ DotName)]
      BY DEF Error
    <2>2. Entries(listed[c]) \in [ok : BOOLEAN, names : SUBSET (Name \ DotName)]
      BY DEF Entries, TypeOK
    <2>3. CASE Dialled(c)
      <3>1. CASE NoPassword(c)
        BY <2>3, <3>1 DEF Dialled, NoPassword, TypeOK
      <3>2. CASE Connected(c)
        <4>1. PICK s \in Stage : Await(c, s)
          BY <3>2 DEF Connected, Stage
        <4>2. QED
          BY <2>3, <3>2, <4>1 DEF Dialled, Connected, Await, TypeOK
      <3>3. QED
        BY <2>3, <3>1, <3>2 DEF Dialled
    <2>4. CASE LoggedIn(c)
      BY <2>4 DEF LoggedIn, Await, TypeOK, Stage
    <2>5. CASE Listed(c) \/ Failed(c) \/ GivesUp(c)
      BY <1>4, <2>1, <2>2, <2>5 DEF Listed, Failed, GivesUp
    <2>6. QED
      BY <1>5, <2>3, <2>4, <2>5 DEF Returns
  <1>6. ASSUME NEW c \in Call, Cancel(c) PROVE TypeOK'
    BY <1>6 DEF Cancel, TypeOK
  <1>7. CASE UNCHANGED vars
    BY <1>7 DEF vars, TypeOK
  <1>8. QED
    BY <1>1, <1>2, <1>3, <1>5, <1>6, <1>7 DEF Next, Answers

-----------------------------------------------------------------------------
(* One call's step.  Elsewhere c is the call that steps.                    *)

\* What belongs to call d.
Own(d) == <<pc[d], user[d], cancelled[d], request[d], answer[d], conn[d], result[d]>>

\* A call that does not step keeps its invariant.
LEMMA OthersKeep ==
  ASSUME NEW d \in Call, CallInv(d), UNCHANGED Own(d)
  PROVE  CallInv(d)'
  BY DEF Own, CallInv, AnswersEnd, InOrder, HoldsConn, WaitsForIt, Begun, NamesLast, Busy

\* Only the call that steps changes.
LEMMA StepIsOneCalls ==
  ASSUME TypeOK, NEW c \in Call, NEW d \in Call \ {c},
         \/ ReadDir(c) \/ Cancel(c) \/ Returns(c)
         \/ \E s \in Stage : Send(c, s) \/ Answers(c, s)
  PROVE  UNCHANGED Own(d)
  <1>1. CASE ReadDir(c) \/ Cancel(c)
    BY <1>1 DEF ReadDir, Cancel, Await, Own, TypeOK
  <1>2. CASE Returns(c)
    BY <1>2 DEF Returns, Dialled, NoPassword, Connected, LoggedIn, Listed, Failed, GivesUp, Await,
                Return, Own, TypeOK
  <1>3. CASE \E s \in Stage : Send(c, s) \/ Answers(c, s)
    BY <1>3 DEF Send, Answers, Answer, Own, TypeOK
  <1>4. QED
    BY <1>1, <1>2, <1>3

\* The call that steps keeps its own.
LEMMA OwnStep ==
  ASSUME TypeOK, NEW c \in Call, CallInv(c),
         \/ ReadDir(c) \/ Cancel(c) \/ Returns(c)
         \/ \E s \in Stage : Send(c, s) \/ Answers(c, s)
  PROVE  CallInv(c)'
  <1> USE DEF CallInv
  <1>0. /\ c \in DOMAIN pc /\ c \in DOMAIN cancelled /\ c \in DOMAIN request /\ c \in DOMAIN answer
        /\ c \in DOMAIN conn /\ c \in DOMAIN result
        /\ DOMAIN request[c] = Stage /\ DOMAIN answer[c] = Stage
    BY DEF TypeOK
  <1>1. CASE ReadDir(c)
    BY <1>0, <1>1 DEF ReadDir, Await, AnswersEnd, InOrder, HoldsConn, WaitsForIt, Begun, NamesLast,
                      Busy, Stage
  <1>2. CASE Cancel(c)
    BY <1>0, <1>2 DEF Cancel, AnswersEnd, InOrder, HoldsConn, WaitsForIt, Begun, NamesLast, Busy,
                      Stage
  <1>3. ASSUME NEW s \in Stage, Send(c, s) PROVE CallInv(c)'
    BY <1>0, <1>3 DEF Send, AnswersEnd, InOrder, HoldsConn, WaitsForIt, Begun, NamesLast, Busy,
                      Stage
  <1>4. ASSUME NEW s \in Stage, NEW how \in {"ok", "error"}, NEW names, Answer(c, s, how, names)
        PROVE  CallInv(c)'
    <2>1. /\ request[c][s] = "sent" /\ answer[c][s] = "none"
          /\ request'[c] = [request[c] EXCEPT ![s] = "ended"]
          /\ answer'[c] = [answer[c] EXCEPT ![s] = how]
          /\ conn'[c] = IF s = "dial" /\ how = "ok" THEN "dialled" ELSE conn[c]
          /\ UNCHANGED <<pc, user, cancelled, result>>
      BY <1>0, <1>4 DEF Answer, Room
    <2>2. AnswersEnd(c)' /\ InOrder(c)' /\ WaitsForIt(c)' /\ Begun(c)' /\ NamesLast(c)'
      BY <1>0, <2>1 DEF AnswersEnd, InOrder, WaitsForIt, Begun, NamesLast, Busy, Stage
    <2>3. HoldsConn(c)'
      BY <1>0, <2>1 DEF HoldsConn, InOrder, WaitsForIt, Busy, Stage, TypeOK
    <2>4. QED
      BY <2>2, <2>3
  <1>5. ASSUME NEW r, Return(c, r), UNCHANGED <<user, cancelled, answer, listed>>,
               pc[c] \in Stage,
               cancelled[c] \/ answer[c][pc[c]] # "none",
               pc[c] = "dial" => cancelled[c] \/ answer[c]["dial"] # "ok",
               r.ok => pc[c] = "list" /\ answer[c]["list"] = "ok"
        PROVE  CallInv(c)'
    <2>1. /\ pc'[c] = "returned" /\ result'[c] = r
          /\ conn'[c] = IF conn[c] = "taken" THEN "quit" ELSE conn[c]
          /\ request' = request
      BY <1>0, <1>5 DEF Return
    <2>2. AnswersEnd(c)' /\ InOrder(c)' /\ WaitsForIt(c)' /\ Begun(c)'
      BY <1>0, <1>5, <2>1 DEF AnswersEnd, InOrder, WaitsForIt, Begun, Busy, Stage
    <2>3. HoldsConn(c)'
      BY <1>0, <1>5, <2>1 DEF HoldsConn, Stage
    <2>4. NamesLast(c)'
      BY <1>0, <1>5, <2>1 DEF NamesLast, InOrder, AnswersEnd, Stage
    <2>5. QED
      BY <2>2, <2>3, <2>4
  <1>6. CASE Returns(c)
    <2>1. CASE Dialled(c)
      <3>1. CASE NoPassword(c)
        BY <1>0, <2>1, <3>1 DEF Dialled, NoPassword, AnswersEnd, InOrder, HoldsConn, WaitsForIt,
                                Begun,
                                NamesLast, Busy, Stage
      <3>2. CASE Connected(c) /\ user[c] # "passwordless"
        BY <1>0, <2>1, <3>2 DEF Dialled, Connected, Await, AnswersEnd, InOrder, HoldsConn,
                                WaitsForIt, Begun,
                                NamesLast, Busy, Stage
      <3>3. QED
        BY <2>1, <3>1, <3>2 DEF Dialled
    <2>2. CASE LoggedIn(c)
      BY <1>0, <2>2 DEF LoggedIn, Await, AnswersEnd, InOrder, HoldsConn, WaitsForIt, Begun,
                        NamesLast, Busy,
                        Stage
    <2>3. CASE Listed(c)
      BY <1>5, <2>3 DEF Listed, Entries, Stage
    <2>4. CASE Failed(c)
      BY <1>5, <2>4 DEF Failed, Error
    <2>5. CASE GivesUp(c)
      BY <1>5, <2>5 DEF GivesUp, Error
    <2>6. QED
      BY <1>6, <2>1, <2>2, <2>3, <2>4, <2>5 DEF Returns
  <1>7. QED
    BY <1>1, <1>2, <1>3, <1>4, <1>6 DEF Answers

LEMMA FtpStep == FtpInv /\ [Next]_vars => FtpInv'
  <1> SUFFICES ASSUME FtpInv, [Next]_vars PROVE FtpInv'
    OBVIOUS
  <1> USE DEF FtpInv
  <1>1. TypeOK'
    BY FtpTypes
  <1>2. ASSUME NEW d \in Call PROVE CallInv(d)'
    <2>1. CASE UNCHANGED vars
      BY <2>1, OthersKeep DEF vars, Own
    <2>2. CASE Next
      <3>1. PICK c \in Call : \/ ReadDir(c) \/ Cancel(c) \/ Returns(c)
                              \/ \E s \in Stage : Send(c, s) \/ Answers(c, s)
        BY <2>2, Zenon DEF Next
      <3>2. CASE d = c
        BY <3>1, <3>2, OwnStep
      <3>3. CASE d # c
        BY <3>1, <3>3, StepIsOneCalls, OthersKeep
      <3>4. QED
        BY <3>2, <3>3
    <2>3. QED
      BY <2>1, <2>2
  <1>3. QED
    BY <1>1, <1>2

THEOREM FtpInvariant == Spec => []FtpInv
  BY FtpInit, FtpStep, PTL DEF Spec

-----------------------------------------------------------------------------
\* The names of the directory itself and of its parent are never returned.
THEOREM FtpTypesHold == Spec => []TypeOK
  <1>1. FtpInv => TypeOK
    BY DEF FtpInv
  <1>2. QED
    BY <1>1, FtpInvariant, PTL

\* No way out of ReadDir leaves a connection open, but for a cancelled dial.
THEOREM FtpNoneLeftOpen == Spec => []NoneLeftOpen
  <1>1. FtpInv => NoneLeftOpen
    BY DEF FtpInv, TypeOK, CallInv, HoldsConn, NoneLeftOpen
  <1>2. QED
    BY <1>1, FtpInvariant, PTL

\* Of one call's goroutines at most one has not answered, cancelled or not, and
\* none uses a connection that was quit unless its call was cancelled.
THEOREM FtpOneRequest == Spec => []OneRequestAtATime
  <1>1. FtpInv => OneRequestAtATime
    <2> SUFFICES ASSUME FtpInv, NEW c \in Call, NEW s \in Stage, Busy(c, s)
                 PROVE  /\ \A r \in Stage \ {s} : ~Busy(c, r)
                        /\ conn[c] = "quit" => cancelled[c]
      BY DEF OneRequestAtATime
    <2> USE DEF FtpInv, CallInv
    <2>1. \A r \in Stage : Busy(c, r) => answer[c][r] = "none" /\ request[c][r] # "none"
      BY DEF AnswersEnd, Busy, TypeOK
    <2>2. \A r \in Stage \ {s} : ~Busy(c, r)
      BY <2>1 DEF InOrder, Stage
    <2>3. conn[c] = "quit" => cancelled[c]
      BY DEF HoldsConn, WaitsForIt, Stage
    <2>4. QED
      BY <2>2, <2>3
  <1>2. QED
    BY <1>1, FtpInvariant, PTL

\* Names are only returned when dial, login and listing have all succeeded.
THEOREM FtpNamesAreEarned == Spec => []NamesAreEarned
  <1>1. FtpInv => NamesAreEarned
    BY DEF FtpInv, CallInv, NamesLast, NamesAreEarned, Stage
  <1>2. QED
    BY <1>1, FtpInvariant, PTL

-----------------------------------------------------------------------------
(* What there is to wait for.  A call in a stage has its answer at hand, or *)
(* the goroutine of the stage is under way; and a goroutine under way finds *)
(* room for its answer, also after its call has given it up.                *)
NobodyWaitsInVain ==
  \A c \in Call :
    /\ pc[c] \in Stage => Busy(c, pc[c]) \/ answer[c][pc[c]] \in {"ok", "error"}
    /\ \A s \in Stage : Busy(c, s) => Room(c, s)

\* No call waits for an answer that cannot come, and no goroutine for a
\* channel that nobody empties: the safety that RequestsEnd and
\* ReadDirReturns rest on.
THEOREM FtpNobodyWaitsInVain == Spec => []NobodyWaitsInVain
  <1>1. FtpInv => NobodyWaitsInVain
    BY DEF FtpInv, TypeOK, CallInv, AnswersEnd, Begun, NobodyWaitsInVain, Busy, Room
  <1>2. QED
    BY <1>1, FtpInvariant, PTL
=============================================================================

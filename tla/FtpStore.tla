------------------------------- MODULE FtpStore -------------------------------
(***************************************************************************)
(* ReadDir of the FTP store (pkg/files/ftpfile/store.go).  A call dials a  *)
(* connection of its own, logs in when the URL names a user, lists the     *)
(* directory and quits.  Each request to the server is made by a goroutine *)
(* that leaves the answer in a channel of capacity one; the call waits for *)
(* the answer or for the end of its context, and returns at the first      *)
(* failure.  Nothing waits for a goroutine that was given up.              *)
(*                                                                         *)
(* The server answers each request with success or failure, in its own     *)
(* time.  Of a listing we keep its set of names.                           *)
(***************************************************************************)
EXTENDS Naturals, FiniteSets

CONSTANTS
  Call,     \* calls of ReadDir
  Name,     \* the names a server may list
  DotName   \* those for the directory itself and its parent

ASSUME FtpStoreAssumption == DotName \subseteq Name

VARIABLES
  pc,        \* where the call is
  user,      \* what its URL says of the user
  cancelled, \* has its context ended?
  request,   \* [stage -> where the goroutine of this stage is]
  answer,    \* [stage -> what is in the channel of this stage]
  conn,      \* the connection that was dialled for the call
  listed,    \* what the server has listed
  result     \* what the call returns: names, or an error

vars == <<pc, user, cancelled, request, answer, conn, listed, result>>

Stage == {"dial", "login", "list"}
Error == [ok |-> FALSE, names |-> {}]
AllEntries(names) == [ok |-> TRUE, names |-> names]  \* mutant of Entries: "." and ".." are not left out
Entries(names) == [ok |-> TRUE, names |-> names \ DotName]
User == {"anonymous", "passwordless", "password"}

Init ==
  /\ pc = [c \in Call |-> "idle"]
  /\ user \in [Call -> User]
  /\ cancelled = [c \in Call |-> FALSE]
  /\ request = [c \in Call |-> [s \in Stage |-> "none"]]
  /\ answer = [c \in Call |-> [s \in Stage |-> "none"]]
  /\ conn = [c \in Call |-> "none"]
  /\ listed = [c \in Call |-> {}]
  /\ result = [c \in Call |-> Error]

-----------------------------------------------------------------------------
\* The call goes on to stage s: it starts the goroutine and waits.
Await(c, s) ==
  /\ pc' = [pc EXCEPT ![c] = s]
  /\ request' = [request EXCEPT ![c][s] = "spawned"]

\* The call returns r; the deferred Quit closes the connection it has.
Return(c, r) ==
  /\ pc' = [pc EXCEPT ![c] = "returned"]
  /\ result' = [result EXCEPT ![c] = r]
  /\ conn' = [conn EXCEPT ![c] = IF @ = "taken" THEN "quit" ELSE @]
  /\ UNCHANGED request

ReadDir(c) ==
  /\ pc[c] = "idle"
  /\ Await(c, "dial")
  /\ UNCHANGED <<user, cancelled, answer, conn, listed, result>>

\* The goroutine of a stage gets to run and sends its request.
Send(c, s) ==
  /\ request[c][s] = "spawned"
  /\ request' = [request EXCEPT ![c][s] = "sent"]
  /\ UNCHANGED <<pc, user, cancelled, answer, conn, listed, result>>

RoomAfterTaking(c, s) == pc[c] = s  \* mutant of Room: the channel has no capacity

\* Can the goroutine of stage s leave its answer and end?  Its channel holds
\* one, and it sends one.
Room(c, s) == answer[c][s] = "none"

AnswerUnlessError(c, s, how, names) ==  \* mutant of Answer: the goroutine does not send an error
  /\ request[c][s] = "sent"
  /\ request' = [request EXCEPT ![c][s] = "ended"]
  /\ answer' = [answer EXCEPT ![c][s] = IF how = "ok" THEN how ELSE @]
  /\ conn' = [conn EXCEPT ![c] = IF s = "dial" /\ how = "ok" THEN "dialled" ELSE @]
  /\ listed' = [listed EXCEPT ![c] = IF s = "list" /\ how = "ok" THEN names ELSE @]
  /\ UNCHANGED <<pc, user, cancelled, result>>

\* The server answers and the goroutine leaves the answer in its channel.
Answer(c, s, how, names) ==
  /\ request[c][s] = "sent"
  /\ Room(c, s)
  /\ request' = [request EXCEPT ![c][s] = "ended"]
  /\ answer' = [answer EXCEPT ![c][s] = how]
  /\ conn' = [conn EXCEPT ![c] = IF s = "dial" /\ how = "ok" THEN "dialled" ELSE @]
  /\ listed' = [listed EXCEPT ![c] = IF s = "list" /\ how = "ok" THEN names ELSE @]
  /\ UNCHANGED <<pc, user, cancelled, result>>

ConnectedQuits(c) ==  \* mutant of Connected: Quit is called, not deferred
  /\ conn' = [conn EXCEPT ![c] = "quit"]
  /\ Await(c, IF user[c] = "anonymous" THEN "list" ELSE "login")
  /\ UNCHANGED result

\* The call is given the connection.  Quit is deferred from here on: also a
\* URL with a user and no password ends with it.
Connected(c) ==
  /\ conn' = [conn EXCEPT ![c] = "taken"]
  /\ Await(c, IF user[c] = "anonymous" THEN "list" ELSE "login")
  /\ UNCHANGED result

LeaveOpen(c) ==  \* mutant of NoPassword: the check comes before the deferred Quit
  /\ pc' = [pc EXCEPT ![c] = "returned"]
  /\ conn' = [conn EXCEPT ![c] = "taken"]
  /\ UNCHANGED <<request, result>>

NoPassword(c) ==
  /\ pc' = [pc EXCEPT ![c] = "returned"]
  /\ conn' = [conn EXCEPT ![c] = "quit"]
  /\ UNCHANGED <<request, result>>

Dialled(c) ==
  /\ pc[c] = "dial" /\ answer[c]["dial"] = "ok"
  /\ IF user[c] = "passwordless" THEN NoPassword(c) ELSE Connected(c)
  /\ UNCHANGED <<user, cancelled, answer, listed>>

AnyLogin(c) ==  \* mutant of LoggedIn: the error of Login is not looked at
  /\ pc[c] = "login" /\ answer[c]["login"] # "none"
  /\ Await(c, "list")
  /\ UNCHANGED <<user, cancelled, answer, conn, listed, result>>

LoggedIn(c) ==
  /\ pc[c] = "login" /\ answer[c]["login"] = "ok"
  /\ Await(c, "list")
  /\ UNCHANGED <<user, cancelled, answer, conn, listed, result>>

\* The directory itself and its parent are left out.
Listed(c) ==
  /\ pc[c] = "list" /\ answer[c]["list"] = "ok"
  /\ Return(c, Entries(listed[c]))
  /\ UNCHANGED <<user, cancelled, answer, listed>>

Failed(c) ==
  /\ pc[c] \in Stage /\ answer[c][pc[c]] = "error"
  /\ Return(c, Error)
  /\ UNCHANGED <<user, cancelled, answer, listed>>

\* The select may take the end of the context also when the answer is there.
GivesUp(c) ==
  /\ pc[c] \in Stage /\ cancelled[c]
  /\ Return(c, Error)
  /\ UNCHANGED <<user, cancelled, answer, listed>>

Cancel(c) ==
  /\ pc[c] # "returned" /\ ~cancelled[c]
  /\ cancelled' = [cancelled EXCEPT ![c] = TRUE]
  /\ UNCHANGED <<pc, user, request, answer, conn, listed, result>>

-----------------------------------------------------------------------------
Returns(c) == Dialled(c) \/ LoggedIn(c) \/ Listed(c) \/ Failed(c) \/ GivesUp(c)
Answers(c, s) == \E how \in {"ok", "error"}, names \in SUBSET Name : Answer(c, s, how, names)

Next ==
  \E c \in Call :
    \/ ReadDir(c)
    \/ Cancel(c)
    \/ Returns(c)
    \/ \E s \in Stage : Send(c, s) \/ Answers(c, s)

Spec == Init /\ [][Next]_vars

\* Goroutines get to run, and a server that accepts connections answers: the
\* library's dial has a time limit, the model assumes that a login and a
\* listing end too.  Nobody needs to cancel.
SpecLive ==
  /\ Spec
  /\ \A c \in Call :
       /\ WF_vars(Returns(c))
       /\ \A s \in Stage : WF_vars(Send(c, s)) /\ WF_vars(Answers(c, s))

-----------------------------------------------------------------------------
TypeOK ==
  /\ pc \in [Call -> Stage \cup {"idle", "returned"}]
  /\ user \in [Call -> User]
  /\ cancelled \in [Call -> BOOLEAN]
  /\ request \in [Call -> [Stage -> {"none", "spawned", "sent", "ended"}]]
  /\ answer \in [Call -> [Stage -> {"none", "ok", "error"}]]
  /\ conn \in [Call -> {"none", "dialled", "taken", "quit"}]
  /\ listed \in [Call -> SUBSET Name]
  /\ result \in [Call -> [ok : BOOLEAN, names : SUBSET (Name \ DotName)]]

(* A call that returns leaves no connection open, whichever way it ends:   *)
(* only one that was cancelled while it dialled may have a connection that *)
(* nobody closes.                                                          *)
NoneLeftOpen ==
  \A c \in Call :
    pc[c] = "returned" /\ conn[c] # "none" =>
      conn[c] = "quit" \/ (conn[c] = "dialled" /\ cancelled[c])

Busy(c, s) == request[c][s] \in {"spawned", "sent"}

(* A connection serves one request at a time, also when its call has given *)
(* a request up; and only a call that was cancelled quits under a goroutine *)
(* that still uses the connection.                                         *)
OneRequestAtATime ==
  \A c \in Call, s \in Stage : Busy(c, s) =>
    /\ \A r \in Stage \ {s} : ~Busy(c, r)
    /\ conn[c] = "quit" => cancelled[c]

(* Names are returned only after every request that the URL calls for has  *)
(* succeeded, in particular the login.                                     *)
NamesAreEarned ==
  \A c \in Call : result[c].ok =>
    \A s \in Stage \ (IF user[c] = "anonymous" THEN {"login"} ELSE {}) : answer[c][s] = "ok"

(* No goroutine is left behind, also when its call has given it up.        *)
RequestsEnd ==
  \A c \in Call, s \in Stage : request[c][s] = "spawned" ~> request[c][s] = "ended"

(* Every call returns.                                                     *)
ReadDirReturns == \A c \in Call : pc[c] = "dial" ~> pc[c] = "returned"
=============================================================================

------------------------------ MODULE HttpConn ------------------------------
(***************************************************************************)
(* The HTTP side of the gate server: CServer accepts connections, each is  *)
(* a HttpConnection that reads one request, handles it on its io thread,   *)
(* writes one response, and has a deadline timer.                          *)
(*                                                                         *)
(* A handler runs to its end on its io thread, and the other connections   *)
(* of the thread wait, their timers as well.  A request for a code takes a *)
(* stub of the pool and blocks in a remote call.  The timer of a           *)
(* connection starts to count when the object is made, that is, when       *)
(* accepting begins, and somebody waits for it only from CheckDeadline on. *)
(*                                                                         *)
(* The singletons are destroyed in the reverse order of their making: the  *)
(* clients of the other servers, made at the first request that wants      *)
(* them, before LogicSystem, and LogicSystem before the pool of io threads *)
(* that was made first.  So handlers still run while what they use goes.   *)
(***************************************************************************)
EXTENDS Url

CONSTANTS Conn, Nil,
          Thread,        \* the io threads of the pool
          IoThread,      \* the thread GetIOService gave to a connection
          Stubs,         \* poolSize_ of each pool of stubs
          Asks,          \* what each client may ask for
          Misread,       \* connections whose client may stop half way
          Sent           \* the parameters that GET requests carry: sequences of
                         \* pairs of a key and a value

(* A request is a call of one of the servers, each with a pool of stubs,   *)
(* anything else answered, a handler that throws, or another method.       *)
Pool == {"verify", "status"}
HttpKind == Pool \cup {"plain", "throws", "method"}

Parameters ==
  /\ Asks \in [Conn -> SUBSET HttpKind]
  /\ Nil \notin Conn /\ Misread \subseteq Conn
  /\ IoThread \in [Conn -> Thread]
  /\ Stubs \in Nat \ {0}
  /\ \A s \in Sent : \A i \in DOMAIN s : Len(s[i]) = 2

ASSUME ParametersAssumption == Parameters

VARIABLES
  accepting,   \* the connection the acceptor waits with
  place,       \* where each connection is
  kind,        \* what its request is
  sent,        \* history: the parameters its client meant
  params,      \* _get_url and _get_params
  open,        \* its socket is open
  due,         \* 60 seconds have passed since it was made
  timer,       \* deadline_: nobody waits, armed, over (expired or cancelled)
  busy,        \* the connection whose handler each io thread runs
  stubs,       \* stubs in each pool
  closed,      \* the pools that have been closed and destroyed
  stop         \* "no", "signalled" (main has returned), "joining", "ended",
               \* "crashed"

request == <<kind, sent, params>>
httpVars == <<accepting, place, request, open, due, timer, busy, stubs, closed, stop>>

HttpInit == /\ \E c \in Conn : /\ accepting = c
                               /\ place = [d \in Conn |-> IF d = c THEN "accepting" ELSE "none"]
            /\ kind = [c \in Conn |-> "none"]
            /\ sent = [c \in Conn |-> Nil] /\ params = [c \in Conn |-> Nil]
            /\ open = [c \in Conn |-> FALSE]
            /\ due = [c \in Conn |-> FALSE]
            /\ timer = [c \in Conn |-> "none"]
            /\ busy = [t \in Thread |-> Nil]
            /\ stubs = [p \in Pool |-> Stubs]
            /\ closed = {} /\ stop = "no"

Free(c) == busy[IoThread[c]] = Nil
Occupy(c) == busy' = [busy EXCEPT ![IoThread[c]] = c]
Release(c) == busy' = [busy EXCEPT ![IoThread[c]] = Nil]

-----------------------------------------------------------------------------
(* CServer::Start: a new connection object, and the acceptor waits with it *)
(* (the last connection of the instance has no successor).                 *)
StartAfter(c, p) ==
  \/ \E d \in Conn :
       /\ place[d] = "none"
       /\ accepting' = d
       /\ place' = [place EXCEPT ![c] = p, ![d] = "accepting"]
  \/ /\ \A d \in Conn : place[d] # "none"
     /\ accepting' = Nil
     /\ place' = [place EXCEPT ![c] = p]

Accept(c) ==
  /\ accepting = c
  /\ open' = [open EXCEPT ![c] = TRUE]
  /\ StartAfter(c, "reading")
  /\ UNCHANGED <<request, due, timer, busy, stubs, closed, stop>>

(* Mutant: an error ends the accepting.                                    *)
AcceptError_Returns(c) ==
  /\ accepting = c
  /\ accepting' = Nil
  /\ place' = [place EXCEPT ![c] = "closed"]
  /\ UNCHANGED <<request, open, due, timer, busy, stubs, closed, stop>>

AcceptError(c) ==
  /\ accepting = c
  /\ StartAfter(c, "closed")
  /\ UNCHANGED <<request, open, due, timer, busy, stubs, closed, stop>>

-----------------------------------------------------------------------------
(* HttpConnection.  The connection ends when no operation refers to it.    *)

ReadError(c) ==
  /\ place[c] = "reading" /\ Free(c)
  /\ place' = [place EXCEPT ![c] = "closed"]
  /\ open' = [open EXCEPT ![c] = FALSE]
  /\ UNCHANGED <<accepting, request, due, timer, busy, stubs, closed, stop>>

(* What the gate makes of the target with these parameters.                *)
Parsed == [s \in Sent |-> PreParseGetParam(<<Slash, Question>> \o Query(s))]

(* A whole request has come; HandleReq begins on the connection's thread.  *)
ReadRequest(c, k) ==
  /\ place[c] = "reading" /\ Free(c)
  /\ kind' = [kind EXCEPT ![c] = k]
  /\ IF k = "plain"
       THEN \E s \in Sent :
              /\ sent' = [sent EXCEPT ![c] = s]
              /\ params' = [params EXCEPT ![c] = Parsed[s]]
       ELSE UNCHANGED <<sent, params>>
  /\ place' = [place EXCEPT ![c] = IF k \in Pool THEN "stub" ELSE "handle"]
  /\ Occupy(c)
  /\ UNCHANGED <<accepting, open, due, timer, stubs, closed, stop>>

(* getConnection of the pool: waits until a stub is there or the pool is   *)
(* closed.                                                                 *)
GetStub(c) ==
  /\ place[c] = "stub" /\ kind[c] \notin closed /\ stubs[kind[c]] > 0
  /\ stubs' = [stubs EXCEPT ![kind[c]] = @ - 1]
  /\ place' = [place EXCEPT ![c] = "rpc"]
  /\ UNCHANGED <<accepting, request, open, due, timer, busy, closed, stop>>

(* Mutant: the stub is returned only if the call succeeds.                 *)
ReturnStub_OnlyOk(c) ==
  /\ place[c] = "rpc"
  /\ \E n \in {0, 1} : stubs' = [stubs EXCEPT ![kind[c]] = @ + n]
  /\ place' = [place EXCEPT ![c] = "handle"]
  /\ UNCHANGED <<accepting, request, open, due, timer, busy, closed, stop>>

(* The call ends, with success or not, and the stub goes back to the pool, *)
(* unless that is closed.                                                  *)
ReturnStub(c) ==
  /\ place[c] = "rpc"
  /\ stubs' = [stubs EXCEPT ![kind[c]] = IF kind[c] \in closed THEN @ ELSE @ + 1]
  /\ place' = [place EXCEPT ![c] = "handle"]
  /\ UNCHANGED <<accepting, request, open, due, timer, busy, closed, stop>>

(* A handler throws: the exception is caught, nothing is pending.          *)
Throw(c) ==
  /\ place[c] = "handle" /\ kind[c] = "throws"
  /\ place' = [place EXCEPT ![c] = "closed"]
  /\ open' = [open EXCEPT ![c] = FALSE]
  /\ Release(c)
  /\ UNCHANGED <<accepting, request, due, timer, stubs, closed, stop>>

(* HandleReq starts to write the response (none for another method), then  *)
(* CheckDeadline waits for the timer, which may have expired long ago.     *)
FinishReq(c) ==
  /\ place[c] = "handle" /\ kind[c] # "throws"
  /\ place' = [place EXCEPT ![c] = IF kind[c] = "method" THEN "wait" ELSE "write"]
  /\ timer' = [timer EXCEPT ![c] = "armed"]
  /\ Release(c)
  /\ UNCHANGED <<accepting, request, open, due, stubs, closed, stop>>

(* The write has ended, or fails: shutdown and cancel of the timer.  A     *)
(* timer whose handler is already due to run still runs.                   *)
WriteResponse(c) ==
  /\ place[c] = "write" /\ Free(c)
  /\ place' = [place EXCEPT ![c] = "closed"]
  /\ timer' = [timer EXCEPT ![c] = "over"]
  /\ open' = [open EXCEPT ![c] = FALSE]
  /\ UNCHANGED <<accepting, request, due, busy, stubs, closed, stop>>

SixtySeconds(c) ==
  /\ place[c] \notin {"none", "closed"} /\ ~due[c]
  /\ due' = [due EXCEPT ![c] = TRUE]
  /\ UNCHANGED <<accepting, place, request, open, timer, busy, stubs, closed, stop>>

(* The timer expires: the socket is closed, which ends a pending write.    *)
CheckDeadline(c) ==
  /\ timer[c] = "armed" /\ due[c] /\ Free(c)
  /\ timer' = [timer EXCEPT ![c] = "over"]
  /\ open' = [open EXCEPT ![c] = FALSE]
  /\ place' = IF place[c] = "wait" THEN [place EXCEPT ![c] = "closed"] ELSE place
  /\ UNCHANGED <<accepting, request, due, busy, stubs, closed, stop>>

-----------------------------------------------------------------------------
(* A signal stops the acceptor's loop and main returns.                    *)
Signal ==
  /\ stop = "no"
  /\ stop' = "signalled"
  /\ accepting' = Nil
  /\ place' = [c \in Conn |-> IF c = accepting THEN "closed" ELSE place[c]]
  /\ UNCHANGED <<request, open, due, timer, busy, stubs, closed>>

(* The client that a request has made is destroyed, and its pool closes.   *)
Made(p) == \E c \in Conn : kind[c] = p

Close(p) ==
  /\ stop = "signalled" /\ Made(p) /\ p \notin closed
  /\ closed' = closed \cup {p}
  /\ stubs' = [stubs EXCEPT ![p] = 0]
  /\ UNCHANGED <<accepting, place, request, open, due, timer, busy, stop>>

(* LogicSystem is destroyed behind them; the pool of io threads is next.   *)
DestroyLogic ==
  /\ stop = "signalled" /\ \A p \in Pool : Made(p) => p \in closed
  /\ stop' = "joining"
  /\ UNCHANGED <<accepting, place, request, open, due, timer, busy, stubs, closed>>

(* The io threads end when nothing is pending, and are joined.             *)
Join ==
  /\ stop = "joining"
  /\ \A c \in Conn : place[c] \in {"none", "closed"}
  /\ stop' = "ended"
  /\ UNCHANGED <<accepting, place, request, open, due, timer, busy, stubs, closed>>

(* The process is gone, and every connection with it.                      *)
Crash ==
  /\ stop' = "crashed" /\ closed' = Pool /\ accepting' = Nil
  /\ place' = [c \in Conn |-> "closed"]
  /\ open' = [c \in Conn |-> FALSE]
  /\ timer' = [c \in Conn |-> "over"]
  /\ busy' = [t \in Thread |-> Nil]
  /\ UNCHANGED <<request, due, stubs>>

(* Mutant: a thread that waits for a stub is not woken by Close.           *)
NullStub_NotWoken(c) ==
  place[c] = "stub" /\ kind[c] \in closed /\ stubs[kind[c]] > 0 /\ Crash

(* getConnection of a closed pool returns no stub, and the call is made    *)
(* through the null pointer.                                               *)
NullStub(c) == place[c] = "stub" /\ kind[c] \in closed /\ Crash

(* A handler that uses a client, a manager or LogicSystem after its        *)
(* destructor is undefined: it may go well (the other steps) or not.       *)
UseDestroyed(c) ==
  /\ \/ place[c] = "rpc" /\ kind[c] \in closed
     \/ place[c] = "handle" /\ kind[c] # "method" /\ stop \in {"signalled", "joining"}
  /\ Crash

-----------------------------------------------------------------------------
Handler(c) == \/ GetStub(c) \/ ReturnStub(c) \/ Throw(c) \/ FinishReq(c)
              \/ CheckDeadline(c) \/ NullStub(c)
              \/ ~open[c] /\ WriteResponse(c)

Network(c) == \/ Accept(c) \/ AcceptError(c) \/ ReadError(c) \/ WriteResponse(c)
              \/ \E k \in Asks[c] : ReadRequest(c, k)

Shutdown == DestroyLogic \/ Join \/ \E p \in Pool : Close(p)

HttpNext == \/ \E c \in Conn : Handler(c) \/ Network(c) \/ SixtySeconds(c)
            \/ \E c \in Conn : UseDestroyed(c)
            \/ Signal \/ Shutdown

(* Threads run, main's among them, remote calls end, time passes, and      *)
(* clients not in Misread send their request, whose handler the thread     *)
(* runs when it is free again and again; nobody has to connect or to read  *)
(* a response.                                                             *)
HttpSpec ==
  /\ HttpInit /\ [][HttpNext]_httpVars
  /\ \A c \in Conn : WF_httpVars(Handler(c)) /\ WF_httpVars(SixtySeconds(c))
  /\ \A c \in Conn \ Misread : SF_httpVars(\E k \in Asks[c] : ReadRequest(c, k))
  /\ WF_httpVars(Shutdown)

-----------------------------------------------------------------------------
(* The types; a thread runs one handler, and only of its connections.      *)
HttpTypeOK ==
  /\ accepting \in Conn \cup {Nil}
  /\ place \in [Conn -> {"none", "accepting", "reading", "stub", "rpc", "handle",
                         "write", "wait", "closed"}]
  /\ kind \in [Conn -> HttpKind \cup {"none"}]
  /\ open \in [Conn -> BOOLEAN] /\ due \in [Conn -> BOOLEAN]
  /\ timer \in [Conn -> {"none", "armed", "over"}]
  /\ busy \in [Thread -> Conn \cup {Nil}]
  /\ \A c \in Conn : place[c] \in {"stub", "rpc", "handle"} <=> busy[IoThread[c]] = c
  /\ stubs \in [Pool -> 0..Stubs]
  /\ closed \subseteq Pool
  /\ stop \in {"no", "signalled", "joining", "ended", "crashed"}

(* The types; and until the signal, and whatever happens to connections,   *)
(* one accept is pending: errors do not stop the gate from listening.      *)
KeepsListening ==
  /\ HttpTypeOK
  /\ stop = "no" /\ (\E c \in Conn : place[c] = "none") =>
       accepting # Nil /\ {c \in Conn : place[c] = "accepting"} = {accepting}

(* A request that has been read ends with a closed connection, even if the *)
(* client does not read the response, its method is not handled, a remote  *)
(* call fails, or more threads want a stub than there are.                 *)
ReadRequestEnds ==
  \A c \in Conn : kind[c] # "none" ~> place[c] = "closed"

(* The handler of a GET request finds the parameters that the client has   *)
(* encoded, whatever bytes they are made of, and the path before them.     *)
ParamsAsSent ==
  \A c \in Conn :
    sent[c] # Nil =>
      params[c] = [url |-> <<Slash>>, params |-> Meant(sent[c])]

(* After a signal the process ends, if no client keeps it waiting for the  *)
(* rest of a request: no thread waits for ever for a stub of a closed      *)
(* pool, nor for a client that does not read.  It ends by a crash only if  *)
(* requests are still read or handled when the clients are destroyed.      *)
GateStops ==
  /\ stop = "signalled" ~> \/ stop \in {"ended", "crashed"}
                           \/ \E c \in Misread : place[c] = "reading"
  /\ (stop = "signalled" /\ \A c \in Conn : place[c] \notin {"reading", "stub", "rpc", "handle"})
       ~> stop = "ended"

(* The deadline covers the request: no connection stays open for ever.     *)
DeadlineCoversRequest ==
  \A c \in Conn : place[c] = "reading" ~> place[c] = "closed"
=============================================================================

----------------------------- MODULE UserCache ------------------------------
(***************************************************************************)
(* The rows of the user table and their copies in Redis: SearchInfo and    *)
(* GetBaseInfo look in Redis first, then in MySQL, and store what they     *)
(* found there without an expiry; the gate registers users and resets      *)
(* passwords in MySQL only.  Logic workers and the gRPC threads of all     *)
(* chat servers do so at the same time.                                    *)
(*                                                                         *)
(* A text is what a client searches for.  NumberOf gives what isPureDigit  *)
(* and std::stoi make of it: None if another character than a digit is in  *)
(* it, NoInt if std::stoi throws (it is empty or too long).                *)
(***************************************************************************)
EXTENDS Integers

CONSTANTS LogicWorker, Reader,  \* logic workers; these and gRPC threads
          Server, ServerOf,     \* the chat server a reader belongs to
          Uid, Text, None, NoInt,
          NumberOf, NameOf,     \* of a text; of a user
          TextOf,               \* std::to_string of a uid
          MaxRequests, MaxFails, MaxResets       \* bounds of the instance

Row == [uid : Uid, pwd : 0..MaxResets]
Key == {"ubaseinfo_", "nameinfo_"} \X Text

(* A uid is the number its text stands for.  Names need not be unique:     *)
(* registrations that overlap can give the same name twice (Accounts).     *)
Parameters ==
  /\ LogicWorker \subseteq Reader /\ ServerOf \in [Reader -> Server]
  /\ Uid \subseteq Nat /\ MaxResets \in Nat
  /\ NameOf \in [Uid -> Text] /\ TextOf \in [Uid -> Text]
  /\ NumberOf \in [Text -> Nat \cup {None, NoInt}]
  /\ \A u \in Uid : NumberOf[TextOf[u]] = u
  /\ None \notin Nat \cup {NoInt} \cup Row \cup Key /\ NoInt \notin Nat

ASSUME ParametersAssumption == Parameters

VARIABLES
  user,        \* the table: the password of each user, as a version
  cache,       \* Redis
  rd,          \* what each reader does
  alive,       \* the servers whose process runs
  requests, fails,                                    \* bounded counters
  spoilt       \* history: users whose password was reset behind the cache

cacheVars == <<user, cache, rd, alive, requests, fails, spoilt>>

Idle == [pc |-> "idle", key |-> None, uid |-> None, row |-> None,
         known |-> {}, bad |-> FALSE]

CacheInit == /\ user = [u \in Uid |-> None]
             /\ cache = [k \in Key |-> None]
             /\ rd = [r \in Reader |-> Idle]
             /\ alive = Server
             /\ requests = 0 /\ fails = 0
             /\ spoilt = {}

isPureDigit(text) == NumberOf[text] # None

-----------------------------------------------------------------------------
Registered == {u \in Uid : user[u] # None}

Begin(r, key, uid) ==
  /\ rd[r].pc = "idle" /\ ServerOf[r] \in alive
  /\ requests < MaxRequests
  /\ requests' = requests + 1
  /\ rd' = [rd EXCEPT ![r] = [Idle EXCEPT !.pc = "get", !.key = key, !.uid = uid,
                                          !.known = Registered]]
  /\ UNCHANGED <<user, cache, alive, fails, spoilt>>

(* Searches.  By a name they take the same steps with another key and      *)
(* another query.                                                          *)
GetUserByUid(r, text) == Begin(r, <<"ubaseinfo_", text>>, None)

GetUserByName(r, text) == Begin(r, <<"nameinfo_", text>>, None)

SearchInfo(r, text) ==
  /\ r \in LogicWorker
  /\ IF isPureDigit(text) THEN GetUserByUid(r, text) ELSE GetUserByName(r, text)

(* Mutant: the key of one user with the uid of the other.                  *)
GetBaseInfo_OtherKey(r, uid) ==
  r \in LogicWorker /\ \E other \in Uid : Begin(r, <<"ubaseinfo_", TextOf[other]>>, uid)

(* Asked for by logins, applications and their acceptance, with a uid; and *)
(* by the gRPC thread that tells of an acceptance.                         *)
GetBaseInfo(r, uid) == r \in LogicWorker /\ Begin(r, <<"ubaseinfo_", TextOf[uid]>>, uid)

NotifyBaseInfo(r, uid) == r \notin LogicWorker /\ Begin(r, <<"ubaseinfo_", TextOf[uid]>>, uid)

-----------------------------------------------------------------------------
Goto(r, pc) == rd' = [rd EXCEPT ![r].pc = pc]

(* A command fails in this request.                                        *)
Fail == fails < MaxFails /\ fails' = fails + 1

Hit(r) ==
  /\ rd[r].pc = "get" /\ cache[rd[r].key] # None
  /\ rd' = [rd EXCEPT ![r].pc = "done", ![r].row = cache[rd[r].key]]
  /\ UNCHANGED <<user, cache, alive, requests, fails, spoilt>>

(* No such key, or the GET failed.  The text of a search becomes a number. *)
Miss(r) ==
  LET text == rd[r].key[2]
      bynumber == rd[r].key[1] = "ubaseinfo_" /\ rd[r].uid = None
  IN /\ rd[r].pc = "get"
     /\ bynumber => NumberOf[text] # NoInt
     /\ \/ cache[rd[r].key] = None /\ UNCHANGED fails
        \/ cache[rd[r].key] # None /\ Fail
     /\ rd' = [rd EXCEPT ![r].pc = "query",
                         ![r].uid = IF bynumber THEN NumberOf[text] ELSE @]
     /\ UNCHANGED <<user, cache, alive, requests, spoilt>>

(* std::stoi throws and nobody catches: the process ends.                  *)
StoiThrows(r) ==
  /\ rd[r].pc = "get" /\ cache[rd[r].key] = None
  /\ rd[r].key[1] = "ubaseinfo_" /\ NumberOf[rd[r].key[2]] = NoInt
  /\ alive' = alive \ {ServerOf[r]}
  /\ rd' = [x \in Reader |-> IF ServerOf[x] = ServerOf[r] THEN Idle ELSE rd[x]]
  /\ UNCHANGED <<user, cache, requests, fails, spoilt>>

-----------------------------------------------------------------------------
Matching(r) ==
  IF rd[r].key[1] = "nameinfo_" THEN {u \in Registered : NameOf[u] = rd[r].key[2]}
                                ELSE Registered \cap {rd[r].uid}

Found(r, u) ==
  rd' = [rd EXCEPT ![r].pc = "set", ![r].row = [uid |-> u, pwd |-> user[u]]]

(* Mutant: that nobody was found is stored as well.                        *)
GetUser_StoresNothing(r) ==
  /\ rd[r].pc = "query"
  /\ \/ \E u \in Matching(r) : Found(r, u)
     \/ Matching(r) = {}
        /\ rd' = [rd EXCEPT ![r].pc = "set", ![r].row = [uid |-> None, pwd |-> 0]]
  /\ UNCHANGED <<user, cache, alive, requests, fails, spoilt>>

(* GetUser of the DAO, by uid or by name: the row, or a null pointer when  *)
(* there is none; and then nothing is stored.                              *)
GetUser(r) ==
  /\ rd[r].pc = "query"
  /\ \/ \E u \in Matching(r) : Found(r, u)
     \/ Matching(r) = {} /\ Goto(r, "done")
  /\ UNCHANGED <<user, cache, alive, requests, fails, spoilt>>

(* A null pointer because the query failed.                                *)
GetUserFails(r) ==
  /\ rd[r].pc = "query" /\ Fail
  /\ rd' = [rd EXCEPT ![r].pc = "done", ![r].bad = TRUE]
  /\ UNCHANGED <<user, cache, alive, requests, spoilt>>

(* The row is stored; whether the SET fails is not looked at.              *)
SetCached(r) ==
  /\ rd[r].pc = "set"
  /\ \/ cache' = [cache EXCEPT ![rd[r].key] = rd[r].row] /\ UNCHANGED fails
     \/ Fail /\ UNCHANGED cache
  /\ Goto(r, "done")
  /\ UNCHANGED <<user, alive, requests, spoilt>>

Answer(r) ==
  /\ rd[r].pc = "done"
  /\ rd' = [rd EXCEPT ![r] = Idle]
  /\ UNCHANGED <<user, cache, alive, requests, fails, spoilt>>

-----------------------------------------------------------------------------
(* The gate server; Accounts has its steps.                                *)
Register(u) ==
  /\ user[u] = None
  /\ user' = [user EXCEPT ![u] = 0]
  /\ UNCHANGED <<cache, rd, alive, requests, fails, spoilt>>

CopiedOf(u) == \/ \E k \in Key : cache[k] # None /\ cache[k].uid = u
               \/ \E r \in Reader : rd[r].pc = "set" /\ rd[r].row.uid = u

ResetPwd(u) ==
  /\ user[u] # None /\ user[u] < MaxResets
  /\ user' = [user EXCEPT ![u] = @ + 1]
  /\ spoilt' = IF CopiedOf(u) THEN spoilt \cup {u} ELSE spoilt
  /\ UNCHANGED <<cache, rd, alive, requests, fails>>

-----------------------------------------------------------------------------
Read(r) == \/ Hit(r) \/ Miss(r) \/ StoiThrows(r) \/ GetUser(r) \/ GetUserFails(r)
           \/ SetCached(r) \/ Answer(r)

CacheNext == \/ \E r \in Reader : \/ Read(r)
                                  \/ \E text \in Text : SearchInfo(r, text)
                                  \/ \E u \in Uid : GetBaseInfo(r, u) \/ NotifyBaseInfo(r, u)
             \/ \E u \in Uid : Register(u) \/ ResetPwd(u)

CacheSpec == CacheInit /\ [][CacheNext]_cacheVars

-----------------------------------------------------------------------------
(* The types; a reader that goes on to store a row has one.                *)
CacheTypeOK ==
  /\ user \in [Uid -> 0..MaxResets \cup {None}]
  /\ cache \in [Key -> Row \cup {None}]
  /\ \A r \in Reader :
       /\ rd[r].pc \in {"idle", "get", "query", "set", "done"}
       /\ rd[r].key \in Key \cup {None} /\ rd[r].row \in Row \cup {None}
       /\ rd[r].pc = "idle" <=> rd[r].key = None
       /\ rd[r].pc = "set" => rd[r].row # None
       /\ ServerOf[r] \notin alive => rd[r] = Idle
  /\ alive \subseteq Server /\ spoilt \subseteq Uid

(* The user that a key is about.                                           *)
Names(key, u) ==
  IF key[1] = "nameinfo_" THEN NameOf[u] = key[2] ELSE NumberOf[key[2]] = u

(* The types; and whatever readers on all servers store at the same time,  *)
(* an entry is the row of the user its key names, and it is the present    *)
(* row unless the password was reset while a copy of the row was in Redis  *)
(* or on its way.                                                          *)
CacheIsCurrent ==
  /\ CacheTypeOK
  /\ \A k \in Key :
       cache[k] # None =>
         LET u == cache[k].uid
         IN Names(k, u) /\ (u \notin spoilt => cache[k].pwd = user[u])

(* A search for a name that is not a number, or for a number, finds a user *)
(* with it if there was one when the search began and no query failed;     *)
(* earlier searches that found nobody do not matter.                       *)
SearchFinds ==
  \A r \in LogicWorker : \A u \in Uid :
    (/\ rd[r].pc = "done" /\ ~rd[r].bad /\ u \in rd[r].known
     /\ Names(rd[r].key, u))
    => rd[r].row # None /\ rd[r].row.uid \in {v \in Uid : Names(rd[r].key, v)}
=============================================================================

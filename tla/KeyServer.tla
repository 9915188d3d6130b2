----------------------------- MODULE KeyServer -----------------------------
(***************************************************************************)
(* The request handlers of the server: clientRandomNum, clientPremaster,   *)
(* keyCheck and keyRevoke of ServerOperation, with the MySQLOP statements, *)
(* the SecKeyShm calls and the pools they use.                             *)
(*                                                                         *)
(* A worker handles one request of one connection at a time, and requests  *)
(* of one connection are handled one after the other (that is OneOwner of  *)
(* module Reactor).  A handler is cut where another thread, the database   *)
(* or the client can come between: every statement sent to the database,   *)
(* every access to the shared memory, the two calls on the Hmac object.    *)
(* The process may end between any two of these steps; it is started again *)
(* with nothing but the database's rows.                                   *)
(***************************************************************************)
EXTENDS KeyWire

CONSTANTS
  Workers,   \* the threads of the pool
  MaxNode,   \* the slots of the server's shared memory
  HmacSize,  \* the objects of the Hmac pool
  ConnSize,  \* the connections of the database pool
  MaxFail,   \* bound: statements and COMMITs the database fails, and attachments
  AttachFails,  \* whether shmat may fail
  CommitFails,  \* whether a COMMIT may fail
  MaxCrash   \* bound: times the server is started again

ASSUME ServerAssumption ==
  /\ MaxNode \in Nat \ {0} /\ HmacSize \in Nat \ {0} /\ ConnSize \in Nat \ {0}
  /\ MaxFail \in Nat /\ MaxCrash \in Nat
  /\ AttachFails \in BOOLEAN /\ CommitFails \in BOOLEAN
  /\ 0 \notin Fds    \* standard input; here: no descriptor

VARIABLES
  randomNum,  \* per descriptor: the random strings of a key agreement
  db,         \* table AASECKEYINFO: the row of key n at position n
  shm,        \* the shared memory, slot by slot
  hmacs, hkey,    \* the Hmac pool's free list; the key in each object
  conns, lastId,  \* the connection pool's free list; each session's
                  \* LAST_INSERT_ID
  task,       \* what each worker is doing
  fails,      \* calls failed so far
  confirmed,  \* history: the keys a check has confirmed
  crashes,    \* starts after the first
  before      \* history: the rows there were at the last start

poolVars == <<hmacs, hkey, conns, lastId>>
historyVars == <<confirmed, crashes, before>>
serverVars == <<randomNum, db, shm, poolVars, task, fails, historyVars>>

NoSlot == [client |-> NoClient, key |-> NoKey, id |-> 0, status |-> 0]
NoReq  == [type |-> "RANDOMNUM", random |-> Blank]
Idle   == [pc |-> "idle", client |-> NoClient, req |-> NoReq, fd |-> 0,
           key |-> NoKey, hmac |-> 1, conn |-> 1, id |-> 0, slot |-> 1]

ServerOK ==
  /\ randomNum \in [Fds -> [cr : Randoms, sr : Randoms]]
  /\ db \in Seq([client : Clients, key : Keys, state : {0, 1}])
  /\ shm \in [1..MaxNode -> [client : Clients \cup {NoClient}, key : Keys,
                             id : Nat, status : {0, 1}]]
  /\ hmacs \in Seq(1..HmacSize) /\ hkey \in [1..HmacSize -> Keys]
  /\ conns \in Seq(1..ConnSize) /\ lastId \in [1..ConnSize -> Nat]
  /\ task \in [Workers ->
       [pc : {"idle", "RANDOMNUM", "PREKEY", "KEYCHECK", "KEYREVOKE", "mac",
              "insert", "lastid", "write", "find", "status", "state"},
        client : Clients \cup {NoClient}, req : Requests, fd : Fds \cup {0},
        key : Keys, hmac : 1..HmacSize, conn : 1..ConnSize, id : Nat,
        slot : 1..MaxNode]]
  /\ fails \in 0..MaxFail
  /\ confirmed \in SUBSET Nat
  /\ crashes \in 0..MaxCrash /\ before \in Nat

\* What a server process starts with.
NoRandoms == [f \in Fds |-> [cr |-> Blank, sr |-> Blank]]
NoSlots   == [i \in 1..MaxNode |-> NoSlot]
AllHmacs  == [i \in 1..HmacSize |-> i]
NoKeys    == [i \in 1..HmacSize |-> NoKey]
AllConns  == [i \in 1..ConnSize |-> i]
NoIds     == [i \in 1..ConnSize |-> 0]
AllIdle   == [w \in Workers |-> Idle]

ServerInit ==
  /\ randomNum = NoRandoms
  /\ db = <<>>
  /\ shm = NoSlots
  /\ hmacs = AllHmacs /\ hkey = NoKeys
  /\ conns = AllConns /\ lastId = NoIds
  /\ task = AllIdle
  /\ fails = 0
  /\ confirmed = {} /\ crashes = 0 /\ before = 0

----------------------------------------------------------------------------
(* Pieces of the handlers.                                                 *)

\* HmacRAII(&hmac, hmacPool) and connectionRAII(&mysql, conPool) construct a
\* temporary: the object is taken from the front of the list and, when the
\* statement ends, put back at its end.  The handler goes on using it.
Rotate(list) == Append(Tail(list), Head(list))

Goto(w, pc) == task' = [task EXCEPT ![w].pc = pc]

\* sendMsg at the end of every handler; nobody receives it when the client
\* has left or has come back on another connection.
Reply(w, rv, random, id) ==
  LET t == task[w]
  IN /\ toClient' = IF t.client \in alive \ cut /\ fd[t.client] = t.fd
                    THEN [toClient EXCEPT ![t.client] =
                            Append(@, Answer(t.req.type, rv, random, id))]
                    ELSE toClient
     /\ task' = [task EXCEPT ![w] = Idle]
     /\ UNCHANGED <<fd, alive, cut, toServer>>

Refuse(w, rv) == Reply(w, rv, Blank, 0)

\* A statement the database fails, a segment that cannot be attached, and a
\* connection lost between a statement and its COMMIT, which undoes it.
Fail == fails < MaxFail /\ fails' = fails + 1
NoMap == AttachFails /\ Fail
NoCommit == CommitFails /\ Fail

\* workThread hands a message to the handler of its type.
TakeRequest(w) ==
  \E c \in Clients :
    /\ task[w].pc = "idle" /\ toServer[c] # <<>>
    /\ \A v \in Workers : task[v].pc = "idle" \/ task[v].fd # fd[c]
    /\ toServer' = [toServer EXCEPT ![c] = Tail(@)]
    /\ task' = [task EXCEPT ![w] = [Idle EXCEPT !.pc = Head(toServer[c]).type,
                  !.client = c, !.fd = fd[c], !.req = Head(toServer[c])]]
    /\ UNCHANGED <<fd, alive, cut, toClient, randomNum, db, shm, poolVars, fails, historyVars>>

\* clientRandomNum: draw the server's string, keep both, answer with it.
RandomNum(w) ==
  LET t == task[w]
  IN /\ t.pc = "RANDOMNUM"
     /\ randomNum' = [randomNum EXCEPT ![t.fd] =
                        [cr |-> t.req.random, sr |-> t.req.random]]
     /\ Reply(w, "SUCCESS", t.req.random, 0)
     /\ UNCHANGED <<db, shm, poolVars, fails, historyVars>>

\* clientPremaster: take the strings kept for the descriptor, splice the
\* key, and set it in an Hmac object.
Premaster(w) ==
  LET t == task[w]
      r == randomNum[t.fd]
      k == Key(r.cr, r.sr, t.req.pm)
  IN /\ t.pc = "PREKEY"
     /\ randomNum' = [randomNum EXCEPT ![t.fd] = [cr |-> Blank, sr |-> Blank]]
     /\ hmacs' = Rotate(hmacs)
     /\ hkey' = [hkey EXCEPT ![Head(hmacs)] = k]
     /\ task' = [task EXCEPT ![w].pc = "mac", ![w].key = k, ![w].hmac = Head(hmacs)]
     /\ UNCHANGED <<wireVars, db, shm, conns, lastId, fails, historyVars>>

\* Query, mutated: a failed query returns without an answer.
QuerySilent(w) ==
  LET t == task[w]
  IN /\ t.pc \in {"KEYCHECK", "KEYREVOKE"}
     /\ conns' = Rotate(conns)
     /\ \/ /\ t.req.id \in DOMAIN db
           /\ hmacs' = Rotate(hmacs)
           /\ hkey' = [hkey EXCEPT ![Head(hmacs)] = db[t.req.id].key]
           /\ task' = [task EXCEPT ![w].pc = "mac", ![w].key = db[t.req.id].key,
                         ![w].hmac = Head(hmacs), ![w].conn = Head(conns)]
           /\ UNCHANGED fails
        \/ /\ Fail /\ task' = [task EXCEPT ![w] = Idle]
           /\ UNCHANGED <<hmacs, hkey>>
     /\ UNCHANGED <<wireVars, randomNum, db, shm, lastId, historyVars>>

\* Query, mutated: the Hmac object keeps the key it had.
QueryKeepsHmac(w) ==
  LET t == task[w]
  IN /\ t.pc \in {"KEYCHECK", "KEYREVOKE"}
     /\ conns' = Rotate(conns)
     /\ \/ /\ t.req.id \in DOMAIN db
           /\ hmacs' = Rotate(hmacs)
           /\ task' = [task EXCEPT ![w].pc = "mac", ![w].key = db[t.req.id].key,
                         ![w].hmac = Head(hmacs), ![w].conn = Head(conns)]
           /\ UNCHANGED <<wireVars, fails>>
        \/ /\ t.req.id \notin DOMAIN db
           /\ Refuse(w, "AUTHERR")
           /\ UNCHANGED <<hmacs, fails>>
        \/ /\ Fail /\ Refuse(w, "AUTHERR")
           /\ UNCHANGED hmacs
     /\ UNCHANGED <<hkey, randomNum, db, shm, lastId, historyVars>>

\* querySecKey, then the row's key is set in an Hmac object.  The row's state
\* does not matter: get<1>(out) = row[1] makes a bool of a pointer.  A failed
\* statement and a missing row are both answered AUTHERR.
Query(w) ==
  LET t == task[w]
  IN /\ t.pc \in {"KEYCHECK", "KEYREVOKE"}
     /\ conns' = Rotate(conns)
     /\ \/ /\ t.req.id \in DOMAIN db
           /\ hmacs' = Rotate(hmacs)
           /\ hkey' = [hkey EXCEPT ![Head(hmacs)] = db[t.req.id].key]
           /\ task' = [task EXCEPT ![w].pc = "mac", ![w].key = db[t.req.id].key,
                         ![w].hmac = Head(hmacs), ![w].conn = Head(conns)]
           /\ UNCHANGED <<wireVars, fails>>
        \/ /\ t.req.id \notin DOMAIN db
           /\ Refuse(w, "AUTHERR")
           /\ UNCHANGED <<hmacs, hkey, fails>>
        \/ /\ Fail /\ Refuse(w, "AUTHERR")
           /\ UNCHANGED <<hmacs, hkey>>
     /\ UNCHANGED <<randomNum, db, shm, lastId, historyVars>>

\* Mac, mutated: a revocation forgets updateStatue.
MacNoStatus(w) ==
  LET t == task[w]
      ok == hkey[t.hmac] = t.req.key
  IN /\ t.pc = "mac"
     /\ \/ ~ok /\ Refuse(w, "AUTHERR")
        \/ /\ ok
           /\ Goto(w, CASE t.req.type = "PREKEY"    -> "insert"
                        [] t.req.type = "KEYCHECK"  -> "write"
                        [] t.req.type = "KEYREVOKE" -> "state")
           /\ UNCHANGED wireVars
     /\ UNCHANGED <<randomNum, db, shm, poolVars, fails, historyVars>>

\* The authentication code of the Hmac object is compared with the client's,
\* and for a check or a revocation the key with the client's key.
Mac(w) ==
  LET t == task[w]
      ok == /\ hkey[t.hmac] = t.req.key
            /\ t.req.type # "PREKEY" => t.key = t.req.key
  IN /\ t.pc = "mac"
     /\ \/ ~ok /\ Refuse(w, "AUTHERR")
        \/ /\ ok
           /\ Goto(w, CASE t.req.type = "PREKEY"    -> "insert"
                        [] t.req.type = "KEYCHECK"  -> "write"
                        [] t.req.type = "KEYREVOKE" -> "find")
           /\ UNCHANGED wireVars
     /\ UNCHANGED <<randomNum, db, shm, poolVars, fails, historyVars>>

\* Insert, mutated: the failure of the insert is not reported.
InsertUnchecked(w) ==
  LET t == task[w]
  IN /\ t.pc = "insert"
     /\ conns' = Rotate(conns)
     /\ task' = [task EXCEPT ![w].pc = "lastid", ![w].conn = Head(conns)]
     /\ \/ /\ db' = Append(db, [client |-> t.client, key |-> t.key, state |-> 1])
           /\ lastId' = [lastId EXCEPT ![Head(conns)] = Len(db) + 1]
           /\ UNCHANGED fails
        \/ Fail /\ UNCHANGED <<db, lastId>>
     /\ UNCHANGED <<wireVars, randomNum, shm, hmacs, hkey, historyVars>>

\* writeSecKey, first statement: insert an active row and commit.  Here a
\* COMMIT that fails is the failing branch too: nobody looks at its result,
\* but the SELECT that follows on the lost connection fails.
Insert(w) ==
  LET t == task[w]
  IN /\ t.pc = "insert"
     /\ conns' = Rotate(conns)
     /\ \/ /\ db' = Append(db, [client |-> t.client, key |-> t.key, state |-> 1])
           /\ lastId' = [lastId EXCEPT ![Head(conns)] = Len(db) + 1]
           /\ task' = [task EXCEPT ![w].pc = "lastid", ![w].conn = Head(conns)]
           /\ UNCHANGED <<wireVars, fails>>
        \/ /\ Fail /\ Refuse(w, "SERVERERR")
           /\ UNCHANGED <<db, lastId>>
     /\ UNCHANGED <<randomNum, shm, hmacs, hkey, historyVars>>

\* LastInsertId, mutated: the handler's keyID = -1 survives a failed select.
LastInsertIdUnchecked(w) ==
  LET t == task[w]
  IN /\ t.pc = "lastid"
     /\ \/ /\ task' = [task EXCEPT ![w].pc = "write", ![w].id = lastId[t.conn]]
           /\ UNCHANGED fails
        \/ Fail /\ task' = [task EXCEPT ![w].pc = "write", ![w].id = -1]
     /\ UNCHANGED <<wireVars, randomNum, db, shm, poolVars, historyVars>>

\* writeSecKey, second statement: SELECT LAST_INSERT_ID().
LastInsertId(w) ==
  LET t == task[w]
  IN /\ t.pc = "lastid"
     /\ \/ /\ task' = [task EXCEPT ![w].pc = "write", ![w].id = lastId[t.conn]]
           /\ UNCHANGED <<wireVars, fails>>
        \/ Fail /\ Refuse(w, "SERVERERR")
     /\ UNCHANGED <<randomNum, db, shm, poolVars, historyVars>>

\* shmWrite, under its mutex: the client's slot, else the first empty one,
\* takes the key as active; without either the request fails.
SlotsFor(c) ==
  LET own  == {i \in 1..MaxNode : shm[i].client = c}
      free == {i \in 1..MaxNode : shm[i] = NoSlot}
  IN IF own # {} THEN own ELSE free

FirstOf(S) == CHOOSE i \in S : \A j \in S : i <= j

\* ShmWrite, mutated: the client's own slot is not looked for.
ShmWriteAnew(w) ==
  LET t  == task[w]
      id == IF t.req.type = "PREKEY" THEN t.id ELSE t.req.id
      slots == {i \in 1..MaxNode : shm[i] = NoSlot}
  IN /\ t.pc = "write"
     /\ \/ /\ slots # {}
           /\ shm' = [shm EXCEPT ![FirstOf(slots)] =
                  [client |-> t.client, key |-> t.key, id |-> id, status |-> 1]]
           /\ Reply(w, "SUCCESS", Blank, IF t.req.type = "PREKEY" THEN id ELSE 0)
           /\ confirmed' = IF t.req.type = "KEYCHECK" THEN confirmed \cup {id}
                                                      ELSE confirmed
        \/ /\ slots = {}
           /\ Refuse(w, "SERVERERR")
           /\ UNCHANGED <<shm, confirmed>>
     /\ UNCHANGED <<randomNum, db, poolVars, fails, crashes, before>>

ShmWrite(w) ==
  LET t  == task[w]
      id == IF t.req.type = "PREKEY" THEN t.id ELSE t.req.id
      slots == SlotsFor(t.client)
  IN /\ t.pc = "write"
     /\ \/ /\ slots # {}
           /\ shm' = [shm EXCEPT ![FirstOf(slots)] =
                  [client |-> t.client, key |-> t.key, id |-> id, status |-> 1]]
           /\ Reply(w, "SUCCESS", Blank, IF t.req.type = "PREKEY" THEN id ELSE 0)
           /\ confirmed' = IF t.req.type = "KEYCHECK" THEN confirmed \cup {id}
                                                      ELSE confirmed
           /\ UNCHANGED fails
        \/ /\ (slots = {} /\ UNCHANGED fails) \/ NoMap
           /\ Refuse(w, "SERVERERR")
           /\ UNCHANGED <<shm, confirmed>>
     /\ UNCHANGED <<randomNum, db, poolVars, crashes, before>>

\* updateStatue looks for the key's slot without the mutex; no slot is fine,
\* and a segment it cannot attach is reported as no slot.
FindSlot(w) ==
  LET t == task[w]
      found == {i \in 1..MaxNode : shm[i].id = t.req.id}
  IN /\ t.pc = "find"
     /\ \/ /\ found # {}
           /\ task' = [task EXCEPT ![w].pc = "status", ![w].slot = FirstOf(found)]
           /\ UNCHANGED fails
        \/ /\ (found = {} /\ UNCHANGED fails) \/ NoMap
           /\ Goto(w, "state")
     /\ UNCHANGED <<wireVars, randomNum, db, shm, poolVars, historyVars>>

\* ... and then sets the status of whatever is in that slot by now.
SetStatus(w) ==
  /\ task[w].pc = "status"
  /\ shm' = [shm EXCEPT ![task[w].slot].status = 0]
  /\ Goto(w, "state")
  /\ UNCHANGED <<wireVars, randomNum, db, poolVars, fails, historyVars>>

\* UpdateState, mutated: the failure of the update is not reported.
UpdateStateUnchecked(w) ==
  LET t == task[w]
  IN /\ t.pc = "state"
     /\ \/ db' = [db EXCEPT ![t.req.id].state = 0] /\ UNCHANGED fails
        \/ Fail /\ UNCHANGED db
     /\ Reply(w, "SUCCESS", Blank, 0)
     /\ UNCHANGED <<randomNum, shm, poolVars, historyVars>>

\* updataKeyState: the row becomes inactive.  A failed statement is answered
\* SERVERERR; whether the COMMIT went through nobody asks, and the row is as
\* it was if it did not.
UpdateState(w) ==
  LET t == task[w]
  IN /\ t.pc = "state"
     /\ \/ /\ db' = [db EXCEPT ![t.req.id].state = 0]
           /\ Reply(w, "SUCCESS", Blank, 0)
           /\ UNCHANGED fails
        \/ /\ Fail /\ Refuse(w, "SERVERERR")
           /\ UNCHANGED db
        \/ /\ NoCommit /\ Reply(w, "SUCCESS", Blank, 0)
           /\ UNCHANGED db
     /\ UNCHANGED <<randomNum, shm, poolVars, historyVars>>

\* Restart, mutated: the segment is attached to and not zeroed.
RestartKeepsShm ==
  /\ crashes < MaxCrash
  /\ crashes' = crashes + 1 /\ before' = Len(db)
  /\ randomNum' = NoRandoms /\ task' = AllIdle
  /\ hmacs' = AllHmacs /\ hkey' = NoKeys /\ conns' = AllConns /\ lastId' = NoIds
  /\ cut' = alive
  /\ toServer' = [c \in Clients |-> <<>>]
  /\ UNCHANGED <<fd, alive, toClient, db, shm, fails, confirmed>>

\* The process ends, wherever its threads are, and is started again: the
\* segment is zeroed, pools and randomNum are new, the rows are as they were.
\* Every connection is lost, with the requests nobody had read; a connection
\* closed over unread requests is reset, and its answers may be lost as well.
Restart ==
  /\ crashes < MaxCrash
  /\ crashes' = crashes + 1 /\ before' = Len(db)
  /\ randomNum' = NoRandoms /\ shm' = NoSlots /\ task' = AllIdle
  /\ hmacs' = AllHmacs /\ hkey' = NoKeys /\ conns' = AllConns /\ lastId' = NoIds
  /\ cut' = alive
  /\ toServer' = [c \in Clients |-> <<>>]
  /\ \/ UNCHANGED toClient
     \/ toClient' = [c \in Clients |-> IF toServer[c] = <<>> THEN toClient[c] ELSE <<>>]
  /\ UNCHANGED <<fd, alive, db, fails, confirmed>>

Server(w) ==
  \/ TakeRequest(w) \/ RandomNum(w) \/ Premaster(w) \/ Query(w) \/ Mac(w)
  \/ Insert(w) \/ LastInsertId(w) \/ ShmWrite(w)
  \/ FindSlot(w) \/ SetStatus(w) \/ UpdateState(w)
=============================================================================

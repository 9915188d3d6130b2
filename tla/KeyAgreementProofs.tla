------------------------ MODULE KeyAgreementProofs ------------------------
(***************************************************************************)
(* What clients and server agree on, proved under the conditions it needs: *)
(* the one handler thread the server has, and, where a run shows that it   *)
(* fails otherwise, no late answers, no checks, no failing attachment, no  *)
(* failing COMMIT.                                                         *)
(***************************************************************************)
EXTENDS KeyProtocolProofs

----------------------------------------------------------------------------
(* Revoked keys are shown to nobody.                                       *)

\* Nobody checks a key, and the segment can be attached.
OnlyRevokes == "check" \notin Ops /\ ~AttachFails

Unchecked == {r \in Requests : r.type # "KEYCHECK"}
NoChecks ==
  /\ \A c \in Clients : toServer[c] \in Seq(Unchecked)
  /\ \A w \in Workers : task[w].req.type # "KEYCHECK"

\* The row a handler is about to show is active, and the key it is about to
\* revoke is shown in the slot it found or in none.
Current(t) ==
  /\ t.pc = "lastid" => db[lastId[t.conn]].state = 1
  /\ t.pc = "write" => db[Target(t)].state = 1
  /\ t.pc = "status" =>
       \A i \in 1..MaxNode : shm[i].id = t.req.id /\ shm[i].status = 1 => i = t.slot
  /\ t.pc = "state" => \A i \in 1..MaxNode : shm[i].id = t.req.id => shm[i].status = 0

RInv == /\ SInv /\ RevokedEverywhere /\ NoChecks
        /\ \A w \in Workers : Current(task[w])

LEMMA RInit == Init => RInv
<1> SUFFICES ASSUME Init PROVE RInv
  OBVIOUS
<1>1. SInv
  BY SInit
<1>2. RevokedEverywhere
  BY DEF Init, ServerInit, NoSlots, NoSlot, RevokedEverywhere
<1>3. NoChecks
  BY DEF Init, ServerInit, ClientInit, AllIdle, Idle, NoReq, NoChecks
<1>4. \A w \in Workers : Current(task[w])
  BY DEF Init, ServerInit, AllIdle, Idle, Current
<1> QED BY <1>1, <1>2, <1>3, <1>4 DEF RInv

LEMMA RClientStep ==
  ASSUME RInv, UNCHANGED serverVars, SInv',
         \A c \in Clients : toServer'[c] \in Seq(Unchecked)
  PROVE  RInv'
<1>1. UNCHANGED <<db, shm, task, lastId>>
  BY DEF serverVars, poolVars
<1>2. RevokedEverywhere' /\ NoChecks'
  BY <1>1 DEF RInv, RevokedEverywhere, NoChecks
<1>3. (\A w \in Workers : Current(task[w]))'
  BY <1>1 DEF RInv, Current, Target
<1> QED BY <1>2, <1>3 DEF RInv

LEMMA RSent ==
  ASSUME NEW c \in Clients, NEW r \in Unchecked, Send(c, r),
         toServer \in [Clients -> Seq(Requests)],
         \A d \in Clients : toServer[d] \in Seq(Unchecked)
  PROVE  \A d \in Clients : toServer'[d] \in Seq(Unchecked)
<1>1. toServer' = toServer \/ toServer' = [toServer EXCEPT ![c] = Append(@, r)]
  BY DEF Send
<1>2. Append(toServer[c], r) \in Seq(Unchecked)
  OBVIOUS
<1> QED BY <1>1, <1>2

LEMMA RClients ==
  ASSUME RInv, OnlyRevokes, OneThread, NEW c \in Clients, ClientStep(c), UNCHANGED serverVars
  PROVE  RInv'
<1>1. SInv' /\ ClientOK /\ toServer \in [Clients -> Seq(Requests)] /\ WireOK
      /\ \A d \in Clients : toServer[d] \in Seq(Unchecked)
  BY SClients, Parts DEF RInv, SInv, WireOK, NoChecks
<1>2. ASSUME NEW r \in Unchecked, Send(c, r) PROVE RInv'
  BY <1>1, <1>2, RSent, RClientStep
<1>3. ASSUME UNCHANGED toServer PROVE RInv'
  BY <1>1, <1>3, RClientStep
<1>4. CASE BeginAgree(c)
  <2> DEFINE r == [type |-> "RANDOMNUM", random |-> <<c, ops[c] + 1>>]
  <2>1. ops[c] + 1 \in 1..MaxOps
    BY <1>1, <1>4, WireAssumption DEF BeginAgree, Begin, ClientOK
  <2>2. r \in Requests /\ r.type = "RANDOMNUM"
    BY <2>1, KeyData, NewRequests
  <2>3. Send(c, r)
    BY <1>4 DEF BeginAgree, Begin
  <2> HIDE DEF r
  <2> QED BY <1>2, <2>2, <2>3 DEF Unchecked
<1>5. CASE BeginCheck(c)
  BY <1>5 DEF BeginCheck, Begin, OnlyRevokes
<1>6. CASE BeginRevoke(c)
  <2> DEFINE r == [type |-> "KEYREVOKE", id |-> cshm[c].id, key |-> cshm[c].key]
  <2>1. r \in Requests /\ r.type = "KEYREVOKE"
    BY <1>1, NewRequests DEF ClientOK
  <2>2. Send(c, r)
    BY <1>6 DEF BeginRevoke, Begin
  <2> HIDE DEF r
  <2> QED BY <1>2, <2>1, <2>2 DEF Unchecked
<1>7. CASE RecvRandom(c)
  <2> DEFINE a == Incoming(c)
             own == <<c, ops[c]>>
             k == Key(own, a.random, own)
             r == [type |-> "PREKEY", pm |-> own, key |-> k]
  <2>1. pc[c] = "random" /\ Receive(c) /\ Send(c, r)
    BY <1>7 DEF RecvRandom
  <2>2. ops[c] \in 1..MaxOps /\ a \in Answers
    <3>1. ops[c] \in 0..MaxOps /\ ops[c] # 0
      BY <1>1, <2>1, Parts DEF ClientOK, RInv, SInv
    <3>2. ops[c] \in 1..MaxOps
      BY <3>1, WireAssumption
    <3> QED BY <1>1, <2>1, <3>2, Received
  <2>3. own \in Randoms /\ a.random \in Randoms
    BY <2>2, KeyData, AnswerData
  <2> HIDE DEF a, own
  <2>4. k \in Keys
    BY <2>3, KeyData
  <2> HIDE DEF k
  <2>5. r \in Requests /\ r.type = "PREKEY"
    BY <2>3, <2>4, NewRequests
  <2> HIDE DEF r
  <2> QED BY <1>2, <2>1, <2>5 DEF Unchecked
<1>8. CASE Start(c, HandledFds)
  <2>1. PICK f \in Fds :
          toServer' = [d \in Clients |-> IF d = c \/ fd[d] = f THEN <<>> ELSE toServer[d]]
    BY <1>8 DEF Start
  <2>2. \A d \in Clients : toServer'[d] \in Seq(Unchecked)
    BY <1>1, <2>1
  <2> QED BY <1>1, <2>2, RClientStep
<1>9. CASE \/ RecvKeyId(c) \/ AgreeRefused(c) \/ AgreeCrash(c) \/ RecvCheck(c) \/ RecvRevoke(c)
           \/ GivesUp(c) \/ Killed(c) \/ Quit(c)
  BY <1>3, <1>9 DEF RecvKeyId, AgreeRefused, AgreeCrash, RecvCheck, RecvRevoke, GivesUp,
     CheckTimeout, RevokeTimeout, AgreeTimeout, Killed, Quit, Die, wireVars
<1> QED BY <1>4, <1>5, <1>6, <1>7, <1>8, <1>9 DEF ClientStep, Begins, Receives

\* Server steps.
LEMMA RServerStep ==
  ASSUME RInv, OneThread, NEW w \in Workers, SInv', RevokedEverywhere',
         \A c \in Clients : toServer'[c] \in Seq(Unchecked),
         task'[w].req.type # "KEYCHECK", Current(task[w])'
  PROVE  RInv'
<1>1. \A v \in Workers : v = w
  BY DEF OneThread
<1> QED BY <1>1 DEF RInv, NoChecks

\* Between two steps that touch neither the table nor the segment, an empty
\* task and one that has shown or found nothing yet are current.
LEMMA RQuiet ==
  ASSUME RInv, OneThread, NEW w \in Workers, SInv', UNCHANGED <<db, shm, toServer>>,
         task'[w].req.type # "KEYCHECK", Current(task[w])'
  PROVE  RInv'
<1>1. RevokedEverywhere' /\ \A c \in Clients : toServer'[c] \in Seq(Unchecked)
  BY DEF RInv, RevokedEverywhere, NoChecks
<1> QED BY <1>1, RServerStep

LEMMA RReplied ==
  ASSUME RInv, NEW w \in Workers, NEW rv, NEW x, NEW n, Reply(w, rv, x, n)
  PROVE  /\ Current(task[w])' /\ task'[w].req.type # "KEYCHECK" /\ UNCHANGED toServer
         /\ \A c \in Clients : toServer'[c] \in Seq(Unchecked)
<1>1. task \in [Workers -> Tasks]
  BY Parts DEF RInv, SInv, TasksOK
<1>2. task'[w] = Idle /\ UNCHANGED toServer
  BY <1>1 DEF Reply
<1> QED BY <1>2 DEF Current, Idle, NoReq, RInv, NoChecks

LEMMA RRefused ==
  ASSUME RInv, OneThread, SInv', NEW w \in Workers, NEW rv, Refuse(w, rv), UNCHANGED <<db, shm>>
  PROVE  RInv'
<1>1. Current(task[w])' /\ task'[w].req.type # "KEYCHECK" /\ UNCHANGED toServer
  BY RReplied DEF Refuse
<1> QED BY <1>1, RQuiet

\* A step that only moves a task on to a place where nothing is required.
LEMMA RMoved ==
  ASSUME RInv, OneThread, NEW w \in Workers, SInv', UNCHANGED <<db, shm, toServer>>, NEW u,
         task'[w] = u, u.req = task[w].req, u.pc \in {"mac", "insert", "find"}
  PROVE  RInv'
<1>1. task[w].req.type # "KEYCHECK"
  BY DEF RInv, NoChecks
<1>2. Current(task[w])'
  BY DEF Current
<1> QED BY <1>1, <1>2, RQuiet

LEMMA RTakeRequest ==
  ASSUME RInv, OneThread, NEW w \in Workers, TakeRequest(w), UNCHANGED clientVars
  PROVE  RInv'
<1>1. SInv' /\ TasksOK /\ NoChecks /\ toServer \in [Clients -> Seq(Requests)]
  BY STakeRequest, Parts DEF RInv, SInv, WireOK
<1>2. PICK c \in Clients :
        /\ toServer[c] # <<>>
        /\ toServer' = [toServer EXCEPT ![c] = Tail(@)]
        /\ task' = [task EXCEPT ![w] = [Idle EXCEPT !.pc = Head(toServer[c]).type,
                      !.client = c, !.fd = fd[c], !.req = Head(toServer[c])]]
        /\ UNCHANGED <<db, shm>>
  BY DEF TakeRequest
<1> DEFINE r == Head(toServer[c])
           t == [Idle EXCEPT !.pc = r.type, !.client = c, !.fd = fd[c], !.req = r]
<1>3. r \in Unchecked /\ Tail(toServer[c]) \in Seq(Unchecked)
  BY <1>1, <1>2, HeadTail DEF NoChecks
<1>4. \A d \in Clients : toServer'[d] \in Seq(Unchecked)
  BY <1>1, <1>2, <1>3 DEF NoChecks
<1> HIDE DEF r
<1>5. r.type \in {"RANDOMNUM", "PREKEY", "KEYREVOKE"}
  BY <1>3, RequestData DEF Unchecked
<1>6. t.pc = r.type /\ t.req = r
  BY DEF Idle
<1>7. task'[w] = t
  BY <1>1, <1>2 DEF r, TasksOK
<1> HIDE DEF t
<1>8. Current(task[w])' /\ task'[w].req.type # "KEYCHECK"
  BY <1>5, <1>6, <1>7 DEF Current
<1>9. RevokedEverywhere'
  BY <1>2 DEF RInv, RevokedEverywhere
<1> QED BY <1>1, <1>4, <1>8, <1>9, RServerStep

LEMMA RRandomNum ==
  ASSUME RInv, OneThread, NEW w \in Workers, RandomNum(w), UNCHANGED clientVars
  PROVE  RInv'
<1>1. SInv' /\ UNCHANGED <<db, shm>>
  BY SRandomNum DEF RInv, RandomNum
<1>2. Current(task[w])' /\ task'[w].req.type # "KEYCHECK" /\ UNCHANGED toServer
  BY RReplied DEF RandomNum
<1> QED BY <1>1, <1>2, RQuiet

LEMMA RPremaster ==
  ASSUME RInv, OneThread, NEW w \in Workers, Premaster(w), UNCHANGED clientVars
  PROVE  RInv'
<1> DEFINE t == task[w]
           k == Key(randomNum[t.fd].cr, randomNum[t.fd].sr, t.req.pm)
           u == [t EXCEPT !.pc = "mac", !.key = k, !.hmac = Head(hmacs)]
<1>1. SInv' /\ TasksOK /\ t \in Tasks
  BY SPremaster, Parts DEF RInv, SInv, TasksOK
<1>2. /\ task' = [task EXCEPT ![w].pc = "mac", ![w].key = k, ![w].hmac = Head(hmacs)]
      /\ UNCHANGED <<db, shm, toServer>>
  BY DEF Premaster, wireVars
<1> HIDE DEF k
<1>3. task'[w] = u /\ u.pc = "mac" /\ u.req = t.req
  BY <1>1, <1>2 DEF TasksOK, Tasks
<1> HIDE DEF u
<1> QED BY <1>1, <1>2, <1>3, RMoved

LEMMA RQuery ==
  ASSUME RInv, OneThread, NEW w \in Workers, Query(w), UNCHANGED clientVars
  PROVE  RInv'
<1> DEFINE t == task[w]
           k == db[t.req.id].key
           u == [t EXCEPT !.pc = "mac", !.key = k, !.hmac = Head(hmacs), !.conn = Head(conns)]
<1>1. SInv' /\ TasksOK /\ t \in Tasks /\ UNCHANGED <<db, shm>>
  BY SQuery, Parts DEF RInv, SInv, TasksOK, Query
<1>2. CASE /\ task' = [task EXCEPT ![w].pc = "mac", ![w].key = k,
                         ![w].hmac = Head(hmacs), ![w].conn = Head(conns)]
           /\ UNCHANGED wireVars
  <2> HIDE DEF k
  <2>1. task'[w] = u /\ u.pc = "mac" /\ u.req = t.req /\ UNCHANGED toServer
    BY <1>1, <1>2 DEF TasksOK, Tasks, wireVars
  <2> HIDE DEF u
  <2> QED BY <1>1, <2>1, RMoved
<1>3. CASE Refuse(w, "AUTHERR")
  BY <1>1, <1>3, RRefused
<1> QED BY <1>2, <1>3 DEF Query

LEMMA RMac ==
  ASSUME RInv, OneThread, NEW w \in Workers, Mac(w), UNCHANGED clientVars
  PROVE  RInv'
<1> DEFINE t == task[w]
           p == CASE t.req.type = "PREKEY"    -> "insert"
                  [] t.req.type = "KEYCHECK"  -> "write"
                  [] t.req.type = "KEYREVOKE" -> "find"
           u == [t EXCEPT !.pc = p]
<1>1. /\ SInv' /\ TasksOK /\ t \in Tasks /\ Fits(t) /\ t.pc = "mac" /\ UNCHANGED <<db, shm>>
      /\ t.req.type # "KEYCHECK"
  BY SMac, Parts DEF RInv, SInv, TasksOK, Mac, NoChecks
<1>2. CASE Refuse(w, "AUTHERR")
  BY <1>1, <1>2, RRefused
<1>3. CASE Goto(w, p) /\ UNCHANGED wireVars
  <2>1. t.req.type \in {"PREKEY", "KEYREVOKE"}
    BY <1>1, TaskData, RequestData DEF Fits
  <2>2. p \in {"insert", "find"}
    BY <2>1
  <2> HIDE DEF p
  <2>3. task'[w] = u /\ u.pc = p /\ u.req = t.req /\ UNCHANGED toServer
    BY <1>1, <1>3 DEF Goto, TasksOK, Tasks, wireVars
  <2> HIDE DEF u
  <2> QED BY <1>1, <2>2, <2>3, RMoved
<1> QED BY <1>2, <1>3 DEF Mac

LEMMA RInsert ==
  ASSUME RInv, OneThread, NEW w \in Workers, Insert(w), UNCHANGED clientVars
  PROVE  RInv'
<1> DEFINE t == task[w]
           s == Head(conns)
           row == [client |-> t.client, key |-> t.key, state |-> 1]
           u == [t EXCEPT !.pc = "lastid", !.conn = s]
           R == [client : Clients, key : Keys, state : {0, 1}]
<1>1. /\ SInv' /\ TasksOK /\ Pools /\ ServerData /\ t \in Tasks /\ Fits(t)
      /\ t.pc = "insert" /\ UNCHANGED shm /\ t.req.type # "KEYCHECK" /\ ShmIsIssued
  BY SInsert, Parts DEF RInv, SInv, TasksOK, Insert, NoChecks
<1>2. t.client \in Clients /\ t.key \in Keys
  BY <1>1, TaskData DEF Fits
<1>3. CASE /\ db' = Append(db, row)
           /\ lastId' = [lastId EXCEPT ![s] = Len(db) + 1]
           /\ task' = [task EXCEPT ![w].pc = "lastid", ![w].conn = s]
           /\ UNCHANGED wireVars
  <2>1. s \in 1..ConnSize /\ lastId \in [1..ConnSize -> Nat]
    BY <1>1, HeadTail DEF Pools
  <2>2. db \in Seq(R) /\ row \in R
    BY <1>1, <1>2 DEF ServerData
  <2>3. row.state = 1
    OBVIOUS
  <2> HIDE DEF R, row
  <2>4. (\A n \in Rows : db'[n] = db[n]) /\ db'[Len(db) + 1] = row
    BY <1>3, <2>2 DEF Rows
  <2>5. RevokedEverywhere'
    BY <1>1, <2>4 DEF RInv, RevokedEverywhere, ShmIsIssued
  <2> HIDE DEF s
  <2>6. task'[w] = u /\ u.pc = "lastid" /\ u.conn = s /\ u.req = t.req /\ UNCHANGED toServer
    BY <1>1, <1>3 DEF TasksOK, Tasks, wireVars
  <2> HIDE DEF u
  <2>7. lastId'[s] = Len(db) + 1
    BY <1>3, <2>1
  <2>8. Current(task[w])'
    BY <2>3, <2>4, <2>6, <2>7 DEF Current
  <2>9. \A c \in Clients : toServer'[c] \in Seq(Unchecked)
    BY <2>6 DEF RInv, NoChecks
  <2> QED BY <1>1, <2>5, <2>6, <2>8, <2>9, RServerStep
<1>4. CASE Refuse(w, "SERVERERR") /\ UNCHANGED db
  BY <1>1, <1>4, RRefused
<1> QED BY <1>3, <1>4 DEF Insert

LEMMA RLastInsertId ==
  ASSUME RInv, OneThread, NEW w \in Workers, LastInsertId(w), UNCHANGED clientVars
  PROVE  RInv'
<1> DEFINE t == task[w]
           n == lastId[t.conn]
           u == [t EXCEPT !.pc = "write", !.id = n]
<1>1. /\ SInv' /\ TasksOK /\ t \in Tasks /\ Fits(t) /\ Current(t) /\ t.pc = "lastid"
      /\ UNCHANGED <<db, shm>>
  BY SLastInsertId, Parts DEF RInv, SInv, TasksOK, LastInsertId
<1>2. t.req.type = "PREKEY" /\ db[n].state = 1
  BY <1>1 DEF Fits, Current
<1>3. CASE task' = [task EXCEPT ![w].pc = "write", ![w].id = n] /\ UNCHANGED wireVars
  <2> HIDE DEF n
  <2>1. task'[w] = u /\ u.pc = "write" /\ u.id = n /\ u.req = t.req /\ UNCHANGED toServer
    BY <1>1, <1>3 DEF TasksOK, Tasks, wireVars
  <2> HIDE DEF u
  <2>2. Current(task[w])' /\ task'[w].req.type # "KEYCHECK"
    BY <1>1, <1>2, <2>1 DEF Current, Target
  <2> QED BY <1>1, <2>1, <2>2, RQuiet
<1>4. CASE Refuse(w, "SERVERERR")
  BY <1>1, <1>4, RRefused
<1> QED BY <1>3, <1>4 DEF LastInsertId

LEMMA RShmWrite ==
  ASSUME RInv, OneThread, NEW w \in Workers, ShmWrite(w), UNCHANGED clientVars
  PROVE  RInv'
<1> DEFINE t == task[w]
           n == IF t.req.type = "PREKEY" THEN t.id ELSE t.req.id
           i == FirstOf(SlotsFor(t.client))
<1>1. /\ SInv' /\ Current(t) /\ t.pc = "write" /\ UNCHANGED db
      /\ shm \in [1..MaxNode -> [client : Clients \cup {NoClient}, key : Keys,
                                 id : Nat, status : {0, 1}]]
  BY SShmWrite, Parts DEF RInv, SInv, ShmWrite, ServerData
<1>2. db[n].state = 1
  BY <1>1 DEF Current, Target
<1>3. /\ Current(task[w])' /\ task'[w].req.type # "KEYCHECK"
      /\ \A c \in Clients : toServer'[c] \in Seq(Unchecked)
  BY RReplied DEF ShmWrite, Refuse
<1>4. shm' = shm \/ shm' = [shm EXCEPT ![i] =
                              [client |-> t.client, key |-> t.key, id |-> n, status |-> 1]]
  BY DEF ShmWrite
<1> HIDE DEF n, i
<1>5. \A j \in 1..MaxNode : shm'[j] = shm[j] \/ shm'[j].id = n
  <2> DEFINE slot == [client |-> t.client, key |-> t.key, id |-> n, status |-> 1]
  <2>1. slot.id = n
    OBVIOUS
  <2>2. shm' = shm \/ shm' = [shm EXCEPT ![i] = slot]
    BY <1>4
  <2> HIDE DEF slot
  <2>3. \A j \in 1..MaxNode : shm'[j] = shm[j] \/ shm'[j] = slot
    BY <1>1, <2>2
  <2> QED BY <2>1, <2>3
<1>6. RevokedEverywhere'
  <2>1. ASSUME NEW j \in 1..MaxNode, shm'[j] # NoSlot, shm'[j].status = 1
        PROVE  db'[shm'[j].id].state = 1
    BY <1>1, <1>2, <1>5, <2>1 DEF RInv, RevokedEverywhere
  <2> QED BY <2>1 DEF RevokedEverywhere
<1> QED BY <1>1, <1>3, <1>6, RServerStep

LEMMA RFindSlot ==
  ASSUME RInv, OneThread, OnlyRevokes, NEW w \in Workers, FindSlot(w), UNCHANGED clientVars
  PROVE  RInv'
<1> DEFINE t == task[w]
           found == {j \in 1..MaxNode : shm[j].id = t.req.id}
           i == FirstOf(found)
           u == [t EXCEPT !.pc = "status", !.slot = i]
           v == [t EXCEPT !.pc = "state"]
<1>1. /\ SInv' /\ TasksOK /\ t \in Tasks /\ t.pc = "find" /\ UNCHANGED <<db, shm, toServer>>
      /\ t.req.type # "KEYCHECK" /\ ShmIsIssued /\ MaxNode \in Nat /\ ServerData
  BY SFindSlot, Parts, ServerAssumption
     DEF RInv, SInv, TasksOK, FindSlot, wireVars, NoChecks
<1>2. CASE found # {} /\ task' = [task EXCEPT ![w].pc = "status", ![w].slot = i]
  <2>1. found # {} /\ found \in SUBSET (1..MaxNode)
    BY <1>2
  <2>2. \A j \in 1..MaxNode : j \in found <=> shm[j].id = t.req.id
    OBVIOUS
  <2> HIDE DEF found
  <2>3. i \in found
    BY <1>1, <2>1, FirstIs
  <2> HIDE DEF i
  <2>4. task'[w] = u /\ u.pc = "status" /\ u.slot = i /\ u.req = t.req
    BY <1>1, <1>2 DEF TasksOK, Tasks
  <2> HIDE DEF u
  <2>5. ASSUME NEW j \in 1..MaxNode, shm[j].id = t.req.id, shm[j].status = 1
        PROVE  j = i
    <3>1. shm[j] # NoSlot
      BY <2>5 DEF NoSlot
    <3>2. shm[j].id \in Rows /\ shm[j].id # 0 /\ db[shm[j].id].client = shm[j].client
      <4>1. shm[j].id \in Rows /\ db[shm[j].id].client = shm[j].client
        BY <1>1, <3>1 DEF ShmIsIssued
      <4>2. Rows = 1..Len(db) /\ Len(db) \in Nat
        BY <1>1 DEF Rows, ServerData
      <4> QED BY <4>1, <4>2
    <3>3. i \in 1..MaxNode /\ shm[i].id = shm[j].id
      BY <2>1, <2>2, <2>3, <2>5
    <3>4. shm[i] # NoSlot
      BY <3>2, <3>3 DEF NoSlot
    <3>5. shm[i].client = shm[j].client
      BY <1>1, <3>2, <3>3, <3>4 DEF ShmIsIssued
    <3> QED BY <1>1, <3>1, <3>3, <3>5 DEF ShmIsIssued
  <2>6. Current(task[w])' /\ task'[w].req.type # "KEYCHECK"
    BY <1>1, <2>4, <2>5 DEF Current
  <2> QED BY <1>1, <2>6, RQuiet
<1>3. CASE found = {} /\ Goto(w, "state")
  <2>1. task'[w] = v /\ v.pc = "state" /\ v.req = t.req
    BY <1>1, <1>3 DEF Goto, TasksOK, Tasks
  <2> HIDE DEF v
  <2>2. \A j \in 1..MaxNode : shm[j].id # t.req.id
    BY <1>3
  <2>3. Current(task[w])' /\ task'[w].req.type # "KEYCHECK"
    BY <1>1, <2>1, <2>2 DEF Current
  <2> QED BY <1>1, <2>3, RQuiet
<1> QED BY <1>2, <1>3 DEF FindSlot, NoMap, OnlyRevokes

LEMMA RSetStatus ==
  ASSUME RInv, OneThread, NEW w \in Workers, SetStatus(w), UNCHANGED clientVars
  PROVE  RInv'
<1> DEFINE t == task[w]
           v == [t EXCEPT !.pc = "state"]
<1>1. /\ SInv' /\ TasksOK /\ t \in Tasks /\ t.pc = "status" /\ UNCHANGED <<db, toServer>>
      /\ Current(t) /\ t.req.type # "KEYCHECK"
      /\ shm \in [1..MaxNode -> [client : Clients \cup {NoClient}, key : Keys,
                                 id : Nat, status : {0, 1}]]
  BY SSetStatus, Parts DEF RInv, SInv, TasksOK, SetStatus, wireVars, ServerData, NoChecks
<1>2. Goto(w, "state") /\ shm' = [shm EXCEPT ![t.slot].status = 0]
  BY DEF SetStatus
<1>3. task'[w] = v /\ v.pc = "state" /\ v.req = t.req
  BY <1>1, <1>2 DEF Goto, TasksOK, Tasks
<1> HIDE DEF v
<1>4. \A j \in 1..MaxNode : /\ shm'[j].id = shm[j].id
                            /\ shm'[j].status = IF j = t.slot THEN 0 ELSE shm[j].status
                            /\ shm[j] = NoSlot => shm'[j] = NoSlot
  BY <1>1, <1>2 DEF NoSlot
<1>5. \A j \in 1..MaxNode : shm'[j].id = t.req.id => shm'[j].status = 0
  <2> SUFFICES ASSUME NEW j \in 1..MaxNode, shm'[j].id = t.req.id, j # t.slot
               PROVE  shm'[j].status = 0
    BY <1>4
  <2>1. shm[j].id = t.req.id /\ shm[j].status \in {0, 1} /\ shm'[j].status = shm[j].status
    BY <1>1, <1>4
  <2> QED BY <1>1, <2>1 DEF Current
<1>6. Current(task[w])' /\ task'[w].req.type # "KEYCHECK"
  BY <1>1, <1>3, <1>5 DEF Current
<1>7. RevokedEverywhere'
  BY <1>1, <1>4 DEF RInv, RevokedEverywhere
<1>8. \A c \in Clients : toServer'[c] \in Seq(Unchecked)
  BY <1>1 DEF RInv, NoChecks
<1> QED BY <1>1, <1>6, <1>7, <1>8, RServerStep

LEMMA RUpdateState ==
  ASSUME RInv, OneThread, NEW w \in Workers, UpdateState(w), UNCHANGED clientVars
  PROVE  RInv'
<1> DEFINE t == task[w]
<1>1. SInv' /\ ServerData /\ UNCHANGED shm /\ Current(t) /\ t.pc = "state" /\ ShmIsIssued
  BY SUpdateState, Parts DEF RInv, SInv, UpdateState
<1>2. /\ Current(task[w])' /\ task'[w].req.type # "KEYCHECK"
      /\ \A c \in Clients : toServer'[c] \in Seq(Unchecked)
  BY RReplied DEF UpdateState, Refuse
<1>3. \A n \in Rows : n # t.req.id => db'[n] = db[n]
  BY <1>1 DEF UpdateState, Rows, ServerData
<1>4. RevokedEverywhere'
  <2>1. ASSUME NEW j \in 1..MaxNode, shm'[j] # NoSlot, shm'[j].status = 1
        PROVE  db'[shm'[j].id].state = 1
    <3>1. shm[j].id \in Rows /\ db[shm[j].id].state = 1
      BY <1>1, <2>1 DEF RInv, RevokedEverywhere, ShmIsIssued
    <3>2. shm[j].id # t.req.id
      BY <1>1, <2>1 DEF Current
    <3> QED BY <1>1, <1>3, <3>1, <3>2
  <2> QED BY <2>1 DEF RevokedEverywhere
<1> QED BY <1>1, <1>2, <1>4, RServerStep

LEMMA RRestart ==
  ASSUME RInv, Restart, UNCHANGED clientVars
  PROVE  RInv'
<1>1. SInv'
  BY SRestart DEF RInv
<1>2. NoChecks'
  BY DEF Restart, AllIdle, Idle, NoReq, NoChecks
<1>3. (\A w \in Workers : Current(task[w]))'
  BY DEF Restart, AllIdle, Idle, Current
<1>4. RevokedEverywhere'
  BY DEF Restart, NoSlots, RevokedEverywhere
<1> QED BY <1>1, <1>2, <1>3, <1>4 DEF RInv

LEMMA RNext == RInv /\ OneThread /\ OnlyRevokes /\ [Next]_vars => RInv'
<1> SUFFICES ASSUME RInv, OneThread, OnlyRevokes, [Next]_vars PROVE RInv'
  OBVIOUS
<1>1. CASE UNCHANGED vars
  <2>1. SInv' /\ UNCHANGED serverVars /\ UNCHANGED toServer
    BY <1>1, SNext DEF RInv, vars, wireVars
  <2>2. \A c \in Clients : toServer'[c] \in Seq(Unchecked)
    BY <2>1 DEF RInv, NoChecks
  <2> QED BY <2>1, <2>2, RClientStep
<1>2. ASSUME NEW c \in Clients, ClientStep(c), UNCHANGED serverVars PROVE RInv'
  BY <1>2, RClients
<1>3. ASSUME NEW w \in Workers, Server(w), UNCHANGED clientVars PROVE RInv'
  BY <1>3, RTakeRequest, RRandomNum, RPremaster, RQuery, RMac, RInsert, RLastInsertId,
     RShmWrite, RFindSlot, RSetStatus, RUpdateState DEF Server
<1>4. CASE Restart /\ UNCHANGED clientVars
  BY <1>4, RRestart
<1> QED BY <1>1, <1>2, <1>3, <1>4 DEF Next

\* With one thread, no checks and a segment that can always be attached, a
\* revoked key is inactive in the shared memory, whatever statements fail:
\* updateStatue comes before updataKeyState in keyRevoke.
THEOREM RevokedShownToNobody ==
  ASSUME OneThread, OnlyRevokes
  PROVE  Spec => []RevokedEverywhere
<1>1. RInv => RevokedEverywhere
  BY DEF RInv
<1> QED BY RInit, RNext, <1>1, PTL DEF Spec

----------------------------------------------------------------------------
(* Requests and answers, one for one.                                      *)

Own(c)    == <<c, ops[c]>>
Agreed(c) == Key(Own(c), Own(c), Own(c))
Drawn(c)  == randomNum[fd[c]] = [cr |-> Own(c), sr |-> Own(c)]

\* The request of the operation the client is in, with the key it has.
Asks(c, r) ==
  \/ pc[c] = "random" /\ r.type = "RANDOMNUM" /\ r.random = Own(c)
  \/ pc[c] = "keyid" /\ r.type = "PREKEY" /\ r.pm = Own(c) /\ r.key = Agreed(c)
  \/ pc[c] = "check" /\ r.type = "KEYCHECK" /\ r.id = cshm[c].id /\ r.key = cshm[c].key
  \/ pc[c] = "revoke" /\ r.type = "KEYREVOKE" /\ r.id = cshm[c].id /\ r.key = cshm[c].key

\* What is true while the request is on its way, while a handler works on
\* it, and while the answer is on its way back.
Sends(c, r) == Asks(c, r) /\ (r.type = "PREKEY" => Drawn(c))
Handles(c, t) ==
  /\ Asks(c, t.req)
  /\ t.pc = "PREKEY" => Drawn(c)
  /\ t.pc \in {"mac", "insert", "lastid", "write"} /\ t.req.type = "PREKEY" => t.key = Agreed(c)
Tells(c, a) ==
  \/ /\ pc[c] = "random"
     /\ a.rv = "SUCCESS" => a.random = Own(c) /\ (c \notin cut => Drawn(c))
  \/ pc[c] = "keyid" /\ (a.rv = "SUCCESS" => IsRow(a.id, c, Agreed(c)))
  \/ pc[c] = "check" /\ (a.rv = "SUCCESS" => cshm[c].id \in confirmed)
  \/ /\ pc[c] = "revoke"
     /\ a.rv = "SUCCESS" =>
          cshm[c].id \in Rows /\ (db[cshm[c].id].state = 0 \/ CommitFails)

Busy(t, c) == t.pc # "idle" /\ t.client = c /\ t.fd = fd[c]

\* A client has one request under way at most, at one of the three places.
Waits(c) ==
  /\ toServer[c] = <<>> \/ \E r \in Requests : Sends(c, r) /\ toServer[c] = <<r>>
  /\ toClient[c] = <<>> \/ \E a \in Answers : Tells(c, a) /\ toClient[c] = <<a>>
  /\ toServer[c] = <<>> \/ toClient[c] = <<>>
  /\ \A w \in Workers : Busy(task[w], c) =>
       Handles(c, task[w]) /\ toServer[c] = <<>> /\ toClient[c] = <<>>

\* A descriptor of a live connection is nobody else's.
Linked ==
  /\ \A c \in alive \ cut :
       /\ \A d \in Clients \ {c} : fd[d] = fd[c] => d \notin alive \ cut /\ toServer[d] = <<>>
       /\ \A w \in Workers : task[w].pc # "idle" /\ task[w].fd = fd[c] => task[w].client = c
  /\ \A c \in cut :
       toServer[c] = <<>> /\ \A w \in Workers : task[w].pc # "idle" => task[w].client # c

Settled ==
  /\ \A c \in Clients \ alive : pc[c] = "menu"
  /\ \A c \in Clients : /\ pc[c] \in {"check", "revoke"} => cshm[c].status = 1
                        /\ pc[c] = "keyid" => mine[c] = Agreed(c)

RevokedRows ==
  \A c \in Clients : verdict[c].op = "revoke" /\ verdict[c].ok =>
    verdict[c].id \in Rows /\ (db[verdict[c].id].state = 0 \/ CommitFails)

PInv == /\ SInv /\ AInv /\ Linked /\ Settled
        /\ (\A c \in alive : Waits(c))
        /\ AgreedKey /\ CheckGenuine /\ RevokedRows

LEMMA Single ==
  \A x : Head(<<x>>) = x /\ Tail(<<x>>) = <<>> /\ Append(<<>>, x) = <<x>> /\ <<x>> # <<>>
OBVIOUS

LEMMA PInit == Init => PInv
<1> SUFFICES ASSUME Init PROVE PInv
  OBVIOUS
<1>1. SInv /\ AInv
  BY SInit, AInit
<1>2. Linked
  BY DEF Init, ClientInit, ServerInit, AllIdle, Idle, Linked
<1>3. Settled
  BY DEF Init, ClientInit, Settled
<1>4. \A c \in alive : Waits(c)
  BY DEF Init, ClientInit, ServerInit, AllIdle, Idle, Waits, Busy
<1>5. AgreedKey
  BY DEF Init, ClientInit, NoKeyHeld, AgreedKey, Held
<1>6. CheckGenuine /\ RevokedRows
  BY DEF Init, ClientInit, NoVerdict, CheckGenuine, RevokedRows
<1> QED BY <1>1, <1>2, <1>3, <1>4, <1>5, <1>6 DEF PInv

\* The table and the confirmed keys only grow, and revoked stays revoked.
Grow ==
  /\ Rows \subseteq Rows' /\ confirmed \subseteq confirmed'
  /\ \A n \in Rows : /\ db'[n].client = db[n].client /\ db'[n].key = db[n].key
                     /\ db[n].state = 0 => db'[n].state = 0

LEMMA Still == UNCHANGED <<db, confirmed>> => Grow
BY DEF Grow, Rows

\* Server steps.
LEMMA PServerStep ==
  ASSUME PInv, UNCHANGED clientVars, UNCHANGED <<alive, cut>>, SInv', AInv', Grow,
         Linked', \A d \in alive : Waits(d)'
  PROVE  PInv'
<1>1. Settled'
  BY DEF PInv, Settled, clientVars, Agreed, Own
<1>2. AgreedKey'
  BY DEF PInv, AgreedKey, Held, clientVars, Grow
<1>3. CheckGenuine' /\ RevokedRows'
  BY DEF PInv, CheckGenuine, RevokedRows, clientVars, Grow
<1>4. (\A d \in alive : Waits(d))'
  OBVIOUS
<1> QED BY <1>1, <1>2, <1>3, <1>4 DEF PInv

\* The answer on its way keeps its meaning.
LEMMA TellsKept ==
  ASSUME NEW d, NEW a, Tells(d, a), Grow, UNCHANGED clientVars, UNCHANGED <<fd, cut>>,
         Drawn(d) => Drawn(d)' \/ d \in cut
  PROVE  Tells(d, a)'
<1>1. Own(d)' = Own(d) /\ Agreed(d)' = Agreed(d)
  BY DEF clientVars, Own, Agreed
<1> QED BY <1>1 DEF Tells, IsRow, Grow, clientVars

LEMMA AsksKept ==
  ASSUME NEW d, NEW r, UNCHANGED clientVars
  PROVE  Asks(d, r)' <=> Asks(d, r)
BY DEF Asks, Own, Agreed, clientVars

\* A client the step is not about.
LEMMA POther ==
  ASSUME PInv, OneThread, NEW w \in Workers, NEW d \in alive,
         UNCHANGED clientVars, UNCHANGED <<fd, alive, cut>>, Grow,
         ~Busy(task[w], d), ~Busy(task[w], d)',
         toServer'[d] = toServer[d], toClient'[d] = toClient[d],
         randomNum'[fd[d]] = randomNum[fd[d]] \/ d \in cut
  PROVE  Waits(d)'
<1>1. Waits(d) /\ Linked
  BY DEF PInv
<1>2. Own(d)' = Own(d)
  BY DEF clientVars, Own
<1>3. Drawn(d) => Drawn(d)' \/ d \in cut
  BY <1>2 DEF Drawn
<1>4. \A r \in Requests : Sends(d, r) /\ toServer[d] = <<r>> => Sends(d, r)'
  <2> SUFFICES ASSUME NEW r \in Requests, Sends(d, r), toServer[d] = <<r>>
               PROVE  Sends(d, r)'
    OBVIOUS
  <2>1. d \notin cut
    BY <1>1, Single DEF Linked
  <2> QED BY <1>3, <2>1, AsksKept DEF Sends
<1>5. \A a \in Answers : Tells(d, a) => Tells(d, a)'
  BY <1>3, TellsKept
<1>6. \A v \in Workers : ~Busy(task[v], d)'
  BY DEF OneThread
<1> QED BY <1>1, <1>4, <1>5, <1>6 DEF Waits

\* Nobody's connection changes when a task ends or goes on.
LEMMA PLinked ==
  ASSUME PInv, OneThread, NEW w \in Workers, UNCHANGED <<fd, alive, cut, toServer>>,
         \/ task'[w].pc = "idle"
         \/ /\ task[w].pc # "idle" /\ task'[w].client = task[w].client
            /\ task'[w].fd = task[w].fd
  PROVE  Linked'
<1>1. \A v \in Workers : v = w
  BY DEF OneThread
<1> QED BY <1>1 DEF PInv, Linked

\* The client whose request a worker handles is there.
LEMMA BusyLive ==
  ASSUME PInv, NEW w \in Workers, NEW d \in alive, Busy(task[w], d)
  PROVE  d \notin cut /\ Handles(d, task[w]) /\ toServer[d] = <<>> /\ toClient[d] = <<>>
BY DEF PInv, Linked, Waits, Busy

\* Another client's connection, and the strings kept for it.
LEMMA OtherStrings ==
  ASSUME PInv, NEW w \in Workers, task[w].pc # "idle", NEW d \in alive, ~Busy(task[w], d),
         \A f \in Fds \ {task[w].fd} : randomNum'[f] = randomNum[f]
  PROVE  randomNum'[fd[d]] = randomNum[fd[d]] \/ d \in cut
<1>1. d \in Clients /\ fd[d] \in Fds
  BY Parts DEF PInv, SInv, WireOK
<1>2. CASE fd[d] # task[w].fd
  BY <1>1, <1>2
<1>3. CASE fd[d] = task[w].fd
  BY <1>3 DEF PInv, Linked, Busy
<1> QED BY <1>2, <1>3

LEMMA PMoved ==
  ASSUME PInv, OneThread, NEW w \in Workers, UNCHANGED clientVars, SInv', AInv', Grow,
         UNCHANGED wireVars, \A f \in Fds \ {task[w].fd} : randomNum'[f] = randomNum[f],
         task[w].pc # "idle", task'[w].pc # "idle",
         task'[w].client = task[w].client, task'[w].fd = task[w].fd,
         \A d \in alive : Busy(task[w], d) /\ Handles(d, task[w]) => Handles(d, task[w])'
  PROVE  PInv'
<1>1. UNCHANGED <<fd, alive, cut, toServer, toClient>>
  BY DEF wireVars
<1>2. Linked'
  BY <1>1, PLinked
<1>3. ASSUME NEW d \in alive PROVE Waits(d)'
  <2>1. Busy(task[w], d)' <=> Busy(task[w], d)
    BY <1>1 DEF Busy
  <2>2. CASE Busy(task[w], d)
    <3>1. Handles(d, task[w])' /\ toServer[d] = <<>> /\ toClient[d] = <<>>
      BY <2>2, BusyLive
    <3>2. \A v \in Workers : v = w
      BY DEF OneThread
    <3> QED BY <1>1, <3>1, <3>2 DEF Waits
  <2>3. CASE ~Busy(task[w], d)
    <3>1. randomNum'[fd[d]] = randomNum[fd[d]] \/ d \in cut
      BY <2>3, OtherStrings
    <3> QED BY <1>1, <2>1, <2>3, <3>1, POther
  <2> QED BY <2>2, <2>3
<1> QED BY <1>1, <1>2, <1>3, PServerStep

LEMMA PReplied ==
  ASSUME PInv, OneThread, NEW w \in Workers, UNCHANGED clientVars, SInv', AInv', Grow,
         \A f \in Fds \ {task[w].fd} : randomNum'[f] = randomNum[f],
         task[w].pc # "idle", NEW rv \in {"SUCCESS", "AUTHERR", "SERVERERR"},
         NEW x \in Randoms, NEW n \in Nat, Reply(w, rv, x, n),
         NEW a, a = Answer(task[w].req.type, rv, x, n),
         \A d \in alive : Busy(task[w], d) /\ Handles(d, task[w]) => Tells(d, a)'
  PROVE  PInv'
<1> DEFINE c == task[w].client
<1>1. TasksOK /\ toClient \in [Clients -> Seq(Answers)] /\ alive \in SUBSET Clients
  BY Parts DEF PInv, SInv, WireOK
<1>2. /\ task'[w] = Idle /\ UNCHANGED <<fd, alive, cut, toServer>>
      /\ toClient' = IF c \in alive \ cut /\ fd[c] = task[w].fd
                     THEN [toClient EXCEPT ![c] = Append(@, a)] ELSE toClient
  BY <1>1 DEF Reply, TasksOK
<1>3. a \in Answers
  <2>1. task[w].req.type \in {"RANDOMNUM", "PREKEY", "KEYCHECK", "KEYREVOKE"}
    BY <1>1, TaskData, RequestData DEF TasksOK
  <2> QED BY <2>1, NewAnswers
<1>4. Linked'
  BY <1>2, PLinked DEF Idle
<1>5. ASSUME NEW d \in alive PROVE Waits(d)'
  <2>1. ~Busy(task[w], d)'
    BY <1>2 DEF Busy, Idle
  <2>2. CASE Busy(task[w], d)
    <3>1. Tells(d, a)' /\ toServer[d] = <<>> /\ toClient[d] = <<>> /\ d \notin cut
      BY <2>2, BusyLive
    <3>2. c = d /\ fd[d] = task[w].fd
      BY <2>2 DEF Busy
    <3> HIDE DEF c
    <3>3. toClient'[d] = Append(<<>>, a)
      BY <1>1, <1>2, <3>1, <3>2
    <3>4. toClient'[d] = <<a>> /\ toServer'[d] = <<>>
      BY <1>2, <3>1, <3>3, Single
    <3>5. \A v \in Workers : ~Busy(task[v], d)'
      BY <2>1 DEF OneThread
    <3> QED BY <1>3, <3>1, <3>4, <3>5 DEF Waits
  <2>3. CASE ~Busy(task[w], d)
    <3>1. randomNum'[fd[d]] = randomNum[fd[d]] \/ d \in cut
      BY <2>3, OtherStrings
    <3>2. ~(c = d /\ fd[d] = task[w].fd)
      BY <2>3 DEF Busy
    <3> HIDE DEF c
    <3>3. toClient'[d] = toClient[d] /\ toServer'[d] = toServer[d]
      BY <1>1, <1>2, <3>2
    <3> QED BY <1>2, <2>1, <2>3, <3>1, <3>3, POther
  <2> QED BY <2>2, <2>3
<1> QED BY <1>2, <1>4, <1>5, PServerStep

\* A refusal means nothing but that the operation was under way.
LEMMA PRefused ==
  ASSUME PInv, OneThread, NEW w \in Workers, UNCHANGED clientVars, SInv', AInv',
         UNCHANGED <<db, confirmed, randomNum>>, task[w].pc # "idle",
         NEW rv \in {"AUTHERR", "SERVERERR"}, Refuse(w, rv)
  PROVE  PInv'
<1>1. Blank \in Randoms /\ 0 \in Nat /\ Grow
  BY KeyData, Still
<1> PICK a : a = Answer(task[w].req.type, rv, Blank, 0)
  OBVIOUS
<1>2. ASSUME NEW d \in alive, Handles(d, task[w])
      PROVE  Tells(d, a)'
  <2>1. pc'[d] \in {"random", "keyid", "check", "revoke"}
    BY <1>2 DEF Handles, Asks, clientVars
  <2>2. a.rv # "SUCCESS"
    BY DEF Answer
  <2> QED BY <2>1, <2>2 DEF Tells
<1> QED BY <1>1, <1>2, PReplied DEF Refuse

LEMMA PTakeRequest ==
  ASSUME PInv, OneThread, NEW w \in Workers, TakeRequest(w), UNCHANGED clientVars
  PROVE  PInv'
<1>1. SInv' /\ AInv' /\ TasksOK /\ toServer \in [Clients -> Seq(Requests)]
      /\ alive \in SUBSET Clients
  BY STakeRequest, ATakeRequest, Parts DEF PInv, SInv, WireOK
<1>2. PICK c \in Clients :
        /\ task[w].pc = "idle" /\ toServer[c] # <<>>
        /\ toServer' = [toServer EXCEPT ![c] = Tail(@)]
        /\ task' = [task EXCEPT ![w] = [Idle EXCEPT !.pc = Head(toServer[c]).type,
                      !.client = c, !.fd = fd[c], !.req = Head(toServer[c])]]
        /\ UNCHANGED <<fd, alive, cut, toClient, randomNum, db, confirmed>>
  BY DEF TakeRequest, historyVars
<1>3. PICK r : r = Head(toServer[c])
  OBVIOUS
<1>4. PICK u : u = [Idle EXCEPT !.pc = r.type, !.client = c, !.fd = fd[c], !.req = r]
  OBVIOUS
<1>5. u.pc = r.type /\ u.client = c /\ u.fd = fd[c] /\ u.req = r
  BY <1>4 DEF Idle
<1>6. task'[w] = u
  BY <1>1, <1>2, <1>3, <1>4 DEF TasksOK
<1>7. \A v \in Workers : v = w
  BY DEF OneThread
<1>8. \A d \in Clients : toServer'[d] = IF d = c THEN Tail(toServer[d]) ELSE toServer[d]
  BY <1>1, <1>2
<1>9. Linked /\ c \notin cut
  BY <1>2 DEF PInv, Linked
<1>10. Linked'
  <2>1. ASSUME NEW d \in alive \ cut, d # c PROVE fd[d] # fd[c]
    BY <1>1, <1>2, <1>9, <2>1 DEF Linked
  <2>2. \A e \in Clients : toServer[e] = <<>> => toServer'[e] = <<>>
    BY <1>2, <1>8
  <2>3. (\A d \in cut : toServer[d] = <<>> /\ \A v \in Workers :
           task[v].pc # "idle" => task[v].client # d)'
    BY <1>1, <1>2, <1>5, <1>6, <1>7, <1>9, <2>2, Parts DEF PInv, SInv, WireOK, Linked
  <2>4. \A d \in alive \ cut : \A e \in Clients \ {d} :
          fd[e] = fd[d] => e \notin alive \ cut /\ toServer'[e] = <<>>
    BY <1>1, <1>9, <2>2 DEF Linked
  <2>5. \A d \in alive \ cut : u.fd = fd[d] => u.client = d
    BY <1>5, <2>1
  <2> QED BY <1>2, <1>6, <1>7, <2>3, <2>4, <2>5 DEF Linked
<1>11. Grow
  BY <1>2, Still
<1>12. ASSUME NEW d \in alive PROVE Waits(d)'
  <2>1. CASE d = c
    <3>1. Waits(c)
      BY <2>1 DEF PInv
    <3>2. Sends(c, r) /\ toServer[c] = <<r>> /\ toClient[c] = <<>> /\ r \in Requests
      BY <1>2, <1>3, <3>1, Single DEF Waits
    <3>3. toServer'[c] = <<>> /\ toClient'[c] = <<>>
      BY <1>1, <1>2, <1>8, <3>2, Single
    <3>4. r.type \in {"RANDOMNUM", "PREKEY", "KEYCHECK", "KEYREVOKE"}
      BY <3>2, RequestData
    <3>5. Own(c)' = Own(c)
      BY DEF Own, clientVars
    <3>6. Asks(c, u.req)' /\ (u.pc = "PREKEY" => Drawn(c)')
      BY <1>2, <1>5, <3>2, <3>5, AsksKept DEF Sends, Drawn
    <3>7. Handles(c, task[w])'
      BY <1>5, <1>6, <3>4, <3>6 DEF Handles
    <3> QED BY <1>7, <2>1, <3>3, <3>7 DEF Waits
  <2>2. CASE d # c
    <3>1. ~Busy(task[w], d) /\ ~Busy(task[w], d)'
      BY <1>2, <1>5, <1>6, <2>2 DEF Busy
    <3>2. toServer'[d] = toServer[d]
      BY <1>1, <1>8, <2>2
    <3> QED BY <1>2, <1>11, <3>1, <3>2, POther
  <2> QED BY <2>1, <2>2
<1> QED BY <1>1, <1>2, <1>10, <1>11, <1>12, PServerStep

LEMMA PRandomNum ==
  ASSUME PInv, OneThread, NEW w \in Workers, RandomNum(w), UNCHANGED clientVars
  PROVE  PInv'
<1> DEFINE t == task[w]
<1>1. SInv' /\ AInv' /\ TasksOK /\ t \in Tasks /\ Fits(t) /\ t.pc = "RANDOMNUM"
      /\ randomNum \in [Fds -> [cr : Randoms, sr : Randoms]] /\ fd \in [Clients -> Fds]
  BY SRandomNum, ARandomNum, Parts DEF PInv, SInv, TasksOK, ServerData, RandomNum, WireOK
<1>2. t.req.type = "RANDOMNUM" /\ t.req.random \in Randoms /\ t.fd \in Fds
  BY <1>1, TaskData, RequestData DEF Fits
<1>3. /\ Reply(w, "SUCCESS", t.req.random, 0) /\ Grow
      /\ randomNum' = [randomNum EXCEPT ![t.fd] = [cr |-> t.req.random, sr |-> t.req.random]]
      /\ UNCHANGED <<fd, alive, cut>>
  BY Still DEF RandomNum, historyVars, Reply
<1> PICK a : a = Answer(task[w].req.type, "SUCCESS", task[w].req.random, 0)
  OBVIOUS
<1>4. ASSUME NEW d \in alive, Busy(t, d), Handles(d, t) PROVE Tells(d, a)'
  <2>1. pc[d] = "random" /\ t.req.random = Own(d) /\ t.fd = fd[d]
    BY <1>2, <1>4 DEF Handles, Asks, Busy
  <2>2. pc'[d] = "random" /\ Own(d)' = Own(d)
    BY <2>1 DEF clientVars, Own
  <2>3. randomNum'[fd[d]] = [cr |-> Own(d), sr |-> Own(d)]
    BY <1>1, <1>2, <1>3, <2>1
  <2>4. a.random = Own(d)
    BY <2>1 DEF Answer
  <2> QED BY <1>3, <2>2, <2>3, <2>4 DEF Tells, Drawn
<1>5. \A f \in Fds \ {t.fd} : randomNum'[f] = randomNum[f]
  BY <1>1, <1>3
<1>6. 0 \in Nat /\ "SUCCESS" \in {"SUCCESS", "AUTHERR", "SERVERERR"}
  OBVIOUS
<1> QED BY <1>1, <1>2, <1>3, <1>4, <1>5, <1>6, PReplied

LEMMA PPremaster ==
  ASSUME PInv, OneThread, NEW w \in Workers, Premaster(w), UNCHANGED clientVars
  PROVE  PInv'
<1> DEFINE t == task[w]
<1>1. SInv' /\ AInv' /\ TasksOK /\ t \in Tasks /\ Fits(t) /\ t.pc = "PREKEY"
      /\ randomNum \in [Fds -> [cr : Randoms, sr : Randoms]]
  BY SPremaster, APremaster, Parts DEF PInv, SInv, TasksOK, ServerData, Premaster
<1>2. t.req.type = "PREKEY" /\ t.fd \in Fds
  BY <1>1 DEF Fits
<1> PICK k : k = Key(randomNum[t.fd].cr, randomNum[t.fd].sr, t.req.pm)
  OBVIOUS
<1> PICK u : u = [t EXCEPT !.pc = "mac", !.key = k, !.hmac = Head(hmacs)]
  OBVIOUS
<1>3. /\ task' = [task EXCEPT ![w].pc = "mac", ![w].key = k, ![w].hmac = Head(hmacs)]
      /\ randomNum' = [randomNum EXCEPT ![t.fd] = [cr |-> Blank, sr |-> Blank]]
      /\ UNCHANGED wireVars /\ Grow
  BY Still DEF Premaster, historyVars
<1>4. task'[w] = u
  BY <1>1, <1>3 DEF TasksOK
<1>5. u.pc = "mac" /\ u.key = k /\ u.req = t.req /\ u.client = t.client /\ u.fd = t.fd
  BY <1>1 DEF Tasks
<1>6. ASSUME NEW d \in alive, Busy(t, d), Handles(d, t) PROVE Handles(d, task[w])'
  <2>1. Asks(d, t.req) /\ Drawn(d) /\ t.fd = fd[d]
    BY <1>1, <1>6 DEF Handles, Busy
  <2>2. t.req.pm = Own(d)
    BY <1>2, <2>1 DEF Asks
  <2>3. k = Agreed(d)
    BY <2>1, <2>2 DEF Agreed, Drawn
  <2>4. Agreed(d)' = Agreed(d)
    BY DEF Agreed, Own, clientVars
  <2>5. Asks(d, u.req)'
    BY <1>5, <2>1, AsksKept
  <2> QED BY <1>4, <1>5, <2>3, <2>4, <2>5 DEF Handles
<1>7. \A f \in Fds \ {t.fd} : randomNum'[f] = randomNum[f]
  BY <1>1, <1>3
<1> QED BY <1>1, <1>3, <1>4, <1>5, <1>6, <1>7, PMoved

\* A task that goes on with the same request and, in a key agreement, with
\* the key it has.
LEMMA PGoes ==
  ASSUME PInv, OneThread, NEW w \in Workers, UNCHANGED clientVars, SInv', AInv', Grow,
         UNCHANGED <<wireVars, randomNum>>, NEW u, task'[w] = u,
         u.client = task[w].client, u.fd = task[w].fd, u.req = task[w].req,
         u.pc \in {"mac", "insert", "lastid", "write", "find", "status", "state"},
         task[w].pc # "idle",
         u.req.type = "PREKEY" =>
           task[w].pc \in {"mac", "insert", "lastid"} /\ u.key = task[w].key
  PROVE  PInv'
<1>1. ASSUME NEW d \in alive, Handles(d, task[w]) PROVE Handles(d, task[w])'
  <2>1. Asks(d, u.req)' /\ Agreed(d)' = Agreed(d)
    BY <1>1, AsksKept DEF Handles, Agreed, Own, clientVars
  <2>2. u.req.type = "PREKEY" => u.key = Agreed(d)
    BY <1>1 DEF Handles
  <2> QED BY <2>1, <2>2 DEF Handles
<1> QED BY <1>1, PMoved

LEMMA PQuery ==
  ASSUME PInv, OneThread, NEW w \in Workers, Query(w), UNCHANGED clientVars
  PROVE  PInv'
<1> DEFINE t == task[w]
<1>1. /\ SInv' /\ AInv' /\ TasksOK /\ t \in Tasks /\ Fits(t)
      /\ t.pc \in {"KEYCHECK", "KEYREVOKE"} /\ UNCHANGED <<db, confirmed, randomNum>>
  BY SQuery, AQuery, Parts DEF PInv, SInv, TasksOK, Query, historyVars
<1>2. t.req.type # "PREKEY" /\ Grow
  BY <1>1, Still DEF Fits
<1> PICK u : u = [t EXCEPT !.pc = "mac", !.key = db[t.req.id].key,
                    !.hmac = Head(hmacs), !.conn = Head(conns)]
  OBVIOUS
<1>3. CASE /\ UNCHANGED wireVars
           /\ task' = [task EXCEPT ![w].pc = "mac", ![w].key = db[t.req.id].key,
                         ![w].hmac = Head(hmacs), ![w].conn = Head(conns)]
  <2>1. task'[w] = u
    BY <1>1, <1>3 DEF TasksOK
  <2>2. u.pc = "mac" /\ u.req = t.req /\ u.client = t.client /\ u.fd = t.fd
    BY <1>1 DEF Tasks
  <2>3. t.pc # "idle" /\ u.req.type # "PREKEY"
    BY <1>1, <1>2, <2>2
  <2> QED BY <1>1, <1>2, <1>3, <2>1, <2>2, <2>3, PGoes
<1>4. CASE Refuse(w, "AUTHERR")
  BY <1>1, <1>4, PRefused
<1> QED BY <1>3, <1>4 DEF Query

LEMMA PMac ==
  ASSUME PInv, OneThread, NEW w \in Workers, Mac(w), UNCHANGED clientVars
  PROVE  PInv'
<1> DEFINE t == task[w]
<1>1. /\ SInv' /\ AInv' /\ TasksOK /\ t \in Tasks /\ Fits(t) /\ t.pc = "mac"
      /\ UNCHANGED <<db, confirmed, randomNum>> /\ Grow
  BY SMac, AMac, Parts, Still DEF PInv, SInv, TasksOK, Mac, historyVars
<1> PICK p : p = CASE t.req.type = "PREKEY"    -> "insert"
                   [] t.req.type = "KEYCHECK"  -> "write"
                   [] t.req.type = "KEYREVOKE" -> "find"
  OBVIOUS
<1> PICK u : u = [t EXCEPT !.pc = p]
  OBVIOUS
<1>2. CASE Goto(w, p) /\ UNCHANGED wireVars
  <2>1. t.req.type \in {"PREKEY", "KEYCHECK", "KEYREVOKE"}
    BY <1>1, TaskData, RequestData DEF Fits
  <2>2. p \in {"insert", "write", "find"}
    BY <2>1
  <2>3. task'[w] = u
    BY <1>1, <1>2 DEF Goto, TasksOK
  <2>4. u.pc = p /\ u.req = t.req /\ u.client = t.client /\ u.fd = t.fd /\ u.key = t.key
    BY <1>1 DEF Tasks
  <2>5. u.pc \in {"mac", "insert", "lastid", "write", "find", "status", "state"}
    BY <2>2, <2>4
  <2> HIDE DEF t
  <2>6. UNCHANGED <<wireVars, randomNum>> /\ task[w].pc = "mac"
    BY <1>1, <1>2 DEF t
  <2>7. u.req = task[w].req /\ u.client = task[w].client /\ u.fd = task[w].fd
        /\ u.key = task[w].key
    BY <2>4 DEF t
  <2> QED BY <1>1, <2>3, <2>5, <2>6, <2>7, PGoes
<1>3. CASE Refuse(w, "AUTHERR")
  BY <1>1, <1>3, PRefused
<1> QED BY <1>2, <1>3 DEF Mac

LEMMA PInsert ==
  ASSUME PInv, OneThread, NEW w \in Workers, Insert(w), UNCHANGED clientVars
  PROVE  PInv'
<1> DEFINE t == task[w]
           R == [client : Clients, key : Keys, state : {0, 1}]
<1>1. /\ SInv' /\ AInv' /\ TasksOK /\ ServerData /\ t \in Tasks /\ Fits(t) /\ t.pc = "insert"
      /\ UNCHANGED <<confirmed, randomNum>>
  BY SInsert, AInsert, Parts DEF PInv, SInv, TasksOK, Insert, historyVars
<1>2. t.client \in Clients /\ t.key \in Keys
  BY <1>1, TaskData DEF Fits
<1> PICK row : row = [client |-> t.client, key |-> t.key, state |-> 1]
  OBVIOUS
<1> PICK u : u = [t EXCEPT !.pc = "lastid", !.conn = Head(conns)]
  OBVIOUS
<1>3. CASE /\ db' = Append(db, row) /\ UNCHANGED wireVars
           /\ task' = [task EXCEPT ![w].pc = "lastid", ![w].conn = Head(conns)]
  <2>1. db \in Seq(R) /\ row \in R
    BY <1>1, <1>2 DEF ServerData
  <2> HIDE DEF R
  <2>2. Rows = 1..Len(db) /\ Rows' = 1..(Len(db) + 1) /\ Len(db) \in Nat
        /\ \A n \in Rows : db'[n] = db[n]
    BY <1>3, <2>1 DEF Rows
  <2>3. Grow
    BY <1>1, <2>2 DEF Grow
  <2>4. task'[w] = u
    BY <1>1, <1>3 DEF TasksOK
  <2>5. u.pc = "lastid" /\ u.req = t.req /\ u.client = t.client /\ u.fd = t.fd /\ u.key = t.key
    BY <1>1 DEF Tasks
  <2> QED BY <1>1, <1>3, <2>3, <2>4, <2>5, PGoes
<1>4. CASE Refuse(w, "SERVERERR") /\ UNCHANGED db
  BY <1>1, <1>4, PRefused
<1> QED BY <1>3, <1>4 DEF Insert

LEMMA PLastInsertId ==
  ASSUME PInv, OneThread, NEW w \in Workers, LastInsertId(w), UNCHANGED clientVars
  PROVE  PInv'
<1> DEFINE t == task[w]
<1>1. /\ SInv' /\ AInv' /\ TasksOK /\ t \in Tasks /\ t.pc = "lastid"
      /\ UNCHANGED <<db, confirmed, randomNum>> /\ Grow
  BY SLastInsertId, ALastInsertId, Parts, Still
     DEF PInv, SInv, TasksOK, LastInsertId, historyVars
<1> PICK n : n = lastId[t.conn]
  OBVIOUS
<1> PICK u : u = [t EXCEPT !.pc = "write", !.id = n]
  OBVIOUS
<1>2. CASE task' = [task EXCEPT ![w].pc = "write", ![w].id = n] /\ UNCHANGED wireVars
  <2>1. task'[w] = u
    BY <1>1, <1>2 DEF TasksOK
  <2>2. u.pc = "write" /\ u.req = t.req /\ u.client = t.client /\ u.fd = t.fd /\ u.key = t.key
    BY <1>1 DEF Tasks
  <2> QED BY <1>1, <1>2, <2>1, <2>2, PGoes
<1>3. CASE Refuse(w, "SERVERERR")
  BY <1>1, <1>3, PRefused
<1> QED BY <1>2, <1>3 DEF LastInsertId

LEMMA PShmWrite ==
  ASSUME PInv, OneThread, NEW w \in Workers, ShmWrite(w), UNCHANGED clientVars
  PROVE  PInv'
<1> DEFINE t == task[w]
<1>1. /\ SInv' /\ AInv' /\ t \in Tasks /\ Fits(t) /\ HasRow(t) /\ t.pc = "write"
      /\ UNCHANGED <<db, randomNum>>
  BY SShmWrite, AShmWrite, Parts DEF PInv, SInv, TasksOK, ShmWrite
<1>2. t.req.type \in {"PREKEY", "KEYCHECK"} /\ IsRow(Target(t), t.client, t.key)
  BY <1>1 DEF Fits, HasRow
<1>3. PICK n : n = IF t.req.type = "PREKEY" THEN t.id ELSE t.req.id
  OBVIOUS
<1>4. PICK m : m = IF t.req.type = "PREKEY" THEN n ELSE 0
  OBVIOUS
<1>5. CASE /\ Reply(w, "SUCCESS", Blank, m)
           /\ confirmed' = IF t.req.type = "KEYCHECK" THEN confirmed \cup {n} ELSE confirmed
  <2> PICK a : a = Answer(task[w].req.type, "SUCCESS", Blank, m)
    OBVIOUS
  <2>1. Grow
    BY <1>1, <1>5 DEF Grow, Rows
  <2>2. ASSUME NEW d \in alive, Busy(t, d), Handles(d, t) PROVE Tells(d, a)'
    <3>1. Asks(d, t.req) /\ t.client = d
      BY <2>2 DEF Handles, Busy
    <3>2. CASE t.req.type = "PREKEY"
      <4>1. pc[d] = "keyid" /\ t.key = Agreed(d)
        BY <1>1, <2>2, <3>1, <3>2 DEF Asks, Handles
      <4>2. IsRow(a.id, d, Agreed(d))
        BY <1>2, <1>3, <1>4, <3>1, <3>2, <4>1 DEF Answer, Target
      <4>3. pc'[d] = "keyid" /\ Agreed(d)' = Agreed(d)
        BY <4>1 DEF clientVars, Agreed, Own
      <4> QED BY <1>1, <4>2, <4>3 DEF Tells, IsRow, Rows
    <3>3. CASE t.req.type = "KEYCHECK"
      <4>1. pc[d] = "check" /\ t.req.id = cshm[d].id
        BY <3>1, <3>3 DEF Asks
      <4> QED BY <1>3, <1>5, <3>3, <4>1 DEF Tells, clientVars
    <3> QED BY <1>2, <3>2, <3>3
  <2>3. Blank \in Randoms /\ m \in Nat
    BY <1>1, <1>3, <1>4, KeyData, TaskData
  <2> HIDE DEF t
  <2>4. task[w].pc # "idle" /\ \A f \in Fds \ {task[w].fd} : randomNum'[f] = randomNum[f]
    BY <1>1 DEF t
  <2>5. \A d \in alive : Busy(task[w], d) /\ Handles(d, task[w]) => Tells(d, a)'
    BY <2>2 DEF t
  <2> QED BY <1>1, <1>5, <2>1, <2>3, <2>4, <2>5, PReplied
<1>6. CASE Refuse(w, "SERVERERR") /\ UNCHANGED confirmed
  BY <1>1, <1>6, PRefused
<1> QED BY <1>3, <1>4, <1>5, <1>6 DEF ShmWrite

LEMMA PFindSlot ==
  ASSUME PInv, OneThread, NEW w \in Workers, FindSlot(w), UNCHANGED clientVars
  PROVE  PInv'
<1> DEFINE t == task[w]
<1>1. /\ SInv' /\ AInv' /\ TasksOK /\ t \in Tasks /\ Fits(t) /\ t.pc = "find" /\ Grow
      /\ UNCHANGED <<wireVars, randomNum>>
  BY SFindSlot, AFindSlot, Parts, Still DEF PInv, SInv, TasksOK, FindSlot, historyVars
<1>2. t.req.type # "PREKEY"
  BY <1>1 DEF Fits
<1> PICK i : i = FirstOf({j \in 1..MaxNode : shm[j].id = t.req.id})
  OBVIOUS
<1> PICK u : u = [t EXCEPT !.pc = "status", !.slot = i]
  OBVIOUS
<1> PICK v : v = [t EXCEPT !.pc = "state"]
  OBVIOUS
<1>3. CASE task' = [task EXCEPT ![w].pc = "status", ![w].slot = i]
  <2>1. task'[w] = u
    BY <1>1, <1>3 DEF TasksOK
  <2>2. u.pc = "status" /\ u.req = t.req /\ u.client = t.client /\ u.fd = t.fd
    BY <1>1 DEF Tasks
  <2>3. u.req.type # "PREKEY" /\ t.pc # "idle"
    BY <1>1, <1>2, <2>2
  <2>4. u.pc \in {"mac", "insert", "lastid", "write", "find", "status", "state"}
    BY <2>2
  <2> QED BY <1>1, <2>1, <2>2, <2>3, <2>4, PGoes
<1>4. CASE Goto(w, "state")
  <2>1. task'[w] = v
    BY <1>1, <1>4 DEF Goto, TasksOK
  <2>2. v.pc = "state" /\ v.req = t.req /\ v.client = t.client /\ v.fd = t.fd
    BY <1>1 DEF Tasks
  <2>3. v.req.type # "PREKEY" /\ t.pc # "idle"
    BY <1>1, <1>2, <2>2
  <2>4. v.pc \in {"mac", "insert", "lastid", "write", "find", "status", "state"}
    BY <2>2
  <2> QED BY <1>1, <2>1, <2>2, <2>3, <2>4, PGoes
<1> QED BY <1>3, <1>4 DEF FindSlot

LEMMA PSetStatus ==
  ASSUME PInv, OneThread, NEW w \in Workers, SetStatus(w), UNCHANGED clientVars
  PROVE  PInv'
<1> DEFINE t == task[w]
<1>1. /\ SInv' /\ AInv' /\ TasksOK /\ t \in Tasks /\ Fits(t) /\ t.pc = "status" /\ Grow
      /\ UNCHANGED <<wireVars, randomNum>> /\ Goto(w, "state")
  BY SSetStatus, ASetStatus, Parts, Still DEF PInv, SInv, TasksOK, SetStatus, historyVars
<1>2. t.req.type # "PREKEY"
  BY <1>1 DEF Fits
<1> PICK v : v = [t EXCEPT !.pc = "state"]
  OBVIOUS
<1>3. task'[w] = v
  BY <1>1 DEF Goto, TasksOK
<1>4. v.pc = "state" /\ v.req = t.req /\ v.client = t.client /\ v.fd = t.fd
  BY <1>1 DEF Tasks
<1>5. v.req.type # "PREKEY" /\ t.pc # "idle"
  BY <1>1, <1>2, <1>4
<1>6. v.pc \in {"mac", "insert", "lastid", "write", "find", "status", "state"}
  BY <1>4
<1> QED BY <1>1, <1>3, <1>4, <1>5, <1>6, PGoes

LEMMA PUpdateState ==
  ASSUME PInv, OneThread, NEW w \in Workers, UpdateState(w), UNCHANGED clientVars
  PROVE  PInv'
<1> DEFINE t == task[w]
<1>1. /\ SInv' /\ AInv' /\ t \in Tasks /\ Fits(t) /\ t.pc = "state" /\ ServerData
      /\ UNCHANGED <<confirmed, randomNum>>
  BY SUpdateState, AUpdateState, Parts DEF PInv, SInv, TasksOK, UpdateState, historyVars
<1>2. t.req.type = "KEYREVOKE"
  BY <1>1 DEF Fits
<1>3. CASE db' = [db EXCEPT ![t.req.id].state = 0] /\ Reply(w, "SUCCESS", Blank, 0)
  <2> PICK a : a = Answer(task[w].req.type, "SUCCESS", Blank, 0)
    OBVIOUS
  <2>1. Rows' = Rows
    BY <1>3 DEF Rows
  <2>2. \A n \in Rows : /\ db'[n].client = db[n].client /\ db'[n].key = db[n].key
                        /\ db'[n].state = IF n = t.req.id THEN 0 ELSE db[n].state
    <3>1. \A n \in Rows : db[n] \in [client : Clients, key : Keys, state : {0, 1}]
      BY <1>1, RowData DEF Rows
    <3> QED BY <1>3, <3>1 DEF Rows
  <2>3. Grow
    BY <1>1, <2>1, <2>2 DEF Grow
  <2>4. ASSUME NEW d \in alive, Busy(t, d), Handles(d, t) PROVE Tells(d, a)'
    <3>1. pc[d] = "revoke" /\ t.req.id = cshm[d].id /\ d \in Clients
      BY <1>2, <2>4, Parts DEF Handles, Asks, PInv, SInv, WireOK
    <3>2. cshm[d].id \in Rows
      BY <3>1 DEF PInv, Settled, AgreedKey, Held
    <3>3. cshm[d].id \in Rows' /\ db'[cshm[d].id].state = 0
      BY <2>1, <2>2, <3>1, <3>2
    <3> QED BY <3>1, <3>3 DEF Tells, clientVars
  <2>5. Blank \in Randoms /\ 0 \in Nat
    BY KeyData
  <2> HIDE DEF t
  <2>6. task[w].pc # "idle" /\ \A f \in Fds \ {task[w].fd} : randomNum'[f] = randomNum[f]
    BY <1>1 DEF t
  <2>7. \A d \in alive : Busy(task[w], d) /\ Handles(d, task[w]) => Tells(d, a)'
    BY <2>4 DEF t
  <2> QED BY <1>1, <1>3, <2>3, <2>5, <2>6, <2>7, PReplied
<1>4. CASE Refuse(w, "SERVERERR") /\ UNCHANGED db
  BY <1>1, <1>4, PRefused
<1>5. CASE NoCommit /\ Reply(w, "SUCCESS", Blank, 0) /\ UNCHANGED db
  <2> PICK a : a = Answer(task[w].req.type, "SUCCESS", Blank, 0)
    OBVIOUS
  <2>1. Grow
    BY <1>1, <1>5, Still
  <2>2. ASSUME NEW d \in alive, Busy(t, d), Handles(d, t) PROVE Tells(d, a)'
    <3>1. pc[d] = "revoke" /\ d \in Clients
      BY <1>2, <2>2, Parts DEF Handles, Asks, PInv, SInv, WireOK
    <3>2. cshm[d].id \in Rows'
      BY <1>5, <3>1 DEF PInv, Settled, AgreedKey, Held, Rows
    <3> QED BY <1>5, <3>1, <3>2 DEF Tells, clientVars, NoCommit
  <2>3. Blank \in Randoms /\ 0 \in Nat
    BY KeyData
  <2> HIDE DEF t
  <2>4. task[w].pc # "idle" /\ \A f \in Fds \ {task[w].fd} : randomNum'[f] = randomNum[f]
    BY <1>1 DEF t
  <2>5. \A d \in alive : Busy(task[w], d) /\ Handles(d, task[w]) => Tells(d, a)'
    BY <2>2 DEF t
  <2> QED BY <1>1, <1>5, <2>1, <2>3, <2>4, <2>5, PReplied
<1> QED BY <1>3, <1>4, <1>5 DEF UpdateState

\* A restarted server has no request of a client's, and the answers on their
\* way are as true as they were.
LEMMA PRestart ==
  ASSUME PInv, OneThread, Restart, UNCHANGED clientVars
  PROVE  PInv'
<1>1. SInv' /\ AInv' /\ Grow /\ UNCHANGED <<fd, alive>> /\ cut' = alive
      /\ alive \in SUBSET Clients
  BY SRestart, ARestart, Still, Parts DEF PInv, SInv, Restart, WireOK
<1>2. /\ \A w \in Workers : task'[w].pc = "idle"
      /\ \A d \in Clients : toServer'[d] = <<>>
  BY DEF Restart, AllIdle, Idle
<1>3. Linked'
  BY <1>1, <1>2 DEF Linked
<1>4. Settled'
  BY <1>1 DEF PInv, Settled, clientVars, Agreed, Own
<1>5. AgreedKey'
  BY <1>1 DEF PInv, AgreedKey, Held, clientVars, Grow
<1>6. CheckGenuine' /\ RevokedRows'
  BY <1>1 DEF PInv, CheckGenuine, RevokedRows, clientVars, Grow
<1>7. ASSUME NEW d \in alive PROVE Waits(d)'
  <2>1. Waits(d) /\ d \in Clients
    BY <1>1 DEF PInv
  <2>2. toClient'[d] = toClient[d] \/ toClient'[d] = <<>>
    BY <2>1 DEF Restart
  <2>3. Own(d)' = Own(d) /\ Agreed(d)' = Agreed(d)
    BY DEF clientVars, Own, Agreed
  <2>4. \A a \in Answers : Tells(d, a) => Tells(d, a)'
    BY <1>1, <2>3 DEF Tells, IsRow, Grow, clientVars
  <2>5. toClient'[d] = <<>> \/ \E a \in Answers : Tells(d, a)' /\ toClient'[d] = <<a>>
    BY <2>1, <2>2, <2>4 DEF Waits
  <2>6. \A w \in Workers : ~Busy(task[w], d)'
    BY <1>2 DEF Busy
  <2> QED BY <1>2, <2>1, <2>5, <2>6 DEF Waits
<1>8. (\A d \in alive : Waits(d))'
  BY <1>1, <1>7
<1> QED BY <1>1, <1>3, <1>4, <1>5, <1>6, <1>8 DEF PInv

\* Client steps.  One that keeps the client on its connection.
Same(d) == /\ pc'[d] = pc[d] /\ ops'[d] = ops[d] /\ mine'[d] = mine[d]
           /\ cshm'[d] = cshm[d] /\ verdict'[d] = verdict[d]

Truthful(c) ==
  /\ pc[c] \in {"check", "revoke"} => cshm[c].status = 1
  /\ pc[c] = "keyid" => mine[c] = Agreed(c)
  /\ cshm[c].status = 1 => IsRow(cshm[c].id, c, cshm[c].key)
  /\ verdict[c].op = "check" /\ verdict[c].ok => verdict[c].id \in confirmed \/ c \in cut
  /\ verdict[c].op = "revoke" /\ verdict[c].ok =>
       verdict[c].id \in Rows /\ (db[verdict[c].id].state = 0 \/ CommitFails)

LEMMA Truth ==
  Settled /\ AgreedKey /\ CheckGenuine /\ RevokedRows /\ alive \in SUBSET Clients
    => \A c \in alive : Truthful(c)
BY DEF Settled, AgreedKey, CheckGenuine, RevokedRows, Held, Truthful, IsRow

LEMMA StayedWaits ==
  ASSUME NEW d \in alive, Waits(d), UNCHANGED <<randomNum, db, confirmed, task>>,
         Same(d), fd'[d] = fd[d], toServer'[d] = toServer[d], toClient'[d] = toClient[d],
         d \in cut' <=> d \in cut
  PROVE  Waits(d)'
<1>1. Own(d)' = Own(d) /\ Agreed(d)' = Agreed(d) /\ (Drawn(d)' <=> Drawn(d))
  BY DEF Same, Own, Agreed, Drawn
<1>2. \A r : Asks(d, r)' <=> Asks(d, r)
  BY <1>1 DEF Same, Asks
<1>3. \A r \in Requests : Sends(d, r) => Sends(d, r)'
  BY <1>1, <1>2 DEF Sends
<1>4. \A a \in Answers : Tells(d, a) => Tells(d, a)'
  BY <1>1 DEF Same, Tells, IsRow, Rows
<1>5. \A w \in Workers : Busy(task[w], d)' => Busy(task[w], d)
  BY DEF Busy
<1>6. \A w \in Workers : Handles(d, task[w]) => Handles(d, task[w])'
  BY <1>1, <1>2 DEF Handles
<1> QED BY <1>3, <1>4, <1>5, <1>6 DEF Waits

LEMMA PClientStep ==
  ASSUME PInv, NEW c \in alive, UNCHANGED serverVars, UNCHANGED <<fd, alive, cut>>,
         SInv', AInv',
         \A d \in Clients \ {c} : Same(d) /\ toServer'[d] = toServer[d] /\ toClient'[d] = toClient[d],
         c \in cut => toServer'[c] = <<>>,
         Waits(c)', Truthful(c)'
  PROVE  PInv'
<1>1. /\ UNCHANGED <<randomNum, db, task, confirmed>>
      /\ alive \in SUBSET Clients /\ cut \in SUBSET alive
  BY Parts DEF serverVars, historyVars, PInv, SInv, WireOK
<1>2. Linked'
  <2>1. \A e \in Clients : e # c => toServer'[e] = toServer[e]
    OBVIOUS
  <2>2. Linked
    BY DEF PInv
  <2>3. ASSUME NEW d \in alive \ cut, NEW e \in Clients \ {d}, fd[e] = fd[d]
        PROVE  e \notin alive \ cut /\ toServer'[e] = <<>>
    BY <1>1, <2>1, <2>2, <2>3 DEF Linked
  <2>4. ASSUME NEW e \in cut PROVE toServer'[e] = <<>>
    BY <1>1, <2>1, <2>2 DEF Linked
  <2> QED BY <1>1, <2>2, <2>3, <2>4 DEF Linked
<1>3. \A d \in Clients \ {c} : Own(d)' = Own(d) /\ Agreed(d)' = Agreed(d)
  BY DEF Same, Own, Agreed
<1>4. Settled'
  BY <1>1, <1>3 DEF PInv, Settled, Same, Truthful
<1>5. AgreedKey'
  BY <1>1 DEF PInv, AgreedKey, Held, Same, Truthful, IsRow, Rows
<1>6. CheckGenuine' /\ RevokedRows'
  BY <1>1 DEF PInv, CheckGenuine, RevokedRows, Same, Truthful, Rows
<1>7. ASSUME NEW d \in alive, d # c PROVE Waits(d)'
  BY <1>1, <1>7, StayedWaits DEF PInv
<1>8. (\A d \in alive : Waits(d))'
  BY <1>7
<1> QED BY <1>2, <1>4, <1>5, <1>6, <1>8 DEF PInv

\* Nothing is under way for a client at its menu.
LEMMA AtMenu ==
  ASSUME PInv, NEW c \in alive, pc[c] = "menu"
  PROVE  /\ toServer[c] = <<>> /\ toClient[c] = <<>>
         /\ \A w \in Workers : ~Busy(task[w], c)
<1>1. Waits(c)
  BY DEF PInv
<1>2. \A r : ~Asks(c, r) /\ ~Tells(c, r)
  BY DEF Asks, Tells
<1> QED BY <1>1, <1>2 DEF Waits, Sends, Handles

LEMMA PBegin ==
  ASSUME PInv, NEW c \in Clients, NEW op, NEW next \in {"random", "check", "revoke"},
         NEW req \in Requests, Begin(c, op, next, req), UNCHANGED serverVars, SInv', AInv',
         Asks(c, req)', req.type # "PREKEY",
         next \in {"check", "revoke"} => cshm[c].status = 1
  PROVE  PInv'
<1>1. /\ ClientOK /\ toServer \in [Clients -> Seq(Requests)] /\ alive \in SUBSET Clients
      /\ UNCHANGED <<randomNum, db, task, confirmed>>
  BY Parts DEF PInv, SInv, WireOK, serverVars, historyVars
<1>2. /\ c \in alive /\ pc[c] = "menu" /\ Send(c, req)
      /\ ops' = [ops EXCEPT ![c] = @ + 1] /\ pc' = [pc EXCEPT ![c] = next]
      /\ UNCHANGED <<fd, alive, cut, toClient, mine, cshm, verdict, lives>>
  BY DEF Begin
<1>3. /\ toServer[c] = <<>> /\ toClient[c] = <<>> /\ \A w \in Workers : ~Busy(task[w], c)
  BY <1>2, AtMenu
<1>4. \A d \in Clients \ {c} : Same(d) /\ toServer'[d] = toServer[d]
  BY <1>1, <1>2 DEF ClientOK, Same, Send
<1>5. toServer'[c] = IF c \in cut THEN <<>> ELSE <<req>>
  BY <1>1, <1>2, <1>3, Single DEF Send
<1>6. Sends(c, req)'
  BY DEF Sends
<1>7. \A w \in Workers : ~Busy(task[w], c)'
  BY <1>1, <1>2, <1>3 DEF Busy
<1>8. Waits(c)'
  BY <1>2, <1>3, <1>5, <1>6, <1>7 DEF Waits
<1>9. pc'[c] = next
  BY <1>1, <1>2 DEF ClientOK
<1>10. Truthful(c)
  BY <1>1, <1>2, Truth DEF PInv
<1>11. Truthful(c)'
  BY <1>1, <1>2, <1>9, <1>10 DEF Truthful, IsRow, Rows
<1> QED BY <1>1, <1>2, <1>4, <1>5, <1>8, <1>11, PClientStep

LEMMA PBegins ==
  ASSUME PInv, NEW c \in Clients, Begins(c), UNCHANGED serverVars
  PROVE  PInv'
<1>1. /\ SInv' /\ AInv' /\ ClientOK /\ cshm[c].id \in Nat /\ cshm[c].key \in Keys
      /\ ops[c] \in 0..MaxOps
  BY SBegins, ABegins, Parts DEF PInv, SInv, ClientOK
<1>2. CASE BeginAgree(c)
  <2>1. PICK r : r = [type |-> "RANDOMNUM", random |-> <<c, ops[c] + 1>>]
    OBVIOUS
  <2>2. Begin(c, "agree", "random", r)
    BY <1>2, <2>1 DEF BeginAgree
  <2>3. ops[c] + 1 \in 1..MaxOps
    BY <1>1, <2>2, WireAssumption DEF Begin
  <2>4. r \in Requests /\ r.type # "PREKEY"
    BY <2>1, <2>3, KeyData, NewRequests
  <2>5. Asks(c, r)'
    <3>1. pc'[c] = "random" /\ ops'[c] = ops[c] + 1
      BY <1>1, <2>2 DEF Begin, ClientOK
    <3> QED BY <2>1, <3>1 DEF Asks, Own
  <2> QED BY <1>1, <2>2, <2>4, <2>5, PBegin
<1>3. CASE BeginCheck(c)
  <2>1. PICK r : r = [type |-> "KEYCHECK", id |-> cshm[c].id, key |-> cshm[c].key]
    OBVIOUS
  <2>2. Begin(c, "check", "check", r) /\ cshm[c].status = 1
    BY <1>3, <2>1 DEF BeginCheck
  <2>3. r \in Requests /\ r.type # "PREKEY"
    BY <1>1, <2>1, NewRequests
  <2>4. Asks(c, r)'
    <3>1. pc'[c] = "check" /\ cshm' = cshm
      BY <1>1, <2>2 DEF Begin, ClientOK
    <3> QED BY <2>1, <3>1 DEF Asks
  <2> QED BY <1>1, <2>2, <2>3, <2>4, PBegin
<1>4. CASE BeginRevoke(c)
  <2>1. PICK r : r = [type |-> "KEYREVOKE", id |-> cshm[c].id, key |-> cshm[c].key]
    OBVIOUS
  <2>2. Begin(c, "revoke", "revoke", r) /\ cshm[c].status = 1
    BY <1>4, <2>1 DEF BeginRevoke
  <2>3. r \in Requests /\ r.type # "PREKEY"
    BY <1>1, <2>1, NewRequests
  <2>4. Asks(c, r)'
    <3>1. pc'[c] = "revoke" /\ cshm' = cshm
      BY <1>1, <2>2 DEF Begin, ClientOK
    <3> QED BY <2>1, <3>1 DEF Asks
  <2> QED BY <1>1, <2>2, <2>3, <2>4, PBegin
<1> QED BY <1>2, <1>3, <1>4 DEF Begins

\* The answer a client reads is the one to its request.
LEMMA Reads ==
  ASSUME PInv, NEW c \in Clients, Receive(c)
  PROVE  /\ Incoming(c) \in Answers /\ Tells(c, Incoming(c))
         /\ toServer[c] = <<>> /\ toClient'[c] = <<>>
         /\ \A w \in Workers : ~Busy(task[w], c)
         /\ \A d \in Clients \ {c} : toClient'[d] = toClient[d]
         /\ c \in alive /\ UNCHANGED <<fd, alive, cut, ops, lives>>
<1>1. toClient \in [Clients -> Seq(Answers)]
  BY Parts DEF PInv, SInv, WireOK
<1>2. /\ c \in alive /\ toClient[c] # <<>> /\ toClient' = [toClient EXCEPT ![c] = Tail(@)]
      /\ UNCHANGED <<fd, alive, cut, ops, lives>>
  BY DEF Receive
<1>3. Waits(c)
  BY <1>2 DEF PInv
<1>4. PICK a \in Answers : Tells(c, a) /\ toClient[c] = <<a>>
  BY <1>2, <1>3 DEF Waits
<1>5. Incoming(c) = a /\ Tail(toClient[c]) = <<>>
  BY <1>4, Single DEF Incoming
<1>6. toServer[c] = <<>> /\ \A w \in Workers : ~Busy(task[w], c)
  BY <1>2, <1>3 DEF Waits
<1> QED BY <1>1, <1>2, <1>4, <1>5, <1>6

\* An operation that ends tells its user the truth.
LEMMA PEnd ==
  ASSUME PInv, NEW c \in alive, NEW op \in {"agree", "check", "revoke"}, NEW ok,
         End(c, op, ok), UNCHANGED serverVars, SInv', AInv',
         UNCHANGED <<fd, alive, cut, toServer, ops, mine, cshm>>,
         toServer[c] = <<>>, toClient'[c] = <<>>,
         \A d \in Clients \ {c} : toClient'[d] = toClient[d],
         \A w \in Workers : ~Busy(task[w], c),
         op = "check" /\ ok => cshm[c].id \in confirmed \/ c \in cut,
         op = "revoke" /\ ok => cshm[c].id \in Rows /\ (db[cshm[c].id].state = 0 \/ CommitFails)
  PROVE  PInv'
<1>1. ClientOK /\ alive \in SUBSET Clients /\ UNCHANGED <<db, task, confirmed>>
  BY Parts DEF PInv, SInv, WireOK, serverVars, historyVars
<1>2. \A d \in Clients \ {c} : Same(d)
  BY <1>1 DEF ClientOK, Same, End
<1>3. pc'[c] = "menu" /\ verdict'[c] = [op |-> op, ok |-> ok, id |-> cshm[c].id]
  BY <1>1 DEF ClientOK, End
<1>4. Waits(c)'
  BY <1>1 DEF Waits, Busy
<1>5. Truthful(c)
  BY <1>1, Truth DEF PInv
<1>6. Truthful(c)'
  BY <1>1, <1>3, <1>5 DEF Truthful, IsRow, Rows
<1> QED BY <1>2, <1>4, <1>6, PClientStep

LEMMA PDie ==
  ASSUME PInv, NEW c \in Clients, Die(c), UNCHANGED serverVars, SInv', AInv'
  PROVE  PInv'
<1>1. /\ ClientOK /\ toClient \in [Clients -> Seq(Answers)] /\ alive \in SUBSET Clients
      /\ cut \in SUBSET alive /\ UNCHANGED <<randomNum, db, task, confirmed>>
  BY Parts DEF PInv, SInv, WireOK, serverVars, historyVars
<1>2. /\ alive' = alive \ {c} /\ cut' = cut \ {c} /\ pc' = [pc EXCEPT ![c] = "menu"]
      /\ toClient' = [toClient EXCEPT ![c] = <<>>]
      /\ UNCHANGED <<fd, toServer, ops, mine, cshm, verdict, lives>>
  BY DEF Die
<1>3. Linked'
  BY <1>1, <1>2 DEF PInv, Linked
<1>4. Settled'
  BY <1>1, <1>2 DEF PInv, Settled, ClientOK, Agreed, Own
<1>5. AgreedKey'
  BY <1>1, <1>2 DEF PInv, AgreedKey, Held, Rows
<1>6. CheckGenuine' /\ RevokedRows'
  BY <1>1, <1>2 DEF PInv, CheckGenuine, RevokedRows, Rows
<1>7. ASSUME NEW d \in alive \ {c} PROVE Waits(d)'
  <2>1. Same(d) /\ toClient'[d] = toClient[d]
    BY <1>1, <1>2 DEF Same, ClientOK
  <2> QED BY <1>1, <1>2, <2>1, StayedWaits DEF PInv
<1>8. (\A d \in alive : Waits(d))'
  BY <1>2, <1>7
<1> QED BY <1>3, <1>4, <1>5, <1>6, <1>8 DEF PInv

LEMMA PRecvRandom ==
  ASSUME PInv, NEW c \in Clients, RecvRandom(c), UNCHANGED serverVars, SInv', AInv'
  PROVE  PInv'
<1>1. /\ ClientOK /\ toServer \in [Clients -> Seq(Requests)] /\ alive \in SUBSET Clients
      /\ UNCHANGED <<randomNum, db, task, confirmed>>
  BY Parts DEF PInv, SInv, WireOK, serverVars, historyVars
<1>2. PICK a : a = Incoming(c)
  OBVIOUS
<1>3. PICK k : k = Key(Own(c), a.random, Own(c))
  OBVIOUS
<1>4. PICK r : r = [type |-> "PREKEY", pm |-> Own(c), key |-> k]
  OBVIOUS
<1>5. /\ pc[c] = "random" /\ Receive(c) /\ a.rv = "SUCCESS" /\ Send(c, r)
      /\ mine' = [mine EXCEPT ![c] = k] /\ pc' = [pc EXCEPT ![c] = "keyid"]
      /\ UNCHANGED <<cshm, verdict>>
  BY <1>2, <1>3, <1>4 DEF RecvRandom, Own
<1>6. /\ a \in Answers /\ Tells(c, a) /\ toServer[c] = <<>> /\ toClient'[c] = <<>>
      /\ \A w \in Workers : ~Busy(task[w], c)
      /\ \A d \in Clients \ {c} : toClient'[d] = toClient[d]
      /\ c \in alive /\ UNCHANGED <<fd, alive, cut, ops, lives>>
  BY <1>2, <1>5, Reads
<1>7. a.random = Own(c) /\ (c \notin cut => Drawn(c))
  BY <1>5, <1>6 DEF Tells
<1>8. k = Agreed(c) /\ Agreed(c)' = Agreed(c) /\ Own(c)' = Own(c)
  BY <1>3, <1>6, <1>7 DEF Agreed, Own
<1>9. pc'[c] = "keyid" /\ mine'[c] = k
  BY <1>1, <1>5 DEF ClientOK
<1>10. r \in Requests
  <2>1. ops[c] \in 1..MaxOps
    <3>1. ops[c] \in 0..MaxOps /\ ops[c] # 0
      BY <1>1, <1>5, Parts DEF ClientOK, PInv, SInv
    <3> QED BY <3>1, WireAssumption
  <2>2. Own(c) \in Randoms
    BY <2>1, KeyData DEF Own
  <2>3. k \in Keys
    BY <1>3, <1>7, <2>2, KeyData
  <2> QED BY <1>4, <2>2, <2>3, NewRequests
<1>11. c \notin cut => Sends(c, r)'
  <2>1. Asks(c, r)'
    BY <1>4, <1>8, <1>9 DEF Asks
  <2>2. c \notin cut => Drawn(c)'
    BY <1>1, <1>6, <1>7, <1>8 DEF Drawn
  <2> QED BY <2>1, <2>2 DEF Sends
<1>12. toServer'[c] = IF c \in cut THEN <<>> ELSE <<r>>
  BY <1>1, <1>5, <1>6, Single DEF Send
<1>13. Waits(c)'
  <2>1. \A w \in Workers : ~Busy(task[w], c)'
    BY <1>1, <1>6 DEF Busy
  <2> QED BY <1>6, <1>10, <1>11, <1>12, <2>1 DEF Waits
<1>14. \A d \in Clients \ {c} : Same(d) /\ toServer'[d] = toServer[d]
  BY <1>1, <1>5, <1>6 DEF ClientOK, Same, Send
<1>15. Truthful(c)
  BY <1>1, <1>6, Truth DEF PInv
<1>16. Truthful(c)'
  BY <1>1, <1>5, <1>6, <1>8, <1>9, <1>15 DEF Truthful, IsRow, Rows
<1> QED BY <1>6, <1>12, <1>13, <1>14, <1>16, PClientStep

LEMMA PRecvKeyId ==
  ASSUME PInv, NEW c \in Clients, RecvKeyId(c), UNCHANGED serverVars, SInv', AInv'
  PROVE  PInv'
<1>1. ClientOK /\ alive \in SUBSET Clients /\ UNCHANGED <<randomNum, db, task, confirmed>>
  BY Parts DEF PInv, SInv, WireOK, serverVars, historyVars
<1>2. PICK a : a = Incoming(c)
  OBVIOUS
<1>3. /\ pc[c] = "keyid" /\ Receive(c) /\ a.rv = "SUCCESS"
      /\ cshm' = [cshm EXCEPT ![c] = [key |-> mine[c], id |-> a.id, status |-> 1]]
      /\ verdict' = [verdict EXCEPT ![c] = [op |-> "agree", ok |-> TRUE, id |-> a.id]]
      /\ pc' = [pc EXCEPT ![c] = "menu"]
      /\ UNCHANGED <<toServer, mine>>
  BY <1>2 DEF RecvKeyId
<1>4. /\ Tells(c, a) /\ toServer[c] = <<>> /\ toClient'[c] = <<>>
      /\ \A w \in Workers : ~Busy(task[w], c)
      /\ \A d \in Clients \ {c} : toClient'[d] = toClient[d]
      /\ c \in alive /\ UNCHANGED <<fd, alive, cut, ops, lives>>
  BY <1>2, <1>3, Reads
<1>5. IsRow(a.id, c, mine[c])
  BY <1>1, <1>3, <1>4 DEF Tells, PInv, Settled
<1>6. \A d \in Clients \ {c} : Same(d) /\ toServer'[d] = toServer[d]
  BY <1>1, <1>3, <1>4 DEF ClientOK, Same
<1>7. /\ pc'[c] = "menu" /\ cshm'[c] = [key |-> mine[c], id |-> a.id, status |-> 1]
      /\ verdict'[c] = [op |-> "agree", ok |-> TRUE, id |-> a.id]
  BY <1>1, <1>3 DEF ClientOK
<1>8. Waits(c)'
  BY <1>1, <1>3, <1>4 DEF Waits, Busy
<1>9. Truthful(c)'
  BY <1>1, <1>5, <1>7 DEF Truthful, IsRow, Rows
<1> QED BY <1>3, <1>4, <1>6, <1>8, <1>9, PClientStep

LEMMA PReceives ==
  ASSUME PInv, NEW c \in Clients, Receives(c), UNCHANGED serverVars, SInv', AInv'
  PROVE  PInv'
<1> PICK a : a = Incoming(c)
  OBVIOUS
<1>1. ASSUME Receive(c)
      PROVE  /\ Tells(c, a) /\ toServer[c] = <<>> /\ toClient'[c] = <<>>
             /\ \A w \in Workers : ~Busy(task[w], c)
             /\ \A d \in Clients \ {c} : toClient'[d] = toClient[d]
             /\ c \in alive /\ UNCHANGED <<fd, alive, cut, ops>>
  BY <1>1, Reads
<1>2. CASE AgreeRefused(c)
  <2>1. Receive(c) /\ End(c, "agree", FALSE) /\ UNCHANGED <<toServer, mine, cshm>>
    BY <1>2 DEF AgreeRefused
  <2> QED BY <1>1, <2>1, PEnd
<1>3. CASE RecvCheck(c)
  <2>1. PICK ok : ok = (a.rv = "SUCCESS")
    OBVIOUS
  <2>2. /\ pc[c] = "check" /\ Receive(c) /\ End(c, "check", ok)
        /\ UNCHANGED <<toServer, mine, cshm>>
    BY <1>3, <2>1 DEF RecvCheck
  <2>3. ok => cshm[c].id \in confirmed
    BY <1>1, <2>1, <2>2 DEF Tells
  <2> QED BY <1>1, <2>2, <2>3, PEnd
<1>4. CASE RecvRevoke(c)
  <2>1. PICK ok : ok = (a.type = "KEYREVOKE" /\ a.rv = "SUCCESS")
    OBVIOUS
  <2>2. /\ pc[c] = "revoke" /\ Receive(c) /\ End(c, "revoke", ok)
        /\ UNCHANGED <<toServer, mine, cshm>>
    BY <1>4, <2>1 DEF RecvRevoke
  <2>3. ok => cshm[c].id \in Rows /\ (db[cshm[c].id].state = 0 \/ CommitFails)
    BY <1>1, <2>1, <2>2 DEF Tells
  <2> QED BY <1>1, <2>2, <2>3, PEnd
<1>5. CASE AgreeCrash(c)
  BY <1>5, PDie DEF AgreeCrash
<1> QED BY <1>2, <1>3, <1>4, <1>5, PRecvRandom, PRecvKeyId DEF Receives

\* Without late answers only the end of a connection is taken for one.
LEMMA PGivesUp ==
  ASSUME PInv, ~Timeouts, NEW c \in Clients, GivesUp(c), UNCHANGED serverVars, SInv', AInv'
  PROVE  PInv'
<1>1. ASSUME TimedOut(c)
      PROVE  /\ c \in alive /\ c \in cut /\ toServer[c] = <<>> /\ toClient[c] = <<>>
             /\ \A w \in Workers : ~Busy(task[w], c)
  <2>1. c \in alive /\ c \in cut /\ toClient[c] = <<>>
    BY <1>1 DEF TimedOut
  <2> QED BY <2>1 DEF PInv, Linked, Busy
<1>2. CASE CheckTimeout(c)
  <2>1. /\ TimedOut(c) /\ End(c, "check", TRUE)
        /\ UNCHANGED <<fd, alive, cut, toServer, toClient, ops, mine, cshm>>
    BY <1>2 DEF CheckTimeout, wireVars
  <2> QED BY <1>1, <2>1, PEnd
<1>3. CASE RevokeTimeout(c)
  <2>1. /\ TimedOut(c) /\ End(c, "revoke", FALSE)
        /\ UNCHANGED <<fd, alive, cut, toServer, toClient, ops, mine, cshm>>
    BY <1>3 DEF RevokeTimeout, wireVars
  <2> QED BY <1>1, <2>1, PEnd
<1>4. CASE AgreeTimeout(c)
  BY <1>4, PDie DEF AgreeTimeout
<1> QED BY <1>2, <1>3, <1>4 DEF GivesUp

\* A client that starts again has a connection nobody else uses.
LEMMA PStart ==
  ASSUME PInv, NEW c \in Clients, Start(c, HandledFds), UNCHANGED serverVars, SInv', AInv'
  PROVE  PInv'
<1>1. /\ ClientOK /\ fd \in [Clients -> Fds] /\ alive \in SUBSET Clients
      /\ toServer \in [Clients -> Seq(Requests)]
      /\ cut \in SUBSET alive /\ UNCHANGED <<randomNum, db, task, confirmed>>
      /\ \A w \in Workers : task[w].pc # "idle" => task[w].fd \in Fds
  BY Parts DEF PInv, SInv, WireOK, serverVars, historyVars, TasksOK, Fits
<1>2. PICK f \in Fds \ (HandledFds \cup {fd[d] : d \in alive \ cut}) :
        /\ fd' = [fd EXCEPT ![c] = f]
        /\ toServer' = [d \in Clients |-> IF d = c \/ fd[d] = f THEN <<>> ELSE toServer[d]]
  BY DEF Start
<1>3. /\ c \notin alive /\ alive' = alive \cup {c}
      /\ cshm' = [cshm EXCEPT ![c] = NoKeyHeld]
      /\ verdict' = [verdict EXCEPT ![c] = NoVerdict]
      /\ UNCHANGED <<cut, toClient, pc, ops, mine>>
  BY DEF Start
<1>4. /\ fd'[c] = f /\ cshm'[c].status = 0 /\ verdict'[c].op = "none"
      /\ \A d \in Clients \ {c} : Same(d) /\ fd'[d] = fd[d]
  BY <1>1, <1>2, <1>3 DEF ClientOK, NoKeyHeld, NoVerdict, Same
<1>5. /\ \A d \in alive \ cut : fd[d] # f
      /\ \A w \in Workers : task[w].pc # "idle" => task[w].fd # f
  BY <1>1, <1>2, ServerAssumption DEF HandledFds
<1>6. pc[c] = "menu" /\ toClient[c] = <<>> /\ toServer'[c] = <<>>
  BY <1>2, <1>3 DEF PInv, Settled, AInv, GoneEmpty
<1>7. \A d \in Clients : toServer[d] = <<>> => toServer'[d] = <<>>
  BY <1>2
<1>8. Linked
  BY DEF PInv
<1>9. Linked'
  <2>1. ASSUME NEW d \in alive \ cut
        PROVE  /\ \A e \in Clients \ {d} : fd'[e] = fd'[d] =>
                    e \notin alive' \ cut /\ toServer'[e] = <<>>
               /\ \A w \in Workers : task[w].pc # "idle" /\ task[w].fd = fd'[d]
                    => task[w].client = d
    <3>1. d # c /\ fd'[d] = fd[d] /\ fd[d] # f
      BY <1>1, <1>3, <1>4, <1>5
    <3>2. ASSUME NEW e \in Clients \ {d}, fd'[e] = fd'[d]
          PROVE  e \notin alive' \ cut /\ toServer'[e] = <<>>
      <4>1. e # c /\ fd[e] = fd[d]
        BY <1>4, <3>1, <3>2
      <4> QED BY <1>3, <1>7, <1>8, <4>1 DEF Linked
    <3> QED BY <1>8, <3>1, <3>2 DEF Linked
  <2>2. \A e \in Clients \ {c} : fd'[e] = f => e \notin alive' \ cut /\ toServer'[e] = <<>>
    BY <1>2, <1>3, <1>4, <1>5
  <2>3. \A d \in cut : toServer'[d] = <<>> /\ \A w \in Workers :
          task[w].pc # "idle" => task[w].client # d
    BY <1>1, <1>7, <1>8 DEF Linked
  <2> QED BY <1>1, <1>3, <1>4, <1>5, <2>1, <2>2, <2>3 DEF Linked
<1>10. \A d \in Clients \ {c} : Agreed(d)' = Agreed(d)
  BY <1>4 DEF Agreed, Own, Same
<1>11. Settled'
  BY <1>3, <1>4, <1>6, <1>10 DEF PInv, Settled, Same
<1>12. AgreedKey'
  BY <1>1, <1>4 DEF PInv, AgreedKey, Held, Rows, Same
<1>13. CheckGenuine' /\ RevokedRows'
  BY <1>1, <1>3, <1>4 DEF PInv, CheckGenuine, RevokedRows, Rows, Same
<1>14. ASSUME NEW d \in alive PROVE Waits(d)'
  <2>1. d # c /\ d \in Clients /\ Waits(d)
    BY <1>1, <1>3 DEF PInv
  <2>2. CASE d \in cut
    <3>1. toServer[d] = <<>>
      BY <1>8, <2>2 DEF Linked
    <3> QED BY <1>1, <1>3, <1>4, <1>7, <2>1, <3>1, StayedWaits
  <2>3. CASE d \notin cut
    <3>1. toServer'[d] = toServer[d]
      BY <1>2, <1>5, <2>1, <2>3
    <3> QED BY <1>1, <1>3, <1>4, <2>1, <3>1, StayedWaits
  <2> QED BY <2>2, <2>3
<1>15. Waits(c)'
  BY <1>1, <1>3, <1>4, <1>5, <1>6 DEF Waits, Busy
<1>16. (\A d \in alive : Waits(d))'
  BY <1>3, <1>14, <1>15
<1> QED BY <1>9, <1>11, <1>12, <1>13, <1>16 DEF PInv

LEMMA PClients ==
  ASSUME PInv, ~Timeouts, NEW c \in Clients, ClientStep(c), UNCHANGED serverVars
  PROVE  PInv'
<1>1. SInv' /\ AInv'
  BY SClients, AClients DEF PInv
<1>2. CASE Killed(c) \/ Quit(c)
  BY <1>1, <1>2, PDie DEF Killed, Quit
<1> QED BY <1>1, <1>2, PBegins, PReceives, PGivesUp, PStart DEF ClientStep

LEMMA PNext == PInv /\ OneThread /\ ~Timeouts /\ [Next]_vars => PInv'
<1> SUFFICES ASSUME PInv, OneThread, ~Timeouts, [Next]_vars PROVE PInv'
  OBVIOUS
<1>1. CASE UNCHANGED vars
  <2>1. /\ SInv' /\ AInv' /\ UNCHANGED <<randomNum, db, confirmed, task>>
        /\ UNCHANGED wireVars /\ UNCHANGED clientVars
        /\ UNCHANGED <<fd, alive, cut, toServer, toClient>>
    BY <1>1, SNext, ANext DEF PInv, vars, serverVars, historyVars, wireVars
  <2>2. Linked'
    BY <2>1 DEF PInv, Linked
  <2>3. \A d : Same(d)
    BY <2>1 DEF clientVars, Same
  <2>4. ASSUME NEW d \in alive PROVE Waits(d)'
    BY <2>1, <2>3, StayedWaits DEF PInv
  <2>5. (\A d \in alive : Waits(d))'
    BY <2>1, <2>4
  <2> QED BY <2>1, <2>2, <2>5, Still, PServerStep
<1>2. ASSUME NEW c \in Clients, ClientStep(c), UNCHANGED serverVars PROVE PInv'
  BY <1>2, PClients
<1>3. ASSUME NEW w \in Workers, Server(w), UNCHANGED clientVars PROVE PInv'
  BY <1>3, PTakeRequest, PRandomNum, PPremaster, PQuery, PMac, PInsert, PLastInsertId,
     PShmWrite, PFindSlot, PSetStatus, PUpdateState DEF Server
<1>4. CASE Restart /\ UNCHANGED clientVars
  BY <1>4, PRestart
<1> QED BY <1>1, <1>2, <1>3, <1>4 DEF Next

LEMMA Agreeing == ASSUME OneThread, ~Timeouts PROVE Spec => []PInv
BY PInit, PNext, PTL DEF Spec

\* The key in a client's slot is the one the server has under the number the
\* client has for it, whatever fails and whoever is started again, as long as
\* no answer is late: clientPremaster answers with the number of its own row,
\* and secKeyAgree splices the strings it sent and was sent.
THEOREM KeysAgree ==
  ASSUME OneThread, ~Timeouts
  PROVE  Spec => []AgreedKey
<1>1. PInv => AgreedKey
  BY DEF PInv
<1> QED BY <1>1, Agreeing, PTL

\* secKeyCheck says a key is good only when keyCheck confirmed that key, or
\* when it took the end of its connection for the answer.
THEOREM ChecksGenuine ==
  ASSUME OneThread, ~Timeouts
  PROVE  Spec => []CheckGenuine
<1>1. PInv => CheckGenuine
  BY DEF PInv
<1> QED BY <1>1, Agreeing, PTL

\* secKeyRevoke reports a revocation only of a row keyRevoke has made
\* inactive, and nothing makes the row active again: as long as the database
\* fails no COMMIT, whose result updataKeyState does not look at.
THEOREM RevocationsKept ==
  ASSUME OneThread, ~Timeouts, ~CommitFails
  PROVE  Spec => []RevokeKept
<1>1. PInv => RevokeKept
  BY DEF PInv, RevokedRows, RevokeKept
<1> QED BY <1>1, Agreeing, PTL

----------------------------------------------------------------------------
(* The Hmac object a handler uses after it has put it back.                *)

\* With one thread nobody else sets a key in the object meanwhile.
Unspoiled == \A w \in Workers : task[w].pc = "mac" => hkey[task[w].hmac] = task[w].key

LEMMA UInit == Init => Unspoiled
BY DEF Init, ServerInit, AllIdle, Idle, Unspoiled

\* A step that sets the object's key goes on with that object and that key.
LEMMA UGiven ==
  ASSUME TInv, OneThread, NEW w \in Workers, NEW k, NEW t,
         hkey' = [hkey EXCEPT ![Head(hmacs)] = k], task' = [task EXCEPT ![w] = t],
         t.key = k, t.hmac = Head(hmacs)
  PROVE  Unspoiled'
<1>1. task'[w] = t /\ hkey'[Head(hmacs)] = k
  <2>1. TasksOK /\ Pools
    BY Parts
  <2>2. Head(hmacs) \in 1..HmacSize
    BY <2>1, HeadTail DEF Pools
  <2> QED BY <2>1, <2>2 DEF TasksOK, Pools
<1>2. \A v \in Workers : v = w
  BY DEF OneThread
<1> QED BY <1>1, <1>2 DEF Unspoiled

\* A step that does not set one ends the task or takes it elsewhere.
LEMMA UGone ==
  ASSUME OneThread, NEW w \in Workers, task'[w].pc # "mac"
  PROVE  Unspoiled'
BY DEF OneThread, Unspoiled

LEMMA UTakeRequest ==
  ASSUME TInv, OneThread, NEW w \in Workers, TakeRequest(w)
  PROVE  Unspoiled'
<1>1. PICK c \in Clients :
        /\ toServer[c] # <<>>
        /\ task' = [task EXCEPT ![w] = [Idle EXCEPT !.pc = Head(toServer[c]).type,
                      !.client = c, !.fd = fd[c], !.req = Head(toServer[c])]]
  BY DEF TakeRequest
<1>2. Head(toServer[c]) \in Requests
  BY <1>1, Parts, HeadTail DEF WireOK
<1>3. task'[w].pc = Head(toServer[c]).type
  BY <1>1, Parts DEF TasksOK, Idle
<1> QED BY <1>2, <1>3, RequestData, UGone

LEMMA UNext == PInv /\ Unspoiled /\ OneThread /\ [Next]_vars => Unspoiled'
<1> SUFFICES ASSUME PInv, Unspoiled, OneThread, [Next]_vars PROVE Unspoiled'
  OBVIOUS
<1>1. TInv /\ TasksOK /\ Pools
  BY Parts DEF PInv, SInv
<1>2. ASSUME UNCHANGED <<task, hkey>> PROVE Unspoiled'
  BY <1>2 DEF Unspoiled
<1>3. ASSUME NEW w \in Workers, NEW rv, NEW x, NEW n, Reply(w, rv, x, n) PROVE Unspoiled'
  <2>1. task'[w] = Idle
    BY <1>1, <1>3 DEF Reply, TasksOK
  <2> QED BY <2>1, UGone DEF Idle
<1>4. ASSUME NEW w \in Workers, Server(w) PROVE Unspoiled'
  <2> DEFINE t == task[w]
  <2>1. t \in Tasks /\ Fits(t)
    BY <1>1 DEF TasksOK
  <2>2. CASE TakeRequest(w)
    BY <1>1, <2>2, UTakeRequest
  <2>3. CASE Premaster(w)
    <3> PICK k : k = Key(randomNum[t.fd].cr, randomNum[t.fd].sr, t.req.pm)
      OBVIOUS
    <3> PICK u : u = [t EXCEPT !.pc = "mac", !.key = k, !.hmac = Head(hmacs)]
      OBVIOUS
    <3>1. /\ hkey' = [hkey EXCEPT ![Head(hmacs)] = k]
          /\ task' = [task EXCEPT ![w].pc = "mac", ![w].key = k, ![w].hmac = Head(hmacs)]
      BY <2>3 DEF Premaster
    <3>2. task' = [task EXCEPT ![w] = u] /\ u.key = k /\ u.hmac = Head(hmacs)
      BY <1>1, <2>1, <3>1 DEF TasksOK, Tasks
    <3> QED BY <1>1, <3>1, <3>2, UGiven
  <2>4. CASE Query(w)
    <3> PICK k : k = db[t.req.id].key
      OBVIOUS
    <3> PICK u : u = [t EXCEPT !.pc = "mac", !.key = k, !.hmac = Head(hmacs),
                        !.conn = Head(conns)]
      OBVIOUS
    <3>1. CASE /\ hkey' = [hkey EXCEPT ![Head(hmacs)] = k]
               /\ task' = [task EXCEPT ![w].pc = "mac", ![w].key = k,
                             ![w].hmac = Head(hmacs), ![w].conn = Head(conns)]
      <4>1. task' = [task EXCEPT ![w] = u] /\ u.key = k /\ u.hmac = Head(hmacs)
        BY <1>1, <2>1, <3>1 DEF TasksOK, Tasks
      <4> QED BY <1>1, <3>1, <4>1, UGiven
    <3>2. CASE Refuse(w, "AUTHERR")
      BY <1>3, <3>2 DEF Refuse
    <3> QED BY <2>4, <3>1, <3>2 DEF Query
  <2>5. CASE Mac(w)
    <3> PICK p : p = CASE t.req.type = "PREKEY"    -> "insert"
                       [] t.req.type = "KEYCHECK"  -> "write"
                       [] t.req.type = "KEYREVOKE" -> "find"
      OBVIOUS
    <3>1. t.req.type \in {"PREKEY", "KEYCHECK", "KEYREVOKE"}
      BY <2>1, <2>5, TaskData, RequestData DEF Fits, Mac
    <3>2. p # "mac"
      BY <3>1
    <3>3. CASE Goto(w, p)
      <4>1. task'[w].pc = p
        BY <1>1, <2>1, <3>3 DEF Goto, TasksOK, Tasks
      <4> QED BY <3>2, <4>1, UGone
    <3>4. CASE Refuse(w, "AUTHERR")
      BY <1>3, <3>4 DEF Refuse
    <3> QED BY <2>5, <3>3, <3>4 DEF Mac
  <2>6. ASSUME NEW p \in {"lastid", "write", "status", "state"}, task'[w].pc = p
        PROVE  Unspoiled'
    BY <2>6, UGone
  <2>7. CASE Insert(w) \/ LastInsertId(w) \/ FindSlot(w) \/ SetStatus(w)
    <3>1. CASE \E rv : Refuse(w, rv)
      BY <1>3, <3>1 DEF Refuse
    <3>2. CASE ~\E rv : Refuse(w, rv)
      <4>1. task'[w].pc \in {"lastid", "write", "status", "state"}
        BY <1>1, <2>1, <2>7, <3>2 DEF Insert, LastInsertId, FindSlot, SetStatus, Goto,
           TasksOK, Tasks
      <4> QED BY <2>6, <4>1
    <3> QED BY <3>1, <3>2
  <2>8. CASE RandomNum(w) \/ ShmWrite(w) \/ UpdateState(w)
    BY <1>3, <2>8 DEF RandomNum, ShmWrite, UpdateState, Refuse
  <2> QED BY <1>4, <2>2, <2>3, <2>4, <2>5, <2>7, <2>8 DEF Server
<1>5. CASE UNCHANGED serverVars \/ UNCHANGED vars
  BY <1>2, <1>5 DEF vars, serverVars, poolVars
<1>6. CASE Restart
  BY <1>6 DEF Restart, AllIdle, Idle, Unspoiled
<1> QED BY <1>4, <1>5, <1>6 DEF Next

\* A handler finds the authentication code and the key of a client that waits
\* for it right: clientPremaster, keyCheck and keyRevoke use the Hmac object
\* after HmacRAII has put it back into the pool, but the one thread there is
\* sets no other key in it meanwhile; the key agreed on is the client's, and
\* the row asked for has the key the client got when it agreed.
THEOREM NoneRefused ==
  ASSUME OneThread, ~Timeouts
  PROVE  Spec => []Recognised
<1>1. Spec => []Unspoiled
  BY UInit, UNext, Agreeing, PTL DEF Spec
<1>2. PInv /\ Unspoiled => Recognised
  <2> SUFFICES ASSUME PInv, Unspoiled, NEW w \in Workers, task[w].pc = "mac",
                      task[w].client \in alive, task[w].fd = fd[task[w].client]
               PROVE  /\ hkey[task[w].hmac] = task[w].req.key
                      /\ task[w].key = task[w].req.key
    BY DEF Recognised
  <2> DEFINE t == task[w]
             c == task[w].client
  <2>1. Handles(c, t) /\ HasRow(t) /\ Settled /\ AgreedKey /\ c \in Clients
    <3>1. alive \subseteq Clients
      BY Parts DEF PInv, SInv, WireOK
    <3> QED BY <3>1, BusyLive DEF Busy, PInv, SInv
  <2>2. t.key = t.req.key
    <3>1. CASE t.req.type = "PREKEY"
      BY <2>1, <3>1 DEF Handles, Asks
    <3>2. CASE t.req.type # "PREKEY"
      <4>1. db[t.req.id].key = t.key
        BY <2>1, <3>2 DEF HasRow
      <4>2. CASE t.req.type \in {"KEYCHECK", "KEYREVOKE"}
        <5>1. Held(c) /\ t.req.id = cshm[c].id /\ t.req.key = cshm[c].key
          BY <2>1, <4>2 DEF Handles, Asks, Settled, Held
        <5> QED BY <2>1, <4>1, <5>1 DEF AgreedKey
      <4>3. CASE t.req.type = "RANDOMNUM"
        <5>1. Fits(t)
          BY Parts DEF PInv, SInv, TasksOK
        <5> QED BY <4>3, <5>1 DEF Fits
      <4> QED BY <2>1, <3>2, <4>2, <4>3 DEF Handles, Asks
    <3> QED BY <3>1, <3>2
  <2>3. hkey[t.hmac] = t.key
    BY DEF Unspoiled
  <2> QED BY <2>2, <2>3
<1> QED BY <1>1, <1>2, Agreeing, PTL

----------------------------------------------------------------------------
(* Every step is a step of a key's life.                                   *)

Owners    == [n \in Rows |-> db[n].client]
Active    == {n \in Rows : db[n].state = 1}
ShownKey(c) == IF ShownTo(c) = {} THEN 0 ELSE shm[FirstOf(ShownTo(c))].id
ShownKeys == [c \in Clients |-> ShownKey(c)]
HeldKeys  == [c \in Clients |-> cshm[c].id]

LEMMA Actions ==
  /\ UNCHANGED <<Owners, Active, ShownKeys, HeldKeys>> => UNCHANGED Lifecycle!vars
  /\ \A c : Lifecycle!Issue(c) <=>
       /\ Owners' = Append(Owners, c) /\ Active' = Active \cup {Len(Owners) + 1}
       /\ UNCHANGED <<ShownKeys, HeldKeys>>
  /\ \A c, n : Lifecycle!Show(c, n) <=>
       /\ n \in Active /\ Owners[n] = c /\ ShownKeys' = [ShownKeys EXCEPT ![c] = n]
       /\ UNCHANGED <<Owners, Active, HeldKeys>>
  /\ \A c : Lifecycle!Hide(c) <=>
       /\ ShownKeys' = [ShownKeys EXCEPT ![c] = 0]
       /\ UNCHANGED <<Owners, Active, HeldKeys>>
  /\ \A n : Lifecycle!Revoke(n) <=>
       /\ n \in Active /\ ShownKeys[Owners[n]] # n /\ Active' = Active \ {n}
       /\ UNCHANGED <<Owners, ShownKeys, HeldKeys>>
  /\ \A c, n : Lifecycle!Learn(c, n) <=>
       /\ n \in DOMAIN Owners /\ Owners[n] = c /\ HeldKeys' = [HeldKeys EXCEPT ![c] = n]
       /\ UNCHANGED <<Owners, Active, ShownKeys>>
  /\ \A c : Lifecycle!Forget(c) <=>
       /\ HeldKeys' = [HeldKeys EXCEPT ![c] = 0]
       /\ UNCHANGED <<Owners, Active, ShownKeys>>
  /\ Lifecycle!HideAll <=>
       /\ ShownKeys' = [c \in Clients |-> 0]
       /\ UNCHANGED <<Owners, Active, HeldKeys>>
<1>1. UNCHANGED <<Owners, Active, ShownKeys, HeldKeys>> => UNCHANGED Lifecycle!vars
  BY DEF Lifecycle!vars, Owners, Active, ShownKeys, ShownKey, HeldKeys
<1>2. \A c : Lifecycle!Issue(c) <=>
       /\ Owners' = Append(Owners, c) /\ Active' = Active \cup {Len(Owners) + 1}
       /\ UNCHANGED <<ShownKeys, HeldKeys>>
  BY DEF Lifecycle!Issue, Owners, Active, ShownKeys, ShownKey, HeldKeys
<1>3. \A c, n : Lifecycle!Show(c, n) <=>
       /\ n \in Active /\ Owners[n] = c /\ ShownKeys' = [ShownKeys EXCEPT ![c] = n]
       /\ UNCHANGED <<Owners, Active, HeldKeys>>
  BY DEF Lifecycle!Show, Owners, Active, ShownKeys, ShownKey, HeldKeys
<1>4. \A c : Lifecycle!Hide(c) <=>
       /\ ShownKeys' = [ShownKeys EXCEPT ![c] = 0]
       /\ UNCHANGED <<Owners, Active, HeldKeys>>
  BY DEF Lifecycle!Hide, Owners, Active, ShownKeys, ShownKey, HeldKeys
<1>5. \A n : Lifecycle!Revoke(n) <=>
       /\ n \in Active /\ ShownKeys[Owners[n]] # n /\ Active' = Active \ {n}
       /\ UNCHANGED <<Owners, ShownKeys, HeldKeys>>
  BY DEF Lifecycle!Revoke, Owners, Active, ShownKeys, ShownKey, HeldKeys
<1>6. \A c, n : Lifecycle!Learn(c, n) <=>
       /\ n \in DOMAIN Owners /\ Owners[n] = c /\ HeldKeys' = [HeldKeys EXCEPT ![c] = n]
       /\ UNCHANGED <<Owners, Active, ShownKeys>>
  BY DEF Lifecycle!Learn, Owners, Active, ShownKeys, ShownKey, HeldKeys
<1>7. \A c : Lifecycle!Forget(c) <=>
       /\ HeldKeys' = [HeldKeys EXCEPT ![c] = 0]
       /\ UNCHANGED <<Owners, Active, ShownKeys>>
  BY DEF Lifecycle!Forget, Owners, Active, ShownKeys, ShownKey, HeldKeys
<1>8. Lifecycle!HideAll <=>
       /\ ShownKeys' = [c \in Clients |-> 0]
       /\ UNCHANGED <<Owners, Active, HeldKeys>>
  BY DEF Lifecycle!HideAll, Owners, Active, ShownKeys, ShownKey, HeldKeys
<1> QED BY <1>1, <1>2, <1>3, <1>4, <1>5, <1>6, <1>7, <1>8

LEMMA LInit == Init => Lifecycle!Init
<1> SUFFICES ASSUME Init PROVE Lifecycle!Init
  OBVIOUS
<1>1. Rows = {} /\ \A c \in Clients : cshm[c].id = 0
  BY DEF Init, ServerInit, ClientInit, NoKeyHeld, Rows
<1>2. Owners = <<>>
  BY <1>1 DEF Owners
<1>3. Active = {} /\ HeldKeys = [c \in Clients |-> 0]
  BY <1>1 DEF Active, HeldKeys
<1>4. \A c \in Clients : ShownTo(c) = {}
  BY WireAssumption DEF Init, ServerInit, NoSlots, NoSlot, ShownTo
<1>5. ShownKeys = [c \in Clients |-> 0]
  BY <1>4 DEF ShownKeys, ShownKey
<1> QED BY <1>2, <1>3, <1>5 DEF Lifecycle!Init, Owners, Active, ShownKeys, ShownKey, HeldKeys

LEMMA RowsKept == UNCHANGED db => UNCHANGED <<Owners, Active, Rows>>
BY DEF Owners, Active, Rows

LEMMA ShmKept == UNCHANGED shm => UNCHANGED ShownKeys
BY DEF ShownKeys, ShownKey, ShownTo

LEMMA SlotsKept == UNCHANGED clientVars => UNCHANGED HeldKeys
BY DEF clientVars, HeldKeys

\* Clients learn and forget.
LEMMA LClients ==
  ASSUME PInv, NEW c \in Clients, ClientStep(c), UNCHANGED serverVars
  PROVE  Lifecycle!Next \/ UNCHANGED Lifecycle!vars
<1>1. ClientOK /\ UNCHANGED <<Owners, Active, ShownKeys>> /\ DOMAIN Owners = Rows
  BY RowsKept, ShmKept, Parts DEF PInv, SInv, serverVars, Owners
<1>2. CASE RecvKeyId(c)
  <2>1. PICK a : a = Incoming(c)
    OBVIOUS
  <2>2. /\ pc[c] = "keyid" /\ Receive(c) /\ a.rv = "SUCCESS"
        /\ cshm' = [cshm EXCEPT ![c] = [key |-> mine[c], id |-> a.id, status |-> 1]]
    BY <1>2, <2>1 DEF RecvKeyId
  <2>3. IsRow(a.id, c, mine[c])
    BY <2>1, <2>2, Reads DEF Tells, PInv, Settled
  <2>4. a.id \in DOMAIN Owners /\ Owners[a.id] = c
    BY <1>1, <2>3 DEF Owners, IsRow
  <2>5. HeldKeys' = [HeldKeys EXCEPT ![c] = a.id]
    BY <1>1, <2>2 DEF HeldKeys, ClientOK
  <2>6. Lifecycle!Learn(c, a.id)
    BY <1>1, <2>4, <2>5, Actions
  <2> QED BY <2>4, <2>6 DEF Lifecycle!Next, Owners
<1>3. CASE Start(c, HandledFds)
  <2>1. HeldKeys' = [HeldKeys EXCEPT ![c] = 0]
    BY <1>1, <1>3 DEF Start, HeldKeys, ClientOK, NoKeyHeld
  <2>2. Lifecycle!Forget(c)
    BY <1>1, <2>1, Actions
  <2> QED BY <2>2 DEF Lifecycle!Next
<1>4. CASE UNCHANGED cshm
  <2>1. UNCHANGED HeldKeys
    BY <1>4 DEF HeldKeys
  <2> QED BY <1>1, <2>1, Actions
<1>5. \/ Begins(c) \/ RecvRandom(c) \/ AgreeRefused(c) \/ AgreeCrash(c) \/ RecvCheck(c)
      \/ RecvRevoke(c) \/ GivesUp(c) \/ Killed(c) \/ Quit(c)
      => UNCHANGED cshm
  BY DEF Begins, BeginAgree, BeginCheck, BeginRevoke, Begin, RecvRandom, AgreeRefused,
         AgreeCrash, RecvCheck, RecvRevoke, GivesUp, CheckTimeout, RevokeTimeout,
         AgreeTimeout, Killed, Quit, Die
<1>6. RecvKeyId(c) \/ Start(c, HandledFds) \/ UNCHANGED cshm
  BY <1>5 DEF ClientStep, Receives
<1> QED BY <1>2, <1>3, <1>4, <1>6

\* A row is issued.
LEMMA LInsert ==
  ASSUME PInv, NEW w \in Workers, Insert(w), UNCHANGED clientVars
  PROVE  Lifecycle!Next \/ UNCHANGED Lifecycle!vars
<1> DEFINE t == task[w]
           R == [client : Clients, key : Keys, state : {0, 1}]
<1>1. /\ ServerData /\ t \in Tasks /\ Fits(t) /\ t.pc = "insert"
      /\ UNCHANGED <<ShownKeys, HeldKeys>>
  BY ShmKept, SlotsKept, Parts DEF PInv, SInv, TasksOK, Insert
<1>2. t.client \in Clients /\ t.key \in Keys
  BY <1>1, TaskData DEF Fits
<1> PICK row : row = [client |-> t.client, key |-> t.key, state |-> 1]
  OBVIOUS
<1> PICK c : c = t.client
  OBVIOUS
<1>3. CASE db' = Append(db, row)
  <2>1. db \in Seq(R) /\ row \in R
    BY <1>1, <1>2 DEF ServerData
  <2>2. row.client = c /\ row.state = 1 /\ \A r \in R : r.client \in Clients
    OBVIOUS
  <2> HIDE DEF R
  <2>3. /\ Rows = 1..Len(db) /\ Rows' = 1..(Len(db) + 1) /\ Len(db) \in Nat
        /\ \A n \in Rows : db'[n] = db[n] /\ db[n] \in R
        /\ db'[Len(db) + 1] = row
    BY <1>3, <2>1, Element DEF Rows
  <2>4. Active' = Active \cup {Len(db) + 1}
    BY <2>2, <2>3 DEF Active
  <2>5. Owners \in [1..Len(db) -> Clients]
    BY <2>2, <2>3 DEF Owners
  <2>6. Owners \in Seq(Clients) /\ Len(Owners) = Len(db)
    BY <2>3, <2>5
  <2>7. Owners' = Append(Owners, c)
    <3>1. /\ Append(Owners, c) \in Seq(Clients)
          /\ DOMAIN Append(Owners, c) = 1..(Len(db) + 1)
          /\ \A n \in 1..Len(db) : Append(Owners, c)[n] = Owners[n]
          /\ Append(Owners, c)[Len(db) + 1] = c
      BY <1>2, <2>3, <2>6
    <3>2. Append(Owners, c) =
            [n \in 1..(Len(db) + 1) |-> Append(Owners, c)[n]]
      BY <3>1
    <3>3. \A n \in 1..(Len(db) + 1) : db'[n].client = Append(Owners, c)[n]
      BY <2>2, <2>3, <3>1 DEF Owners
    <3>4. Owners' = [n \in 1..(Len(db) + 1) |-> db'[n].client]
      BY <2>3 DEF Owners
    <3> HIDE DEF t
    <3> QED BY <3>2, <3>3, <3>4
  <2>8. Lifecycle!Issue(c)
    BY <1>1, <2>4, <2>6, <2>7, Actions
  <2> QED BY <1>2, <2>8 DEF Lifecycle!Next
<1>4. CASE UNCHANGED db
  BY <1>1, <1>4, RowsKept, Actions
<1> QED BY <1>3, <1>4 DEF Insert

\* The shared memory shows a client one key.
LEMMA OnlyOne ==
  ASSUME NEW n \in Nat, NEW S \in SUBSET (1..n), NEW i \in S, \A j \in S : j = i
  PROVE  FirstOf(S) = i
BY FirstIs

LEMMA OtherShown ==
  ASSUME NEW d, NEW i \in 1..MaxNode, \A j \in 1..MaxNode \ {i} : shm'[j] = shm[j],
         shm[i].client # d, shm'[i].client # d
  PROVE  ShownKey(d)' = ShownKey(d)
<1>1. \A j \in 1..MaxNode : shm'[j].client = d <=> shm[j].client = d
  OBVIOUS
<1>2. \A j \in 1..MaxNode : shm[j].client = d => shm'[j] = shm[j]
  OBVIOUS
<1>3. ShownTo(d)' = ShownTo(d)
  BY <1>1, <1>2 DEF ShownTo
<1>4. CASE ShownTo(d) = {}
  BY <1>3, <1>4 DEF ShownKey
<1>5. CASE ShownTo(d) # {}
  <2>1. ShownTo(d) \in SUBSET (1..MaxNode) /\ MaxNode \in Nat
    BY ServerAssumption DEF ShownTo
  <2>2. FirstOf(ShownTo(d)) \in ShownTo(d)
    BY <1>5, <2>1, FirstIs
  <2>3. PICK k : k = FirstOf(ShownTo(d))
    OBVIOUS
  <2>4. shm'[k] = shm[k]
    BY <1>2, <2>2, <2>3 DEF ShownTo
  <2>5. ShownKey(d) = shm[k].id
    BY <1>5, <2>3 DEF ShownKey
  <2>6. ShownKey(d)' = shm'[k].id
    BY <1>3, <1>5, <2>3 DEF ShownKey
  <2> QED BY <2>4, <2>5, <2>6
<1> QED BY <1>4, <1>5

\* shmWrite shows an active row of the client's.
LEMMA LShmWrite ==
  ASSUME PInv, RInv, OneThread, NEW w \in Workers, ShmWrite(w), UNCHANGED clientVars
  PROVE  Lifecycle!Next \/ UNCHANGED Lifecycle!vars
<1> DEFINE t == task[w]
<1>1. /\ ServerData /\ t \in Tasks /\ Fits(t) /\ HasRow(t) /\ Current(t) /\ t.pc = "write"
      /\ UNCHANGED <<Owners, Active, HeldKeys>> /\ ShmIsIssued'
  BY RowsKept, SlotsKept, SShmWrite, Parts DEF RInv, SInv, TasksOK, ShmWrite
<1> PICK c : c = t.client
  OBVIOUS
<1> PICK n : n = Target(t)
  OBVIOUS
<1>2. c \in Clients /\ c # NoClient /\ IsRow(n, c, t.key) /\ db[n].state = 1
  BY <1>1, TaskData, WireAssumption DEF Fits, HasRow, Current
<1>3. n \in Active /\ Owners[n] = c
  BY <1>2 DEF Active, Owners, IsRow
<1> PICK slot : slot = [client |-> c, key |-> t.key, id |-> n, status |-> 1]
  OBVIOUS
<1> PICK i : i = FirstOf(SlotsFor(c))
  OBVIOUS
<1>4. CASE SlotsFor(c) # {} /\ shm' = [shm EXCEPT ![i] = slot]
  <2>1. SlotsFor(c) \in SUBSET (1..MaxNode) /\ MaxNode \in Nat
    BY ServerAssumption DEF SlotsFor
  <2>2. i \in SlotsFor(c) /\ i \in 1..MaxNode
    BY <1>4, <2>1, FirstIs
  <2>3. shm'[i] = slot /\ \A j \in 1..MaxNode \ {i} : shm'[j] = shm[j]
    BY <1>1, <1>4, <2>2 DEF ServerData
  <2>4. slot.client = c /\ slot.status = 1 /\ slot.id = n
    OBVIOUS
  <2>5. ShownTo(c)' = {i}
    <3>1. shm'[i] # NoSlot
      BY <1>2, <2>3, <2>4 DEF NoSlot
    <3>2. \A j \in 1..MaxNode : shm'[j].client = c => j = i
      BY <1>1, <2>2, <2>3, <2>4, <3>1 DEF ShmIsIssued
    <3> QED BY <2>2, <2>3, <2>4, <3>2 DEF ShownTo
  <2>6. FirstOf({i}) = i
    BY <2>1, <2>2, OnlyOne
  <2>7. ShownKey(c)' = n
    BY <2>3, <2>4, <2>5, <2>6 DEF ShownKey
  <2>8. shm[i].client \in {c, NoClient}
    BY <2>2 DEF SlotsFor, NoSlot
  <2>9. ASSUME NEW d \in Clients, d # c PROVE ShownKey(d)' = ShownKey(d)
    <3>1. d # NoClient
      BY WireAssumption
    <3> QED BY <2>2, <2>3, <2>4, <2>8, <2>9, <3>1, OtherShown
  <2>10. ShownKeys' = [ShownKeys EXCEPT ![c] = n]
    BY <1>2, <2>7, <2>9 DEF ShownKeys
  <2>11. Lifecycle!Show(c, n)
    BY <1>1, <1>3, <2>10, Actions
  <2>12. n \in DOMAIN Owners
    BY <1>3 DEF Active, Owners
  <2> QED BY <1>2, <2>11, <2>12 DEF Lifecycle!Next, Owners
<1>5. CASE UNCHANGED shm
  BY <1>1, <1>5, ShmKept, Actions
<1> QED BY <1>4, <1>5 DEF ShmWrite, Target

\* updateStatue hides the key of the slot it writes.
LEMMA LSetStatus ==
  ASSUME PInv, RInv, NEW w \in Workers, SetStatus(w), UNCHANGED clientVars
  PROVE  Lifecycle!Next \/ UNCHANGED Lifecycle!vars
<1> DEFINE t == task[w]
<1> PICK i : i = t.slot
  OBVIOUS
<1>1. /\ i \in 1..MaxNode /\ shm' = [shm EXCEPT ![i].status = 0] /\ ShmIsIssued
      /\ shm \in [1..MaxNode -> [client : Clients \cup {NoClient}, key : Keys,
                                 id : Nat, status : {0, 1}]]
      /\ UNCHANGED <<Owners, Active, HeldKeys>>
  BY RowsKept, SlotsKept, Parts, TaskData DEF RInv, SInv, TasksOK, ServerData, SetStatus
<1>2. /\ shm'[i].status = 0 /\ shm'[i].client = shm[i].client
      /\ \A j \in 1..MaxNode \ {i} : shm'[j] = shm[j]
  BY <1>1
<1> PICK c : c = shm[i].client
  OBVIOUS
<1>3. ASSUME NEW d \in Clients, d # c PROVE ShownKey(d)' = ShownKey(d)
  BY <1>1, <1>2, <1>3, OtherShown
<1>4. CASE c \in Clients
  <2>1. shm[i] # NoSlot
    BY <1>4, WireAssumption DEF NoSlot
  <2>2. \A j \in 1..MaxNode : shm[j].client = c => j = i
    BY <1>1, <2>1 DEF ShmIsIssued
  <2>3. ShownTo(c)' = {}
    BY <1>2, <2>2 DEF ShownTo
  <2>4. ShownKeys' = [ShownKeys EXCEPT ![c] = 0]
    BY <1>3, <1>4, <2>3 DEF ShownKeys, ShownKey
  <2>5. Lifecycle!Hide(c)
    BY <1>1, <2>4, Actions
  <2> QED BY <1>4, <2>5 DEF Lifecycle!Next
<1>5. CASE c \notin Clients
  <2>1. UNCHANGED ShownKeys
    BY <1>3, <1>5 DEF ShownKeys
  <2> QED BY <1>1, <2>1, Actions
<1> QED BY <1>4, <1>5

\* updataKeyState revokes a key that is shown no more.
LEMMA LUpdateState ==
  ASSUME PInv, RInv, NEW w \in Workers, UpdateState(w), UNCHANGED clientVars
  PROVE  Lifecycle!Next \/ UNCHANGED Lifecycle!vars
<1> DEFINE t == task[w]
<1> PICK n : n = t.req.id
  OBVIOUS
<1>1. /\ ServerData /\ Current(t) /\ t.pc = "state" /\ UNCHANGED <<ShownKeys, HeldKeys>>
  BY ShmKept, SlotsKept, Parts DEF RInv, SInv, UpdateState
<1>2. CASE db' = [db EXCEPT ![n].state = 0]
  <2>1. Rows' = Rows
    BY <1>2 DEF Rows
  <2>2. \A m \in Rows : /\ db'[m].client = db[m].client
                        /\ db'[m].state = IF m = n THEN 0 ELSE db[m].state
    <3>1. \A m \in Rows : db[m] \in [client : Clients, key : Keys, state : {0, 1}]
      BY <1>1, RowData DEF Rows
    <3> QED BY <1>2, <3>1 DEF Rows
  <2>3. UNCHANGED Owners
    BY <2>1, <2>2 DEF Owners
  <2>4. Active' = Active \ {n}
    BY <2>1, <2>2 DEF Active
  <2>5. CASE n \in Active
    <3>1. \A j \in 1..MaxNode : shm[j].id = n => shm[j].status = 0
      BY <1>1 DEF Current
    <3>2. n \in Rows /\ n # 0 /\ db[n].client \in Clients
      <4>1. n \in Rows
        BY <2>5 DEF Active
      <4>2. db[n] \in [client : Clients, key : Keys, state : {0, 1}]
        BY <1>1, <4>1, RowData DEF Rows
      <4>3. Rows = 1..Len(db) /\ Len(db) \in Nat
        BY <1>1 DEF Rows, ServerData
      <4> QED BY <4>1, <4>2, <4>3
    <3> PICK c : c = db[n].client
      OBVIOUS
    <3>3. ShownKey(c) # n
      <4>1. CASE ShownTo(c) = {}
        BY <3>2, <4>1 DEF ShownKey
      <4>2. CASE ShownTo(c) # {}
        <5>1. ShownTo(c) \in SUBSET (1..MaxNode) /\ MaxNode \in Nat
          BY ServerAssumption DEF ShownTo
        <5>2. FirstOf(ShownTo(c)) \in ShownTo(c)
          BY <4>2, <5>1, FirstIs
        <5>3. /\ FirstOf(ShownTo(c)) \in 1..MaxNode
              /\ shm[FirstOf(ShownTo(c))].status = 1
          BY <5>2 DEF ShownTo
        <5> QED BY <3>1, <4>2, <5>3 DEF ShownKey
      <4> QED BY <4>1, <4>2
    <3>4. Owners[n] = c /\ n \in DOMAIN Owners /\ ShownKeys[c] # n
      BY <3>2, <3>3 DEF Owners, ShownKeys
    <3>5. Lifecycle!Revoke(n)
      BY <1>1, <2>3, <2>4, <2>5, <3>4, Actions
    <3> QED BY <3>4, <3>5 DEF Lifecycle!Next, Owners
  <2>6. CASE n \notin Active
    <3>1. UNCHANGED Active
      BY <2>4, <2>6
    <3> QED BY <1>1, <2>3, <3>1, Actions
  <2> QED BY <2>5, <2>6
<1>3. CASE UNCHANGED db
  BY <1>1, <1>3, RowsKept, Actions
<1> QED BY <1>2, <1>3 DEF UpdateState

LEMMA LRestart ==
  ASSUME Restart, UNCHANGED clientVars
  PROVE  Lifecycle!Next \/ UNCHANGED Lifecycle!vars
<1>1. UNCHANGED <<Owners, Active, HeldKeys>>
  BY RowsKept, SlotsKept DEF Restart
<1>2. \A c \in Clients : ShownTo(c)' = {}
  BY WireAssumption DEF Restart, NoSlots, NoSlot, ShownTo
<1>3. ShownKeys' = [c \in Clients |-> 0]
  BY <1>2 DEF ShownKeys, ShownKey
<1>4. Lifecycle!HideAll
  BY <1>1, <1>3, Actions
<1> QED BY <1>4 DEF Lifecycle!Next

LEMMA LStep ==
  ASSUME PInv, RInv, OneThread, [Next]_vars
  PROVE  Lifecycle!Next \/ UNCHANGED Lifecycle!vars
<1>1. ASSUME UNCHANGED <<db, shm>>, UNCHANGED clientVars PROVE UNCHANGED Lifecycle!vars
  BY <1>1, RowsKept, ShmKept, SlotsKept, Actions
<1>2. CASE UNCHANGED vars
  BY <1>1, <1>2 DEF vars, serverVars
<1>3. ASSUME NEW c \in Clients, ClientStep(c), UNCHANGED serverVars
      PROVE  Lifecycle!Next \/ UNCHANGED Lifecycle!vars
  BY <1>3, LClients
<1>4. ASSUME NEW w \in Workers, Server(w), UNCHANGED clientVars
      PROVE  Lifecycle!Next \/ UNCHANGED Lifecycle!vars
  <2>1. \/ TakeRequest(w) \/ RandomNum(w) \/ Premaster(w) \/ Query(w) \/ Mac(w)
        \/ LastInsertId(w) \/ FindSlot(w)
        => UNCHANGED <<db, shm>>
    BY DEF TakeRequest, RandomNum, Premaster, Query, Mac, LastInsertId, FindSlot
  <2> QED BY <1>1, <1>4, <2>1, LInsert, LShmWrite, LSetStatus, LUpdateState DEF Server
<1>5. CASE Restart /\ UNCHANGED clientVars
  BY <1>5, LRestart
<1> QED BY <1>2, <1>3, <1>4, <1>5 DEF Next

\* Clients and server implement KeyLifecycle, whatever fails, is refused, dies
\* or is started again: with one thread, answers in time, nobody asking for a
\* check, and a segment that can be attached.
THEOREM Implementation ==
  ASSUME OneThread, ~Timeouts, OnlyRevokes
  PROVE  Spec => KeepsLifecycle
<1>1. Init => PInv /\ RInv /\ Lifecycle!Init
  BY PInit, RInit, LInit
<1>2. PInv /\ RInv /\ [Next]_vars => PInv' /\ RInv'
  BY PNext, RNext
<1>3. PInv /\ RInv /\ [Next]_vars => [Lifecycle!Next]_Lifecycle!vars
  BY LStep
<1> QED BY <1>1, <1>2, <1>3, PTL DEF Spec, KeepsLifecycle, Lifecycle!Spec
=============================================================================

------------------------- MODULE KeyProtocolProofs -------------------------
(***************************************************************************)
(* What holds of KeyProtocol for any clients, any bounds, any failures,    *)
(* restarts and late answers.                                              *)
(***************************************************************************)
EXTENDS KeyProtocol, QueueLemmas, WellFoundedInduction, TLAPS

----------------------------------------------------------------------------
(* The data.                                                               *)

Tasks ==
  [pc : {"idle", "RANDOMNUM", "PREKEY", "KEYCHECK", "KEYREVOKE", "mac",
         "insert", "lastid", "write", "find", "status", "state"},
   client : Clients \cup {NoClient}, req : Requests, fd : Fds \cup {0},
   key : Keys, hmac : 1..HmacSize, conn : 1..ConnSize, id : Nat,
   slot : 1..MaxNode]

LEMMA KeyData ==
  /\ Blank \in Randoms /\ NoKey \in Keys
  /\ \A a, b, d \in Randoms : Key(a, b, d) \in Keys
  /\ \A c \in Clients, n \in 1..MaxOps : <<c, n>> \in Randoms
<1>1. Blank \in Randoms
  BY DEF Blank, Randoms
<1>2. \A a, b, d \in Randoms : Key(a, b, d) \in Keys
  BY DEF Key, Keys
<1>3. \A c \in Clients, n \in 1..MaxOps : <<c, n>> \in Randoms
  BY DEF Randoms
<1> QED BY <1>1, <1>2, <1>3 DEF NoKey

LEMMA RequestData ==
  ASSUME NEW r \in Requests
  PROVE  /\ r.type \in {"RANDOMNUM", "PREKEY", "KEYCHECK", "KEYREVOKE"}
         /\ r.type = "RANDOMNUM" => r.random \in Randoms
         /\ r.type = "PREKEY" => r.pm \in Randoms /\ r.key \in Keys
         /\ r.type \in {"KEYCHECK", "KEYREVOKE"} => r.id \in Nat /\ r.key \in Keys
BY DEF Requests

LEMMA NewRequests ==
  /\ \A x \in Randoms : [type |-> "RANDOMNUM", random |-> x] \in Requests
  /\ \A x \in Randoms, k \in Keys : [type |-> "PREKEY", pm |-> x, key |-> k] \in Requests
  /\ \A n \in Nat, k \in Keys :
       /\ [type |-> "KEYCHECK", id |-> n, key |-> k] \in Requests
       /\ [type |-> "KEYREVOKE", id |-> n, key |-> k] \in Requests
BY DEF Requests

LEMMA NewAnswers ==
  \A ty \in {"RANDOMNUM", "PREKEY", "KEYCHECK", "KEYREVOKE"},
     rv \in {"SUCCESS", "AUTHERR", "SERVERERR"}, x \in Randoms, n \in Nat :
       Answer(ty, rv, x, n) \in Answers
BY DEF Answer, Answers

LEMMA AnswerData ==
  ASSUME NEW a \in Answers
  PROVE  a.type \in {"RANDOMNUM", "PREKEY", "KEYCHECK", "KEYREVOKE"}
         /\ a.random \in Randoms /\ a.id \in Nat
BY DEF Answers

LEMMA TaskData ==
  ASSUME NEW t \in Tasks
  PROVE  /\ t.pc \in {"idle", "RANDOMNUM", "PREKEY", "KEYCHECK", "KEYREVOKE", "mac",
                      "insert", "lastid", "write", "find", "status", "state"}
         /\ t.client \in Clients \cup {NoClient} /\ t.req \in Requests
         /\ t.fd \in Fds \cup {0} /\ t.key \in Keys /\ t.hmac \in 1..HmacSize
         /\ t.conn \in 1..ConnSize /\ t.id \in Nat /\ t.slot \in 1..MaxNode
BY DEF Tasks

LEMMA IdleTask == Idle \in Tasks
<1>1. NoReq \in Requests
  BY KeyData, NewRequests DEF NoReq
<1>2. NoKey \in Keys /\ 1 \in 1..HmacSize /\ 1 \in 1..ConnSize /\ 1 \in 1..MaxNode /\ 0 \in Nat
  BY KeyData, ServerAssumption
<1> QED BY <1>1, <1>2 DEF Idle, Tasks

LEMMA Typed == TypeOK <=>
  /\ WireOK /\ ClientOK /\ task \in [Workers -> Tasks]
  /\ randomNum \in [Fds -> [cr : Randoms, sr : Randoms]]
  /\ db \in Seq([client : Clients, key : Keys, state : {0, 1}])
  /\ shm \in [1..MaxNode -> [client : Clients \cup {NoClient}, key : Keys,
                             id : Nat, status : {0, 1}]]
  /\ hmacs \in Seq(1..HmacSize) /\ hkey \in [1..HmacSize -> Keys]
  /\ conns \in Seq(1..ConnSize) /\ lastId \in [1..ConnSize -> Nat]
  /\ fails \in 0..MaxFail
  /\ confirmed \in SUBSET Nat
  /\ crashes \in 0..MaxCrash /\ before \in Nat
BY DEF TypeOK, ServerOK, Tasks

\* A temporary of the two pools gives back what it took.
LEMMA Rotated ==
  ASSUME NEW S, NEW s \in Seq(S), s # <<>>
  PROVE  Head(s) \in S /\ Rotate(s) \in Seq(S) /\ Rotate(s) # <<>>
<1> DEFINE x == Head(s)
           u == Tail(s)
<1>1. x \in S /\ u \in Seq(S)
  BY HeadTail
<1>2. Rotate(s) = Append(u, x) /\ Head(s) = x
  BY DEF Rotate
<1> HIDE DEF x, u
<1>3. Append(u, x) \in Seq(S) /\ Len(Append(u, x)) = Len(u) + 1 /\ Len(u) \in Nat
  BY <1>1
<1>4. Append(u, x) # <<>>
  BY <1>3, Len(<<>>) = 0
<1> QED BY <1>1, <1>2, <1>3, <1>4

----------------------------------------------------------------------------
(* Types.                                                                  *)

\* The request a worker handles fits the place where it is.
Fits(t) ==
  /\ t.pc # "idle" => t.client \in Clients /\ t.fd \in Fds
  /\ t.pc \in {"RANDOMNUM", "PREKEY", "KEYCHECK", "KEYREVOKE"} => t.req.type = t.pc
  /\ t.pc = "mac" => t.req.type # "RANDOMNUM"
  /\ t.pc \in {"insert", "lastid"} => t.req.type = "PREKEY"
  /\ t.pc = "write" => t.req.type \in {"PREKEY", "KEYCHECK"}
  /\ t.pc \in {"find", "status", "state"} => t.req.type = "KEYREVOKE"

Shape ==
  /\ \A w \in Workers : Fits(task[w])
  /\ hmacs # <<>> /\ conns # <<>>
  /\ \A c \in Clients : pc[c] = "random" => ops[c] # 0

TInv == TypeOK /\ Shape

\* An answer leaves the worker idle and the wire typed.
LEMMA Replied ==
  ASSUME TInv, NEW w \in Workers, task[w].pc # "idle",
         NEW rv \in {"SUCCESS", "AUTHERR", "SERVERERR"},
         NEW x \in Randoms, NEW n \in Nat, Reply(w, rv, x, n)
  PROVE  /\ WireOK' /\ task' \in [Workers -> Tasks]
         /\ \A v \in Workers : task'[v] = IF v = w THEN Idle ELSE task[v]
         /\ \A v \in Workers : Fits(task'[v])
<1>1. task \in [Workers -> Tasks] /\ WireOK /\ \A v \in Workers : Fits(task[v])
  BY Typed DEF TInv, Shape
<1>2. task' = [task EXCEPT ![w] = Idle] /\ UNCHANGED <<fd, alive, cut, toServer>>
  BY DEF Reply
<1>3. Fits(Idle)
  BY DEF Fits, Idle
<1>4. toClient' \in [Clients -> Seq(Answers)]
  <2> DEFINE c == task[w].client
             a == Answer(task[w].req.type, rv, x, n)
  <2>1. toClient' = toClient \/ toClient' = [toClient EXCEPT ![c] = Append(@, a)]
    BY DEF Reply
  <2>2. c \in Clients /\ a \in Answers
    <3>1. task[w] \in Tasks /\ Fits(task[w])
      BY <1>1
    <3>2. task[w].req.type \in {"RANDOMNUM", "PREKEY", "KEYCHECK", "KEYREVOKE"}
      BY <3>1, TaskData, RequestData
    <3> QED BY <3>1, <3>2, NewAnswers DEF Fits
  <2>3. toClient \in [Clients -> Seq(Answers)]
    BY <1>1 DEF WireOK
  <2> HIDE DEF c, a
  <2>4. [toClient EXCEPT ![c] = Append(@, a)] \in [Clients -> Seq(Answers)]
    BY <2>2, <2>3
  <2> QED BY <2>1, <2>3, <2>4
<1> QED BY <1>1, <1>2, <1>3, <1>4, IdleTask DEF WireOK

LEMMA TInit == Init => TInv
<1> SUFFICES ASSUME Init PROVE TInv
  OBVIOUS
<1>1. task = AllIdle /\ AllIdle \in [Workers -> Tasks]
  BY IdleTask DEF Init, ServerInit, AllIdle
<1>2. WireOK
  BY DEF Init, ClientInit, WireOK
<1>3. ClientOK
  <2>1. NoKeyHeld \in [key : Keys, id : Nat, status : {0, 1}] /\ NoKey \in Keys
    BY KeyData DEF NoKeyHeld
  <2>2. NoVerdict \in [op : {"none"} \cup {"agree", "check", "revoke"}, ok : BOOLEAN, id : Nat]
    BY DEF NoVerdict
  <2>3. 0 \in 0..MaxOps /\ 0 \in 0..MaxLives
    BY WireAssumption, ClientAssumption
  <2> QED BY <2>1, <2>2, <2>3 DEF Init, ClientInit, ClientOK
<1>4. /\ randomNum \in [Fds -> [cr : Randoms, sr : Randoms]]
      /\ shm \in [1..MaxNode -> [client : Clients \cup {NoClient}, key : Keys,
                                 id : Nat, status : {0, 1}]]
      /\ hkey \in [1..HmacSize -> Keys] /\ lastId \in [1..ConnSize -> Nat]
  BY KeyData DEF Init, ServerInit, NoRandoms, NoSlots, NoSlot, NoKeys, NoIds
<1>5. /\ hmacs \in Seq(1..HmacSize) /\ hmacs # <<>>
      /\ conns \in Seq(1..ConnSize) /\ conns # <<>>
  BY ServerAssumption DEF Init, ServerInit, AllHmacs, AllConns
<1>6. /\ db \in Seq([client : Clients, key : Keys, state : {0, 1}])
      /\ fails \in 0..MaxFail /\ confirmed \in SUBSET Nat
      /\ crashes \in 0..MaxCrash /\ before \in Nat
  BY ServerAssumption DEF Init, ServerInit
<1>7. TypeOK
  BY <1>1, <1>2, <1>3, <1>4, <1>5, <1>6, Typed
<1>8. \A w \in Workers : Fits(task[w])
  BY <1>1 DEF AllIdle, Idle, Fits
<1>9. \A c \in Clients : pc[c] # "random"
  BY DEF Init, ClientInit
<1> QED BY <1>5, <1>7, <1>8, <1>9 DEF TInv, Shape

\* What the client's pieces do to the wire.
LEMMA Sent ==
  ASSUME WireOK, NEW c \in Clients, NEW req \in Requests, Send(c, req)
  PROVE  toServer' \in [Clients -> Seq(Requests)]
<1>1. toServer \in [Clients -> Seq(Requests)]
  BY DEF WireOK
<1>2. toServer' = toServer \/ toServer' = [toServer EXCEPT ![c] = Append(@, req)]
  BY DEF Send
<1>3. [toServer EXCEPT ![c] = Append(@, req)] \in [Clients -> Seq(Requests)]
  BY <1>1
<1> QED BY <1>1, <1>2, <1>3

LEMMA Received ==
  ASSUME WireOK, NEW c \in Clients, Receive(c)
  PROVE  /\ Incoming(c) \in Answers
         /\ toClient' \in [Clients -> Seq(Answers)]
         /\ fd' \in [Clients -> Fds] /\ alive' \in SUBSET Clients
         /\ cut' \in SUBSET alive'
<1>1. toClient \in [Clients -> Seq(Answers)] /\ toClient[c] # <<>>
  BY DEF WireOK, Receive
<1>2. Head(toClient[c]) \in Answers /\ Tail(toClient[c]) \in Seq(Answers)
  BY <1>1, HeadTail
<1>3. [toClient EXCEPT ![c] = Tail(@)] \in [Clients -> Seq(Answers)]
  BY <1>1, <1>2
<1> QED BY <1>2, <1>3 DEF Receive, Incoming, WireOK

\* A step of a client touches neither server nor tasks.
LEMMA TClientStep ==
  ASSUME TInv, UNCHANGED serverVars, WireOK', ClientOK',
         \A c \in Clients : pc'[c] = "random" => ops'[c] # 0
  PROVE  TInv'
<1>1. ServerOK' = ServerOK
  BY DEF serverVars, poolVars, historyVars, ServerOK
<1>2. TypeOK'
  BY <1>1 DEF TInv, TypeOK
<1>3. (\A w \in Workers : Fits(task[w])) /\ task' = task /\ hmacs' = hmacs /\ conns' = conns
  BY DEF TInv, Shape, serverVars, poolVars
<1>4. (hmacs # <<>> /\ conns # <<>>)'
  BY <1>3 DEF TInv, Shape
<1>5. (\A w \in Workers : Fits(task[w]))'
  BY <1>3
<1> QED BY <1>2, <1>4, <1>5 DEF TInv, Shape

LEMMA TDie ==
  ASSUME TInv, NEW c \in Clients, Die(c), UNCHANGED serverVars
  PROVE  TInv'
<1>1. WireOK /\ ClientOK /\ \A d \in Clients : pc[d] = "random" => ops[d] # 0
  BY DEF TInv, TypeOK, Shape
<1>2. WireOK'
  BY <1>1 DEF WireOK, Die
<1>3. ClientOK'
  BY <1>1 DEF ClientOK, Die
<1>4. \A d \in Clients : pc'[d] = "random" => ops'[d] # 0
  BY <1>1 DEF Die, ClientOK
<1> QED BY <1>2, <1>3, <1>4, TClientStep

LEMMA TBegin ==
  ASSUME TInv, NEW c \in Clients, NEW op, NEW req \in Requests,
         NEW next \in {"random", "check", "revoke"},
         Begin(c, op, next, req), UNCHANGED serverVars
  PROVE  TInv'
<1>1. WireOK /\ ClientOK /\ \A d \in Clients : pc[d] = "random" => ops[d] # 0
  BY DEF TInv, TypeOK, Shape
<1>2. toServer' \in [Clients -> Seq(Requests)]
  BY <1>1, Sent DEF Begin
<1>3. WireOK'
  BY <1>1, <1>2 DEF WireOK, Begin
<1>4. ops' \in [Clients -> 0..MaxOps] /\ ops'[c] # 0
  BY <1>1, WireAssumption DEF Begin, ClientOK
<1>5. pc' \in [Clients -> {"menu", "random", "keyid", "check", "revoke"}]
  BY <1>1 DEF Begin, ClientOK
<1>6. ClientOK'
  BY <1>1, <1>4, <1>5 DEF Begin, ClientOK
<1>7. \A d \in Clients : pc'[d] = "random" => ops'[d] # 0
  BY <1>1, <1>4 DEF Begin, ClientOK
<1> QED BY <1>3, <1>6, <1>7, TClientStep

LEMMA TEnd ==
  ASSUME TInv, NEW c \in Clients, NEW op \in {"agree", "check", "revoke"}, NEW ok \in BOOLEAN,
         End(c, op, ok), WireOK', UNCHANGED <<ops, mine, cshm, lives>>,
         UNCHANGED serverVars
  PROVE  TInv'
<1>1. ClientOK /\ \A d \in Clients : pc[d] = "random" => ops[d] # 0
  BY DEF TInv, TypeOK, Shape
<1>2. cshm[c].id \in Nat
  BY <1>1 DEF ClientOK
<1>3. verdict' \in [Clients -> [op : {"none"} \cup {"agree", "check", "revoke"},
                                ok : BOOLEAN, id : Nat]]
  BY <1>1, <1>2 DEF End, ClientOK
<1>4. ClientOK'
  BY <1>1, <1>3 DEF End, ClientOK
<1>5. \A d \in Clients : pc'[d] = "random" => ops'[d] # 0
  BY <1>1 DEF End, ClientOK
<1> QED BY <1>4, <1>5, TClientStep

LEMMA TBegins ==
  ASSUME TInv, NEW c \in Clients, Begins(c), UNCHANGED serverVars
  PROVE  TInv'
<1>1. ClientOK /\ cshm[c].id \in Nat /\ cshm[c].key \in Keys /\ ops[c] \in 0..MaxOps
  BY DEF TInv, TypeOK, ClientOK
<1>2. CASE BeginAgree(c)
  <2>1. ops[c] + 1 \in 1..MaxOps
    BY <1>1, <1>2, WireAssumption DEF BeginAgree, Begin
  <2>2. [type |-> "RANDOMNUM", random |-> <<c, ops[c] + 1>>] \in Requests
    BY <2>1, KeyData, NewRequests
  <2> QED BY <1>2, <2>2, TBegin DEF BeginAgree
<1>3. CASE BeginCheck(c)
  BY <1>1, <1>3, NewRequests, TBegin DEF BeginCheck
<1>4. CASE BeginRevoke(c)
  BY <1>1, <1>4, NewRequests, TBegin DEF BeginRevoke
<1> QED BY <1>2, <1>3, <1>4 DEF Begins

LEMMA TReceives ==
  ASSUME TInv, NEW c \in Clients, Receives(c), UNCHANGED serverVars
  PROVE  TInv'
<1>1. WireOK /\ ClientOK /\ \A d \in Clients : pc[d] = "random" => ops[d] # 0
  BY DEF TInv, TypeOK, Shape
<1>2. ASSUME Receive(c), UNCHANGED toServer
      PROVE  WireOK'
  BY <1>1, <1>2, Received DEF WireOK
<1>3. CASE RecvRandom(c)
  <2> DEFINE a == Incoming(c)
             own == <<c, ops[c]>>
             k == Key(own, a.random, own)
  <2>1. /\ pc[c] = "random" /\ Receive(c)
        /\ Send(c, [type |-> "PREKEY", pm |-> own, key |-> k])
        /\ mine' = [mine EXCEPT ![c] = k]
        /\ pc' = [pc EXCEPT ![c] = "keyid"]
        /\ UNCHANGED <<cshm, verdict, ops, lives>>
    BY <1>3 DEF RecvRandom, Receive
  <2>2. a \in Answers /\ ops[c] \in 0..MaxOps /\ ops[c] # 0
    BY <1>1, <2>1, Received DEF ClientOK
  <2>3. own \in Randoms /\ a.random \in Randoms
    <3>1. ops[c] \in 1..MaxOps
      BY <2>2, WireAssumption
    <3> QED BY <3>1, <2>2, KeyData, AnswerData
  <2> HIDE DEF a, own
  <2>4. k \in Keys
    BY <2>3, KeyData
  <2> HIDE DEF k
  <2>5. [type |-> "PREKEY", pm |-> own, key |-> k] \in Requests
    BY <2>3, <2>4, NewRequests
  <2>6. WireOK'
    BY <1>1, <2>1, <2>5, Received, Sent DEF WireOK
  <2>7. ClientOK'
    BY <1>1, <2>1, <2>4 DEF ClientOK
  <2>8. \A d \in Clients : pc'[d] = "random" => ops'[d] # 0
    BY <1>1, <2>1 DEF ClientOK
  <2> QED BY <2>6, <2>7, <2>8, TClientStep
<1>4. CASE RecvKeyId(c)
  <2> DEFINE a == Incoming(c)
  <2>1. /\ Receive(c) /\ UNCHANGED <<toServer, mine, ops, lives>>
        /\ cshm' = [cshm EXCEPT ![c] = [key |-> mine[c], id |-> a.id, status |-> 1]]
        /\ verdict' = [verdict EXCEPT ![c] = [op |-> "agree", ok |-> TRUE, id |-> a.id]]
        /\ pc' = [pc EXCEPT ![c] = "menu"]
    BY <1>4 DEF RecvKeyId, Receive
  <2>2. a.id \in Nat
    BY <1>1, <2>1, Received, AnswerData
  <2> HIDE DEF a
  <2>3. cshm' \in [Clients -> [key : Keys, id : Nat, status : {0, 1}]]
    BY <1>1, <2>1, <2>2 DEF ClientOK
  <2>4. verdict' \in [Clients -> [op : {"none"} \cup {"agree", "check", "revoke"},
                                  ok : BOOLEAN, id : Nat]]
    BY <1>1, <2>1, <2>2 DEF ClientOK
  <2>5. ClientOK'
    BY <1>1, <2>1, <2>3, <2>4 DEF ClientOK
  <2>6. \A d \in Clients : pc'[d] = "random" => ops'[d] # 0
    BY <1>1, <2>1 DEF ClientOK
  <2> QED BY <1>2, <2>1, <2>5, <2>6, TClientStep
<1>5. CASE AgreeRefused(c)
  BY <1>2, <1>5, TEnd DEF AgreeRefused, Receive
<1>6. CASE AgreeCrash(c)
  BY <1>6, TDie DEF AgreeCrash
<1>7. CASE RecvCheck(c)
  <2> DEFINE ok == Incoming(c).rv = "SUCCESS"
  <2>1. Receive(c) /\ UNCHANGED toServer /\ UNCHANGED <<ops, mine, cshm, lives>>
    BY <1>7 DEF RecvCheck, Receive
  <2>2. End(c, "check", ok) /\ ok \in BOOLEAN
    BY <1>7 DEF RecvCheck
  <2> HIDE DEF ok
  <2> QED BY <1>2, <2>1, <2>2, TEnd
<1>8. CASE RecvRevoke(c)
  <2> DEFINE ok == Incoming(c).type = "KEYREVOKE" /\ Incoming(c).rv = "SUCCESS"
  <2>1. Receive(c) /\ UNCHANGED toServer /\ UNCHANGED <<ops, mine, cshm, lives>>
    BY <1>8 DEF RecvRevoke, Receive
  <2>2. End(c, "revoke", ok) /\ ok \in BOOLEAN
    BY <1>8 DEF RecvRevoke
  <2> HIDE DEF ok
  <2> QED BY <1>2, <2>1, <2>2, TEnd
<1> QED BY <1>3, <1>4, <1>5, <1>6, <1>7, <1>8 DEF Receives

LEMMA TClients ==
  ASSUME TInv, NEW c \in Clients, ClientStep(c), UNCHANGED serverVars
  PROVE  TInv'
<1>1. WireOK /\ ClientOK /\ \A d \in Clients : pc[d] = "random" => ops[d] # 0
  BY DEF TInv, TypeOK, Shape
<1>2. CASE GivesUp(c)
  <2>1. ASSUME UNCHANGED wireVars PROVE WireOK'
    BY <1>1, <2>1 DEF WireOK, wireVars
  <2>2. CASE CheckTimeout(c)
    BY <2>1, <2>2, TEnd DEF CheckTimeout
  <2>3. CASE RevokeTimeout(c)
    BY <2>1, <2>3, TEnd DEF RevokeTimeout
  <2>4. CASE AgreeTimeout(c)
    BY <2>4, TDie DEF AgreeTimeout
  <2> QED BY <1>2, <2>2, <2>3, <2>4 DEF GivesUp
<1>3. CASE Start(c, HandledFds)
  <2>1. PICK f \in Fds :
          /\ fd' = [fd EXCEPT ![c] = f]
          /\ toServer' = [d \in Clients |-> IF d = c \/ fd[d] = f THEN <<>> ELSE toServer[d]]
    BY <1>3 DEF Start
  <2>2. WireOK'
    BY <1>1, <1>3, <2>1 DEF WireOK, Start
  <2>3. lives[c] \in 0..MaxLives /\ lives[c] < MaxLives
    BY <1>1, <1>3 DEF ClientOK, Start
  <2>4. lives' \in [Clients -> 0..MaxLives]
    BY <1>1, <1>3, <2>3, ClientAssumption DEF ClientOK, Start
  <2>5. NoKeyHeld \in [key : Keys, id : Nat, status : {0, 1}]
    BY KeyData DEF NoKeyHeld
  <2>6. NoVerdict \in [op : {"none"} \cup {"agree", "check", "revoke"}, ok : BOOLEAN, id : Nat]
    BY DEF NoVerdict
  <2>7. ClientOK'
    BY <1>1, <1>3, <2>4, <2>5, <2>6 DEF ClientOK, Start
  <2>8. \A d \in Clients : pc'[d] = "random" => ops'[d] # 0
    BY <1>1, <1>3 DEF Start
  <2> QED BY <2>2, <2>7, <2>8, TClientStep
<1>4. CASE Killed(c) \/ Quit(c)
  BY <1>4, TDie DEF Killed, Quit
<1> QED BY <1>2, <1>3, <1>4, TBegins, TReceives DEF ClientStep

\* A step of the server touches no client.
ServerData ==
  /\ randomNum \in [Fds -> [cr : Randoms, sr : Randoms]]
  /\ db \in Seq([client : Clients, key : Keys, state : {0, 1}])
  /\ shm \in [1..MaxNode -> [client : Clients \cup {NoClient}, key : Keys,
                             id : Nat, status : {0, 1}]]
  /\ fails \in 0..MaxFail /\ confirmed \in SUBSET Nat
  /\ crashes \in 0..MaxCrash /\ before \in Nat

Pools ==
  /\ hmacs \in Seq(1..HmacSize) /\ hkey \in [1..HmacSize -> Keys]
  /\ conns \in Seq(1..ConnSize) /\ lastId \in [1..ConnSize -> Nat]
  /\ hmacs # <<>> /\ conns # <<>>

TasksOK == task \in [Workers -> Tasks] /\ \A v \in Workers : Fits(task[v])

LEMMA Parts ==
  TInv <=> /\ WireOK /\ ClientOK /\ ServerData /\ Pools /\ TasksOK
           /\ \A c \in Clients : pc[c] = "random" => ops[c] # 0
BY Typed DEF TInv, Shape, ServerData, Pools, TasksOK

LEMMA TServerStep ==
  ASSUME TInv, UNCHANGED clientVars, WireOK', ServerData', Pools', TasksOK'
  PROVE  TInv'
<1>1. ClientOK' /\ \A c \in Clients : pc'[c] = "random" => ops'[c] # 0
  BY Parts DEF clientVars, ClientOK
<1>2. TypeOK'
  BY <1>1, Typed DEF ServerData, Pools, TasksOK, TypeOK, ServerOK, Tasks
<1> QED BY <1>1, <1>2 DEF TInv, Shape, Pools, TasksOK

LEMMA Updated ==
  ASSUME TasksOK, NEW w \in Workers, NEW t \in Tasks, Fits(t), task' = [task EXCEPT ![w] = t]
  PROVE  TasksOK'
BY DEF TasksOK

LEMMA RepliedOK ==
  ASSUME TInv, NEW w \in Workers, task[w].pc # "idle",
         NEW rv \in {"SUCCESS", "AUTHERR", "SERVERERR"},
         NEW x \in Randoms, NEW n \in Nat, Reply(w, rv, x, n)
  PROVE  WireOK' /\ TasksOK'
BY Replied DEF TasksOK

LEMMA RefusedOK ==
  ASSUME TInv, NEW w \in Workers, task[w].pc # "idle",
         NEW rv \in {"SUCCESS", "AUTHERR", "SERVERERR"}, Refuse(w, rv)
  PROVE  WireOK' /\ TasksOK'
<1>1. Blank \in Randoms /\ 0 \in Nat
  BY KeyData
<1> QED BY <1>1, RepliedOK DEF Refuse

\* The pools as the temporaries of a handler leave them.
LEMMA PoolsKept ==
  ASSUME Pools, (hmacs' = hmacs /\ hkey' = hkey)
                  \/ (hmacs' = Rotate(hmacs) /\ \E k \in Keys : hkey' = [hkey EXCEPT ![Head(hmacs)] = k]),
         conns' = conns \/ conns' = Rotate(conns),
         lastId' = lastId
           \/ \E n \in Nat : lastId' = [lastId EXCEPT ![Head(conns)] = n]
  PROVE  Pools'
<1>1. /\ hmacs \in Seq(1..HmacSize) /\ hkey \in [1..HmacSize -> Keys]
      /\ conns \in Seq(1..ConnSize) /\ lastId \in [1..ConnSize -> Nat]
      /\ hmacs # <<>> /\ conns # <<>>
  BY DEF Pools
<1>2. Rotate(hmacs) \in Seq(1..HmacSize) /\ Rotate(hmacs) # <<>>
  BY <1>1, Rotated
<1>3. Rotate(conns) \in Seq(1..ConnSize) /\ Rotate(conns) # <<>>
  BY <1>1, Rotated
<1>4. hkey' \in [1..HmacSize -> Keys]
  BY <1>1
<1>5. lastId' \in [1..ConnSize -> Nat]
  BY <1>1
<1> QED BY <1>1, <1>2, <1>3, <1>4, <1>5 DEF Pools

LEMMA DataKept ==
  ASSUME ServerData, UNCHANGED <<randomNum, db, shm, historyVars>>,
         UNCHANGED fails \/ Fail
  PROVE  ServerData'
<1>1. fails' \in 0..MaxFail
  BY ServerAssumption DEF ServerData, Fail
<1> QED BY <1>1 DEF ServerData, historyVars

LEMMA RowData ==
  ASSUME ServerData, NEW n \in DOMAIN db
  PROVE  db[n] \in [client : Clients, key : Keys, state : {0, 1}] /\ db[n].key \in Keys
<1> DEFINE S == [client : Clients, key : Keys, state : {0, 1}]
<1>1. db \in Seq(S)
  BY DEF ServerData
<1>2. \A r \in S : r.key \in Keys
  OBVIOUS
<1> HIDE DEF S
<1>3. n \in 1..Len(db)
  BY <1>1
<1>4. db[n] \in S
  BY <1>1, <1>3, Element
<1> QED BY <1>2, <1>4 DEF S

LEMMA TTakeRequest ==
  ASSUME TInv, NEW w \in Workers, TakeRequest(w), UNCHANGED clientVars
  PROVE  TInv'
<1>1. WireOK /\ ServerData /\ Pools /\ TasksOK
  BY Parts
<1>2. PICK c \in Clients :
        /\ toServer[c] # <<>>
        /\ toServer' = [toServer EXCEPT ![c] = Tail(@)]
        /\ task' = [task EXCEPT ![w] = [Idle EXCEPT !.pc = Head(toServer[c]).type,
                      !.client = c, !.fd = fd[c], !.req = Head(toServer[c])]]
        /\ UNCHANGED <<fd, alive, cut, toClient, randomNum, db, shm, poolVars, fails, historyVars>>
  BY DEF TakeRequest
<1> DEFINE r == Head(toServer[c])
           t == [Idle EXCEPT !.pc = r.type, !.client = c, !.fd = fd[c], !.req = r]
<1>3. r \in Requests /\ Tail(toServer[c]) \in Seq(Requests)
  BY <1>1, <1>2, HeadTail DEF WireOK
<1>4. fd[c] \in Fds
  BY <1>1 DEF WireOK
<1> HIDE DEF r
<1>5. r.type \in {"RANDOMNUM", "PREKEY", "KEYCHECK", "KEYREVOKE"}
  BY <1>3, RequestData
<1>6. t \in Tasks
  BY <1>3, <1>4, <1>5, IdleTask DEF Tasks
<1>7. t.pc = r.type /\ t.client = c /\ t.fd = fd[c] /\ t.req = r
  BY DEF Idle
<1>8. task' = [task EXCEPT ![w] = t]
  BY <1>2 DEF r
<1> HIDE DEF t
<1>9. Fits(t)
  BY <1>4, <1>5, <1>7 DEF Fits
<1>10. TasksOK'
  BY <1>1, <1>6, <1>8, <1>9, Updated
<1>11. WireOK'
  BY <1>1, <1>2, <1>3 DEF WireOK
<1>12. ServerData' /\ Pools'
  BY <1>1, <1>2, DataKept, PoolsKept DEF poolVars
<1> QED BY <1>10, <1>11, <1>12, TServerStep

LEMMA TRandomNum ==
  ASSUME TInv, NEW w \in Workers, RandomNum(w), UNCHANGED clientVars
  PROVE  TInv'
<1> DEFINE t == task[w]
<1>1. WireOK /\ ServerData /\ Pools /\ TasksOK
  BY Parts
<1>2. t \in Tasks /\ Fits(t) /\ t.pc = "RANDOMNUM"
  BY <1>1 DEF TasksOK, RandomNum
<1>3. t.req \in Requests /\ t.req.type = "RANDOMNUM"
  BY <1>2, TaskData DEF Fits
<1>4. t.req.random \in Randoms
  BY <1>3, RequestData
<1>5. WireOK' /\ TasksOK'
  BY <1>2, <1>4, RepliedOK DEF RandomNum
<1>6. randomNum' \in [Fds -> [cr : Randoms, sr : Randoms]]
  BY <1>1, <1>4 DEF RandomNum, ServerData
<1>7. ServerData'
  BY <1>1, <1>6 DEF RandomNum, ServerData, historyVars
<1>8. Pools'
  BY <1>1, PoolsKept DEF RandomNum, poolVars
<1> QED BY <1>5, <1>7, <1>8, TServerStep

LEMMA TPremaster ==
  ASSUME TInv, NEW w \in Workers, Premaster(w), UNCHANGED clientVars
  PROVE  TInv'
<1> DEFINE t == task[w]
           r == randomNum[t.fd]
           k == Key(r.cr, r.sr, t.req.pm)
           h == Head(hmacs)
           u == [t EXCEPT !.pc = "mac", !.key = k, !.hmac = h]
<1>1. WireOK /\ ServerData /\ Pools /\ TasksOK
  BY Parts
<1>2. t \in Tasks /\ Fits(t) /\ t.pc = "PREKEY"
  BY <1>1 DEF TasksOK, Premaster
<1>3. t.req \in Requests /\ t.req.type = "PREKEY" /\ t.fd \in Fds
  BY <1>2, TaskData DEF Fits
<1>4. r.cr \in Randoms /\ r.sr \in Randoms /\ t.req.pm \in Randoms
  BY <1>1, <1>3, RequestData DEF ServerData
<1>5. k \in Keys
  BY <1>4, KeyData
<1>6. h \in 1..HmacSize
  BY <1>1, HeadTail DEF Pools
<1>7. /\ randomNum' = [randomNum EXCEPT ![t.fd] = [cr |-> Blank, sr |-> Blank]]
      /\ hmacs' = Rotate(hmacs) /\ hkey' = [hkey EXCEPT ![Head(hmacs)] = k]
      /\ task' = [task EXCEPT ![w].pc = "mac", ![w].key = k, ![w].hmac = h]
      /\ UNCHANGED <<wireVars, db, shm, conns, lastId, fails, historyVars>>
  BY DEF Premaster
<1> HIDE DEF k
<1>8. Pools'
  BY <1>1, <1>5, <1>7, PoolsKept
<1>9. randomNum' \in [Fds -> [cr : Randoms, sr : Randoms]]
  BY <1>1, <1>7, KeyData DEF ServerData
<1>10. ServerData'
  BY <1>1, <1>7, <1>9 DEF ServerData, historyVars
<1> HIDE DEF h, r
<1>11. u \in Tasks /\ Fits(u)
  BY <1>2, <1>3, <1>5, <1>6 DEF Tasks, Fits
<1>12. task' = [task EXCEPT ![w] = u]
  BY <1>1, <1>7 DEF TasksOK
<1> HIDE DEF u
<1>13. TasksOK'
  BY <1>1, <1>11, <1>12, Updated
<1>14. WireOK'
  BY <1>1, <1>7 DEF WireOK, wireVars
<1> QED BY <1>8, <1>10, <1>13, <1>14, TServerStep

LEMMA TQuery ==
  ASSUME TInv, NEW w \in Workers, Query(w), UNCHANGED clientVars
  PROVE  TInv'
<1> DEFINE t == task[w]
           k == db[t.req.id].key
           h == Head(hmacs)
           s == Head(conns)
           u == [t EXCEPT !.pc = "mac", !.key = k, !.hmac = h, !.conn = s]
<1>1. WireOK /\ ServerData /\ Pools /\ TasksOK
  BY Parts
<1>2. t \in Tasks /\ Fits(t) /\ t.pc \in {"KEYCHECK", "KEYREVOKE"} /\ t.pc # "idle"
  BY <1>1 DEF TasksOK, Query
<1>3. h \in 1..HmacSize /\ s \in 1..ConnSize
  BY <1>1, HeadTail DEF Pools
<1>4. CASE /\ t.req.id \in DOMAIN db
           /\ hmacs' = Rotate(hmacs) /\ hkey' = [hkey EXCEPT ![Head(hmacs)] = k]
           /\ task' = [task EXCEPT ![w].pc = "mac", ![w].key = k, ![w].hmac = h, ![w].conn = s]
           /\ UNCHANGED <<wireVars, fails>>
  <2>1. k \in Keys
    BY <1>1, <1>4, RowData
  <2>2. conns' = Rotate(conns) /\ UNCHANGED <<randomNum, db, shm, lastId, historyVars>>
    BY DEF Query
  <2> HIDE DEF k
  <2>3. Pools'
    BY <1>1, <1>4, <2>1, <2>2, PoolsKept
  <2>4. ServerData'
    BY <1>1, <1>4, <2>2, DataKept
  <2> HIDE DEF h, s
  <2>5. u \in Tasks /\ Fits(u)
    BY <1>2, <1>3, <2>1 DEF Tasks, Fits
  <2>6. task' = [task EXCEPT ![w] = u]
    BY <1>1, <1>4 DEF TasksOK
  <2> HIDE DEF u
  <2>7. TasksOK'
    BY <1>1, <2>5, <2>6, Updated
  <2>8. WireOK'
    BY <1>1, <1>4 DEF WireOK, wireVars
  <2> QED BY <2>3, <2>4, <2>7, <2>8, TServerStep
<1>5. CASE Refuse(w, "AUTHERR") /\ UNCHANGED <<hmacs, hkey>> /\ (UNCHANGED fails \/ Fail)
  <2>1. conns' = Rotate(conns) /\ UNCHANGED <<randomNum, db, shm, lastId, historyVars>>
    BY DEF Query
  <2>2. Pools' /\ ServerData'
    BY <1>1, <1>5, <2>1, PoolsKept, DataKept
  <2>3. WireOK' /\ TasksOK'
    BY <1>2, <1>5, RefusedOK
  <2> QED BY <2>2, <2>3, TServerStep
<1> QED BY <1>4, <1>5 DEF Query

\* The steps that leave data and pools alone.
LEMMA TQuiet ==
  ASSUME TInv, NEW w \in Workers, UNCHANGED clientVars,
         UNCHANGED <<randomNum, db, shm, poolVars, historyVars>>, UNCHANGED fails \/ Fail,
         WireOK', TasksOK'
  PROVE  TInv'
<1>1. ServerData' /\ Pools'
  BY Parts, DataKept, PoolsKept DEF poolVars
<1> QED BY <1>1, TServerStep

LEMMA TGoto ==
  ASSUME TInv, NEW w \in Workers, NEW p \in {"insert", "write", "find", "status", "state"},
         Goto(w, p), Fits([task[w] EXCEPT !.pc = p])
  PROVE  TasksOK'
<1> DEFINE u == [task[w] EXCEPT !.pc = p]
<1>1. TasksOK /\ task[w] \in Tasks
  BY Parts DEF TasksOK
<1>2. u \in Tasks
  BY <1>1 DEF Tasks
<1>3. task' = [task EXCEPT ![w] = u]
  BY <1>1 DEF Goto, TasksOK
<1> QED BY <1>1, <1>2, <1>3, Updated

LEMMA TMac ==
  ASSUME TInv, NEW w \in Workers, Mac(w), UNCHANGED clientVars
  PROVE  TInv'
<1> DEFINE t == task[w]
           p == CASE t.req.type = "PREKEY"    -> "insert"
                  [] t.req.type = "KEYCHECK"  -> "write"
                  [] t.req.type = "KEYREVOKE" -> "find"
           u == [t EXCEPT !.pc = p]
<1>1. WireOK /\ t \in Tasks /\ Fits(t) /\ t.pc = "mac" /\ t.pc # "idle"
  BY Parts DEF TasksOK, Mac
<1>2. UNCHANGED <<randomNum, db, shm, poolVars, fails, historyVars>>
  BY DEF Mac
<1>3. CASE Refuse(w, "AUTHERR")
  <2>1. WireOK' /\ TasksOK'
    BY <1>1, <1>3, RefusedOK
  <2> QED BY <1>2, <2>1, TQuiet
<1>4. CASE Goto(w, p) /\ UNCHANGED wireVars
  <2>1. t.req.type \in {"PREKEY", "KEYCHECK", "KEYREVOKE"}
    BY <1>1, TaskData, RequestData DEF Fits
  <2>2. /\ t.req.type = "PREKEY" => p = "insert"
        /\ t.req.type = "KEYCHECK" => p = "write"
        /\ t.req.type = "KEYREVOKE" => p = "find"
    OBVIOUS
  <2> HIDE DEF p
  <2>3. p \in {"insert", "write", "find", "status", "state"}
    BY <2>1, <2>2
  <2>4. u.pc = p /\ u.req = t.req /\ u.client = t.client /\ u.fd = t.fd
    BY <1>1 DEF Tasks
  <2>5. Fits(u)
    BY <1>1, <2>1, <2>2, <2>4 DEF Fits
  <2>6. TasksOK'
    BY <1>4, <2>3, <2>5, TGoto
  <2>7. WireOK'
    BY <1>1, <1>4 DEF WireOK, wireVars
  <2> QED BY <1>2, <2>6, <2>7, TQuiet
<1> QED BY <1>3, <1>4 DEF Mac

LEMMA TInsert ==
  ASSUME TInv, NEW w \in Workers, Insert(w), UNCHANGED clientVars
  PROVE  TInv'
<1> DEFINE t == task[w]
           s == Head(conns)
           row == [client |-> t.client, key |-> t.key, state |-> 1]
           u == [t EXCEPT !.pc = "lastid", !.conn = s]
           R == [client : Clients, key : Keys, state : {0, 1}]
<1>1. WireOK /\ ServerData /\ Pools /\ TasksOK
  BY Parts
<1>2. t \in Tasks /\ Fits(t) /\ t.pc = "insert" /\ t.pc # "idle"
  BY <1>1 DEF TasksOK, Insert
<1>3. t.client \in Clients /\ t.key \in Keys /\ t.req.type = "PREKEY"
  BY <1>2, TaskData DEF Fits
<1>4. conns' = Rotate(conns) /\ UNCHANGED <<randomNum, shm, hmacs, hkey, historyVars>>
  BY DEF Insert
<1>5. CASE /\ db' = Append(db, row)
           /\ lastId' = [lastId EXCEPT ![s] = Len(db) + 1]
           /\ task' = [task EXCEPT ![w].pc = "lastid", ![w].conn = s]
           /\ UNCHANGED <<wireVars, fails>>
  <2>1. s \in 1..ConnSize
    BY <1>1, HeadTail DEF Pools
  <2>2. db \in Seq(R) /\ row \in R
    BY <1>1, <1>3 DEF ServerData
  <2> HIDE DEF row, R
  <2>3. Append(db, row) \in Seq(R) /\ Len(db) + 1 \in Nat
    BY <2>2
  <2>4. Pools'
    BY <1>1, <1>4, <1>5, <2>3, PoolsKept
  <2>5. db' \in Seq(R)
    BY <1>5, <2>3
  <2>6. ServerData'
    BY <1>1, <1>4, <1>5, <2>5 DEF ServerData, historyVars, R
  <2> HIDE DEF s
  <2>7. u \in Tasks /\ Fits(u)
    BY <1>2, <1>3, <2>1 DEF Tasks, Fits
  <2>8. task' = [task EXCEPT ![w] = u]
    BY <1>1, <1>5 DEF TasksOK
  <2> HIDE DEF u
  <2>9. TasksOK'
    BY <1>1, <2>7, <2>8, Updated
  <2>10. WireOK'
    BY <1>1, <1>5 DEF WireOK, wireVars
  <2> QED BY <2>4, <2>6, <2>9, <2>10, TServerStep
<1>6. CASE Fail /\ Refuse(w, "SERVERERR") /\ UNCHANGED <<db, lastId>>
  <2>1. WireOK' /\ TasksOK'
    BY <1>2, <1>6, RefusedOK
  <2>2. Pools' /\ ServerData'
    BY <1>1, <1>4, <1>6, PoolsKept, DataKept
  <2> QED BY <2>1, <2>2, TServerStep
<1> QED BY <1>5, <1>6 DEF Insert

LEMMA TLastInsertId ==
  ASSUME TInv, NEW w \in Workers, LastInsertId(w), UNCHANGED clientVars
  PROVE  TInv'
<1> DEFINE t == task[w]
           n == lastId[t.conn]
           u == [t EXCEPT !.pc = "write", !.id = n]
<1>1. WireOK /\ ServerData /\ Pools /\ TasksOK
  BY Parts
<1>2. t \in Tasks /\ Fits(t) /\ t.pc = "lastid" /\ t.pc # "idle"
  BY <1>1 DEF TasksOK, LastInsertId
<1>3. n \in Nat
  BY <1>1, <1>2, TaskData DEF Pools
<1>4. UNCHANGED <<randomNum, db, shm, poolVars, historyVars>>
  BY DEF LastInsertId
<1>5. CASE /\ task' = [task EXCEPT ![w].pc = "write", ![w].id = n]
           /\ UNCHANGED <<wireVars, fails>>
  <2> HIDE DEF n
  <2>1. u \in Tasks /\ Fits(u)
    BY <1>2, <1>3 DEF Tasks, Fits
  <2>2. task' = [task EXCEPT ![w] = u]
    BY <1>1, <1>5 DEF TasksOK
  <2> HIDE DEF u
  <2>3. TasksOK'
    BY <1>1, <2>1, <2>2, Updated
  <2>4. WireOK'
    BY <1>1, <1>5 DEF WireOK, wireVars
  <2> QED BY <1>4, <1>5, <2>3, <2>4, TQuiet
<1>6. CASE Fail /\ Refuse(w, "SERVERERR")
  <2>1. WireOK' /\ TasksOK'
    BY <1>2, <1>6, RefusedOK
  <2> QED BY <1>4, <1>6, <2>1, TQuiet
<1> QED BY <1>5, <1>6 DEF LastInsertId

\* shmWrite writes one slot, or none.
LEMMA Written ==
  ASSUME TInv, NEW i, NEW c \in Clients, NEW k \in Keys, NEW n \in Nat,
         shm' = [shm EXCEPT ![i] = [client |-> c, key |-> k, id |-> n, status |-> 1]]
  PROVE  shm' \in [1..MaxNode -> [client : Clients \cup {NoClient}, key : Keys,
                                  id : Nat, status : {0, 1}]]
BY Parts DEF ServerData

LEMMA TargetId ==
  ASSUME NEW t \in Tasks, Fits(t), t.pc = "write"
  PROVE  (IF t.req.type = "PREKEY" THEN t.id ELSE t.req.id) \in Nat
<1>1. t.req \in Requests /\ t.id \in Nat /\ t.req.type \in {"PREKEY", "KEYCHECK"}
  BY TaskData DEF Fits
<1>2. t.req.type = "KEYCHECK" => t.req.id \in Nat
  BY <1>1, RequestData
<1> QED BY <1>1, <1>2

LEMMA TShmWrite ==
  ASSUME TInv, NEW w \in Workers, ShmWrite(w), UNCHANGED clientVars
  PROVE  TInv'
<1> DEFINE t == task[w]
           n == IF t.req.type = "PREKEY" THEN t.id ELSE t.req.id
           m == IF t.req.type = "PREKEY" THEN n ELSE 0
           S == SlotsFor(t.client)
<1>1. WireOK /\ ServerData /\ Pools /\ TasksOK
  BY Parts
<1>2. t \in Tasks /\ Fits(t) /\ t.pc = "write" /\ t.pc # "idle"
  BY <1>1 DEF TasksOK, ShmWrite
<1>3. t.client \in Clients /\ t.key \in Keys /\ n \in Nat
  BY <1>2, TaskData, TargetId DEF Fits
<1>4. m \in Nat
  BY <1>3
<1>5. UNCHANGED <<randomNum, db, poolVars, crashes, before>>
  BY DEF ShmWrite
<1>6. Pools'
  BY <1>1, <1>5, PoolsKept DEF poolVars
<1>7. CASE /\ shm' = [shm EXCEPT ![FirstOf(S)] =
                  [client |-> t.client, key |-> t.key, id |-> n, status |-> 1]]
           /\ Reply(w, "SUCCESS", Blank, m)
           /\ confirmed' = IF t.req.type = "KEYCHECK" THEN confirmed \cup {n}
                                                      ELSE confirmed
           /\ UNCHANGED fails
  <2>1. WireOK' /\ TasksOK'
    BY <1>2, <1>4, <1>7, KeyData, RepliedOK
  <2> HIDE DEF n, m, S
  <2>2. shm' \in [1..MaxNode -> [client : Clients \cup {NoClient}, key : Keys,
                                 id : Nat, status : {0, 1}]]
    BY <1>3, <1>7, Written
  <2>3. confirmed' \in SUBSET Nat
    BY <1>1, <1>3, <1>7 DEF ServerData
  <2>4. ServerData'
    BY <1>1, <1>5, <1>7, <2>2, <2>3 DEF ServerData
  <2> QED BY <1>6, <2>1, <2>4, TServerStep
<1>8. CASE /\ UNCHANGED fails \/ Fail
           /\ Refuse(w, "SERVERERR") /\ UNCHANGED <<shm, confirmed>>
  <2>1. WireOK' /\ TasksOK'
    BY <1>2, <1>8, RefusedOK
  <2>2. ServerData'
    BY <1>1, <1>5, <1>8, DataKept DEF historyVars
  <2> QED BY <1>6, <2>1, <2>2, TServerStep
<1> QED BY <1>7, <1>8 DEF ShmWrite, NoMap

\* The first of a set of slots is one of them.
LEMMA FirstIs ==
  ASSUME NEW n \in Nat, NEW S \in SUBSET (1..n), S # {}
  PROVE  FirstOf(S) \in S /\ \A j \in S : FirstOf(S) <= j
<1> DEFINE m == CHOOSE i \in S : \A j \in S : i <= j
<1>1. \E i \in S : \A j \in S : i <= j
  <2> DEFINE R == OpToRel(<, Nat)
  <2>1. \A i, j \in Nat : <<j, i>> \in R <=> j < i
    BY DEF OpToRel
  <2>2. IsWellFoundedOn(R, Nat)
    BY NatLessThanWellFounded
  <2> HIDE DEF R
  <2>3. S \subseteq Nat
    OBVIOUS
  <2>4. PICK i \in S : \A j \in S : <<j, i>> \notin R
    BY <2>2, <2>3, WFMin
  <2>5. ASSUME NEW j \in S PROVE i <= j
    <3>1. i \in Nat /\ j \in Nat
      BY <2>3
    <3>2. ~(j < i)
      BY <2>1, <2>4, <3>1
    <3> QED BY <3>1, <3>2
  <2> QED BY <2>5
<1>2. m \in S /\ \A j \in S : m <= j
  BY <1>1
<1> QED BY <1>2 DEF FirstOf

LEMMA TFindSlot ==
  ASSUME TInv, NEW w \in Workers, FindSlot(w), UNCHANGED clientVars
  PROVE  TInv'
<1> DEFINE t == task[w]
           found == {i \in 1..MaxNode : shm[i].id = t.req.id}
           i == FirstOf(found)
           u == [t EXCEPT !.pc = "status", !.slot = i]
<1>1. WireOK /\ ServerData /\ Pools /\ TasksOK
  BY Parts
<1>2. t \in Tasks /\ Fits(t) /\ t.pc = "find"
  BY <1>1 DEF TasksOK, FindSlot
<1>3. UNCHANGED <<wireVars, randomNum, db, shm, poolVars, historyVars>>
  BY DEF FindSlot
<1>4. WireOK'
  BY <1>1, <1>3 DEF WireOK, wireVars
<1>5. CASE /\ found # {} /\ UNCHANGED fails
           /\ task' = [task EXCEPT ![w].pc = "status", ![w].slot = i]
  <2>1. found # {} /\ found \in SUBSET (1..MaxNode) /\ MaxNode \in Nat
    BY <1>5, ServerAssumption
  <2> HIDE DEF found
  <2>2. i \in 1..MaxNode
    BY <2>1, FirstIs
  <2> HIDE DEF i
  <2>3. u \in Tasks /\ Fits(u)
    BY <1>2, <2>2 DEF Tasks, Fits
  <2>4. task' = [task EXCEPT ![w] = u]
    BY <1>1, <1>5 DEF TasksOK
  <2> HIDE DEF u
  <2>5. TasksOK'
    BY <1>1, <2>3, <2>4, Updated
  <2> QED BY <1>3, <1>4, <1>5, <2>5, TQuiet
<1>6. CASE (UNCHANGED fails \/ Fail) /\ Goto(w, "state")
  <2>1. Fits([t EXCEPT !.pc = "state"])
    BY <1>2 DEF Fits, Tasks
  <2>2. TasksOK'
    BY <1>6, <2>1, TGoto
  <2> QED BY <1>3, <1>4, <1>6, <2>2, TQuiet
<1> QED BY <1>5, <1>6 DEF FindSlot, NoMap

LEMMA TSetStatus ==
  ASSUME TInv, NEW w \in Workers, SetStatus(w), UNCHANGED clientVars
  PROVE  TInv'
<1>1. WireOK /\ ServerData /\ Pools /\ TasksOK
  BY Parts
<1>2. task[w] \in Tasks /\ Fits(task[w]) /\ task[w].pc = "status"
  BY <1>1 DEF TasksOK, SetStatus
<1>3. WireOK'
  BY <1>1 DEF WireOK, wireVars, SetStatus
<1>4. Fits([task[w] EXCEPT !.pc = "state"])
  BY <1>2 DEF Fits, Tasks
<1>5. TasksOK'
  BY <1>4, TGoto DEF SetStatus
<1>6. ServerData'
  BY <1>1 DEF ServerData, SetStatus, historyVars
<1>7. Pools'
  BY <1>1, PoolsKept DEF SetStatus, poolVars
<1> QED BY <1>3, <1>5, <1>6, <1>7, TServerStep

LEMMA RowEnded ==
  ASSUME NEW C, NEW d \in Seq([client : C, key : Keys, state : {0, 1}]), NEW n
  PROVE  [d EXCEPT ![n].state = 0] \in Seq([client : C, key : Keys, state : {0, 1}])
<1> DEFINE R == [client : C, key : Keys, state : {0, 1}]
           e == [d EXCEPT ![n].state = 0]
<1>1. d \in Seq(R)
  OBVIOUS
<1>2. \A r \in R : [r EXCEPT !.state = 0] \in R
  OBVIOUS
<1> HIDE DEF R
<1>3. Len(d) \in Nat /\ d \in [1..Len(d) -> R]
  BY <1>1
<1>4. e \in [1..Len(d) -> R]
  BY <1>2, <1>3
<1> HIDE DEF e
<1>5. e \in Seq(R)
  BY <1>3, <1>4
<1> QED BY <1>5 DEF e, R

LEMMA TUpdateState ==
  ASSUME TInv, NEW w \in Workers, UpdateState(w), UNCHANGED clientVars
  PROVE  TInv'
<1>1. ServerData /\ Pools /\ TasksOK /\ task[w].pc # "idle"
  BY Parts DEF UpdateState
<1>2. UNCHANGED <<randomNum, shm, poolVars, historyVars>>
  BY DEF UpdateState
<1>3. CASE /\ db' = [db EXCEPT ![task[w].req.id].state = 0]
           /\ Reply(w, "SUCCESS", Blank, 0) /\ UNCHANGED fails
  <2>1. WireOK' /\ TasksOK'
    BY <1>1, <1>3, KeyData, RepliedOK
  <2>2. db' \in Seq([client : Clients, key : Keys, state : {0, 1}])
    BY <1>1, <1>3, RowEnded DEF ServerData
  <2>3. ServerData'
    BY <1>1, <1>2, <1>3, <2>2 DEF ServerData, historyVars
  <2>4. Pools'
    BY <1>1, <1>2, PoolsKept DEF poolVars
  <2> QED BY <2>1, <2>3, <2>4, TServerStep
<1>4. CASE Fail /\ Refuse(w, "SERVERERR") /\ UNCHANGED db
  <2>1. WireOK' /\ TasksOK'
    BY <1>1, <1>4, RefusedOK
  <2> QED BY <1>2, <1>4, <2>1, TQuiet
<1>5. CASE NoCommit /\ Reply(w, "SUCCESS", Blank, 0) /\ UNCHANGED db
  <2>1. WireOK' /\ TasksOK'
    BY <1>1, <1>5, KeyData, RepliedOK
  <2> QED BY <1>2, <1>5, <2>1, TQuiet DEF NoCommit
<1> QED BY <1>3, <1>4, <1>5 DEF UpdateState

LEMMA TRestart ==
  ASSUME TInv, Restart, UNCHANGED clientVars
  PROVE  TInv'
<1>1. WireOK /\ ServerData /\ Pools
  BY Parts
<1>2. AllIdle \in [Workers -> Tasks] /\ \A v \in Workers : Fits(AllIdle[v])
  BY IdleTask DEF AllIdle, Idle, Fits
<1>3. TasksOK'
  BY <1>2 DEF TasksOK, Restart
<1>4. hkey' \in [1..HmacSize -> Keys] /\ lastId' \in [1..ConnSize -> Nat]
  BY KeyData DEF Restart, NoKeys, NoIds
<1>5. /\ hmacs' \in Seq(1..HmacSize) /\ hmacs' # <<>>
      /\ conns' \in Seq(1..ConnSize) /\ conns' # <<>>
  <2>1. AllHmacs \in Seq(1..HmacSize) /\ AllHmacs # <<>>
    BY ServerAssumption DEF AllHmacs
  <2>2. AllConns \in Seq(1..ConnSize) /\ AllConns # <<>>
    BY ServerAssumption DEF AllConns
  <2> QED BY <2>1, <2>2 DEF Restart
<1>6. Pools'
  BY <1>4, <1>5 DEF Pools
<1>7. crashes' \in 0..MaxCrash /\ before' \in Nat
  <2>1. Len(db) \in Nat
    BY <1>1 DEF ServerData
  <2> QED BY <1>1, <2>1, ServerAssumption DEF ServerData, Restart
<1>8. shm' \in [1..MaxNode -> [client : Clients \cup {NoClient}, key : Keys,
                               id : Nat, status : {0, 1}]]
  BY KeyData DEF Restart, NoSlots, NoSlot
<1>9. randomNum' \in [Fds -> [cr : Randoms, sr : Randoms]]
  BY KeyData DEF Restart, NoRandoms
<1>10. ServerData'
  BY <1>1, <1>7, <1>8, <1>9 DEF ServerData, Restart
<1>11. toServer' \in [Clients -> Seq(Requests)] /\ toClient' \in [Clients -> Seq(Answers)]
  <2>1. toServer' \in [Clients -> Seq(Requests)]
    BY DEF Restart
  <2>2. toClient \in [Clients -> Seq(Answers)]
    BY <1>1 DEF WireOK
  <2>3. \A c \in Clients : toClient[c] \in Seq(Answers) /\ <<>> \in Seq(Answers)
    BY <2>2
  <2>4. [c \in Clients |-> IF toServer[c] = <<>> THEN toClient[c] ELSE <<>>]
          \in [Clients -> Seq(Answers)]
    BY <2>3
  <2> QED BY <2>1, <2>2, <2>4 DEF Restart
<1>12. WireOK'
  BY <1>1, <1>11 DEF Restart, WireOK
<1> QED BY <1>3, <1>6, <1>10, <1>12, TServerStep

LEMMA TNext == TInv /\ [Next]_vars => TInv'
<1> SUFFICES ASSUME TInv, [Next]_vars PROVE TInv'
  OBVIOUS
<1>1. CASE UNCHANGED vars
  <2>1. ServerData' /\ Pools' /\ TasksOK' /\ WireOK' /\ UNCHANGED clientVars
    BY <1>1, Parts DEF vars, serverVars, poolVars, historyVars, wireVars, ServerData,
                       Pools, TasksOK, WireOK
  <2> QED BY <2>1, TServerStep
<1>2. ASSUME NEW c \in Clients, ClientStep(c), UNCHANGED serverVars PROVE TInv'
  BY <1>2, TClients
<1>3. ASSUME NEW w \in Workers, Server(w), UNCHANGED clientVars PROVE TInv'
  BY <1>3, TTakeRequest, TRandomNum, TPremaster, TQuery, TMac, TInsert, TLastInsertId,
     TShmWrite, TFindSlot, TSetStatus, TUpdateState DEF Server
<1>4. CASE Restart /\ UNCHANGED clientVars
  BY <1>4, TRestart
<1> QED BY <1>1, <1>2, <1>3, <1>4 DEF Next

\* The handlers, the clients and their connections keep to their types: no
\* handler is left with a request of another type than the place it is at.
THEOREM Typing == Spec => []TypeOK
<1>1. TInv => TypeOK
  BY DEF TInv
<1> QED BY TInit, TNext, <1>1, PTL DEF Spec

----------------------------------------------------------------------------
(* Whose keys the shared memory shows.                                     *)

\* A premaster, and a key made with it, name the client that drew it.
ByOwner(r, c) ==
  /\ r.type = "PREKEY" => r.pm[1] = c
  /\ r.type \in {"KEYCHECK", "KEYREVOKE"} => r.key.pm[1] = c

OwnRequests(c) == {r \in Requests : ByOwner(r, c)}
IsRow(n, c, k) == n \in Rows /\ db[n].client = c /\ db[n].key = k
Target(t) == IF t.req.type = "PREKEY" THEN t.id ELSE t.req.id

RowsOwned == \A n \in Rows : db[n].key.pm[1] = db[n].client
SentOwned == \A c \in Clients : toServer[c] \in Seq(OwnRequests(c))
HeldOwned ==
  \A c \in Clients : /\ pc[c] = "keyid" => mine[c].pm[1] = c
                     /\ cshm[c].status = 1 => cshm[c].key.pm[1] = c

\* What a handler carries from one of its steps to the next.
HasRow(t) ==
  /\ t.pc # "idle" => ByOwner(t.req, t.client)
  /\ t.pc \in {"mac", "insert", "lastid"} /\ t.req.type = "PREKEY" => t.key.pm[1] = t.client
  /\ t.pc = "mac" /\ t.req.type # "PREKEY" => t.req.id \in Rows /\ db[t.req.id].key = t.key
  /\ t.pc = "lastid" => IsRow(lastId[t.conn], t.client, t.key)
  /\ t.pc = "write" => IsRow(Target(t), t.client, t.key)

SInv == /\ TInv /\ RowsOwned /\ SentOwned /\ HeldOwned
        /\ (\A w \in Workers : HasRow(task[w])) /\ ShmIsIssued

\* The one thread that handles requests: ServerOperation makes its pool of one,
\* and without is_d no thread is added.
OneThread == \A v, w \in Workers : v = w

LEMMA SInit == Init => SInv
<1> SUFFICES ASSUME Init PROVE SInv
  OBVIOUS
<1>1. TInv
  BY TInit
<1>2. RowsOwned
  BY DEF Init, ServerInit, RowsOwned, Rows
<1>3. SentOwned
  BY DEF Init, ClientInit, SentOwned
<1>4. HeldOwned
  BY DEF Init, ClientInit, HeldOwned, NoKeyHeld
<1>5. \A w \in Workers : HasRow(task[w])
  BY DEF Init, ServerInit, AllIdle, Idle, HasRow
<1>6. ShmIsIssued
  BY DEF Init, ServerInit, NoSlots, NoSlot, ShmIsIssued
<1> QED BY <1>1, <1>2, <1>3, <1>4, <1>5, <1>6 DEF SInv

\* Client steps.
LEMMA SClientStep ==
  ASSUME SInv, UNCHANGED serverVars, TInv', SentOwned', HeldOwned'
  PROVE  SInv'
<1>1. UNCHANGED <<db, shm, task, lastId>>
  BY DEF serverVars, poolVars
<1>2. RowsOwned' /\ ShmIsIssued'
  BY <1>1 DEF SInv, RowsOwned, ShmIsIssued, Rows
<1>3. (\A w \in Workers : HasRow(task[w]))'
  BY <1>1 DEF SInv, HasRow, IsRow, Rows
<1> QED BY <1>2, <1>3 DEF SInv

LEMMA SSent ==
  ASSUME SentOwned, NEW c \in Clients, NEW r \in OwnRequests(c), Send(c, r),
         toServer \in [Clients -> Seq(Requests)]
  PROVE  SentOwned'
<1>1. toServer' = toServer \/ toServer' = [toServer EXCEPT ![c] = Append(@, r)]
  BY DEF Send
<1>2. toServer[c] \in Seq(OwnRequests(c))
  BY DEF SentOwned
<1>3. Append(toServer[c], r) \in Seq(OwnRequests(c))
  BY <1>2
<1> QED BY <1>1, <1>3 DEF SentOwned

LEMMA SBegins ==
  ASSUME SInv, NEW c \in Clients, Begins(c), UNCHANGED serverVars
  PROVE  SInv'
<1>1. TInv' /\ SentOwned /\ HeldOwned
  BY TBegins DEF SInv
<1>2. ClientOK /\ WireOK /\ pc \in [Clients -> {"menu", "random", "keyid", "check", "revoke"}]
  BY Parts DEF SInv, ClientOK
<1>3. cshm[c].id \in Nat /\ cshm[c].key \in Keys /\ ops[c] \in 0..MaxOps
  BY <1>2 DEF ClientOK
<1>4. ASSUME NEW op, NEW next \in {"random", "check", "revoke"}, NEW r \in OwnRequests(c),
             Begin(c, op, next, r)
      PROVE  SInv'
  <2>1. SentOwned'
    BY <1>1, <1>2, <1>4, SSent DEF Begin, WireOK
  <2>2. HeldOwned'
    BY <1>1, <1>2, <1>4 DEF Begin, HeldOwned
  <2> QED BY <1>1, <2>1, <2>2, SClientStep
<1>5. CASE BeginAgree(c)
  <2> DEFINE r == [type |-> "RANDOMNUM", random |-> <<c, ops[c] + 1>>]
  <2>1. ops[c] + 1 \in 1..MaxOps
    BY <1>3, <1>5, WireAssumption DEF BeginAgree, Begin
  <2>2. r \in Requests
    BY <2>1, KeyData, NewRequests
  <2>3. ByOwner(r, c)
    BY DEF ByOwner
  <2>4. r \in OwnRequests(c)
    BY <2>2, <2>3 DEF OwnRequests
  <2> HIDE DEF r
  <2> QED BY <1>4, <1>5, <2>4 DEF BeginAgree, r
<1>6. CASE BeginCheck(c)
  <2> DEFINE r == [type |-> "KEYCHECK", id |-> cshm[c].id, key |-> cshm[c].key]
  <2>1. r \in Requests
    BY <1>3, NewRequests
  <2>2. ByOwner(r, c)
    BY <1>1, <1>6 DEF ByOwner, HeldOwned, BeginCheck
  <2>3. r \in OwnRequests(c)
    BY <2>1, <2>2 DEF OwnRequests
  <2> QED BY <1>4, <1>6, <2>3 DEF BeginCheck
<1>7. CASE BeginRevoke(c)
  <2> DEFINE r == [type |-> "KEYREVOKE", id |-> cshm[c].id, key |-> cshm[c].key]
  <2>1. r \in Requests
    BY <1>3, NewRequests
  <2>2. ByOwner(r, c)
    BY <1>1, <1>7 DEF ByOwner, HeldOwned, BeginRevoke
  <2>3. r \in OwnRequests(c)
    BY <2>1, <2>2 DEF OwnRequests
  <2> QED BY <1>4, <1>7, <2>3 DEF BeginRevoke
<1> QED BY <1>5, <1>6, <1>7 DEF Begins

LEMMA SClients ==
  ASSUME SInv, NEW c \in Clients, ClientStep(c), UNCHANGED serverVars
  PROVE  SInv'
<1>1. TInv' /\ SentOwned /\ HeldOwned
  BY TClients DEF SInv
<1>2. ClientOK /\ WireOK /\ pc \in [Clients -> {"menu", "random", "keyid", "check", "revoke"}]
  BY Parts DEF SInv, ClientOK
<1>3. ASSUME UNCHANGED <<toServer, mine, cshm>>, pc' = [pc EXCEPT ![c] = "menu"]
      PROVE  SInv'
  <2>1. SentOwned'
    BY <1>1, <1>3 DEF SentOwned
  <2>2. HeldOwned'
    BY <1>1, <1>2, <1>3 DEF HeldOwned
  <2> QED BY <1>1, <2>1, <2>2, SClientStep
<1>4. CASE RecvRandom(c)
  <2> DEFINE a == Incoming(c)
             own == <<c, ops[c]>>
             k == Key(own, a.random, own)
             r == [type |-> "PREKEY", pm |-> own, key |-> k]
  <2>1. /\ pc[c] = "random" /\ Receive(c) /\ Send(c, r)
        /\ mine' = [mine EXCEPT ![c] = k]
        /\ pc' = [pc EXCEPT ![c] = "keyid"] /\ UNCHANGED cshm
    BY <1>4 DEF RecvRandom
  <2>2. ops[c] \in 1..MaxOps /\ a \in Answers
    <3>1. ops[c] \in 0..MaxOps /\ ops[c] # 0
      BY <1>2, <2>1, Parts DEF ClientOK, SInv
    <3>2. ops[c] \in 1..MaxOps
      BY <3>1, WireAssumption
    <3> QED BY <1>2, <2>1, <3>2, Received
  <2>3. own \in Randoms /\ a.random \in Randoms /\ own[1] = c
    BY <2>2, KeyData, AnswerData
  <2> HIDE DEF a, own
  <2>4. k \in Keys /\ k.pm = own
    BY <2>3, KeyData DEF Key
  <2> HIDE DEF k
  <2>5. r \in OwnRequests(c)
    <3>1. r \in Requests
      BY <2>3, <2>4, NewRequests
    <3>2. ByOwner(r, c)
      BY <2>3 DEF ByOwner
    <3> QED BY <3>1, <3>2 DEF OwnRequests
  <2> HIDE DEF r
  <2>6. SentOwned'
    BY <1>1, <1>2, <2>1, <2>5, SSent DEF WireOK
  <2>7. HeldOwned'
    BY <1>1, <1>2, <2>1, <2>3, <2>4 DEF HeldOwned, ClientOK
  <2> QED BY <1>1, <2>6, <2>7, SClientStep
<1>5. CASE RecvKeyId(c)
  <2>1. /\ pc[c] = "keyid" /\ UNCHANGED <<toServer, mine>>
        /\ cshm' = [cshm EXCEPT ![c] = [key |-> mine[c], id |-> Incoming(c).id, status |-> 1]]
        /\ pc' = [pc EXCEPT ![c] = "menu"]
    BY <1>5 DEF RecvKeyId
  <2>2. SentOwned'
    BY <1>1, <2>1 DEF SentOwned
  <2>3. HeldOwned'
    BY <1>1, <1>2, <2>1 DEF HeldOwned, ClientOK
  <2> QED BY <1>1, <2>2, <2>3, SClientStep
<1>6. CASE Start(c, HandledFds)
  <2>1. PICK f \in Fds :
          toServer' = [d \in Clients |-> IF d = c \/ fd[d] = f THEN <<>> ELSE toServer[d]]
    BY <1>6 DEF Start
  <2>2. SentOwned'
    BY <1>1, <2>1 DEF SentOwned
  <2>3. HeldOwned'
    BY <1>1, <1>2, <1>6 DEF HeldOwned, ClientOK, Start, NoKeyHeld
  <2> QED BY <1>1, <2>2, <2>3, SClientStep
<1>7. CASE AgreeRefused(c) \/ RecvCheck(c) \/ RecvRevoke(c)
  BY <1>3, <1>7 DEF AgreeRefused, RecvCheck, RecvRevoke, End
<1>8. CASE AgreeCrash(c) \/ Killed(c) \/ Quit(c)
  BY <1>3, <1>8 DEF AgreeCrash, Killed, Quit, Die
<1>9. CASE GivesUp(c)
  BY <1>3, <1>9 DEF GivesUp, CheckTimeout, RevokeTimeout, AgreeTimeout, End, Die, wireVars
<1> QED BY <1>4, <1>5, <1>6, <1>7, <1>8, <1>9, SBegins DEF ClientStep, Receives

\* Server steps.
LEMMA SServerStep ==
  ASSUME SInv, OneThread, NEW w \in Workers, TInv', UNCHANGED clientVars,
         SentOwned', RowsOwned', ShmIsIssued', HasRow(task[w])'
  PROVE  SInv'
<1>1. HeldOwned'
  BY DEF SInv, HeldOwned, clientVars
<1>2. \A v \in Workers : v = w
  BY DEF OneThread
<1>3. (\A v \in Workers : HasRow(task[v]))'
  BY <1>2
<1> QED BY <1>1, <1>3 DEF SInv

\* Nothing is shown or issued by a step that leaves table and segment alone.
LEMMA SQuiet ==
  ASSUME SInv, OneThread, NEW w \in Workers, TInv', UNCHANGED clientVars,
         UNCHANGED <<db, shm, toServer>>, HasRow(task[w])'
  PROVE  SInv'
<1>1. SentOwned' /\ RowsOwned' /\ ShmIsIssued'
  BY DEF SInv, SentOwned, RowsOwned, ShmIsIssued, Rows
<1> QED BY <1>1, SServerStep

\* A handler that has answered carries nothing.
LEMMA SReplied ==
  ASSUME SInv, NEW w \in Workers, NEW rv, NEW x, NEW n, Reply(w, rv, x, n)
  PROVE  HasRow(task[w])' /\ UNCHANGED toServer
<1>1. task \in [Workers -> Tasks]
  BY Parts DEF SInv, TasksOK
<1>2. task'[w] = Idle /\ UNCHANGED toServer
  BY <1>1 DEF Reply
<1> QED BY <1>2 DEF HasRow, Idle

LEMMA SRefused ==
  ASSUME SInv, NEW w \in Workers, NEW rv, Refuse(w, rv)
  PROVE  HasRow(task[w])' /\ UNCHANGED toServer
BY SReplied DEF Refuse

LEMMA STakeRequest ==
  ASSUME SInv, OneThread, NEW w \in Workers, TakeRequest(w), UNCHANGED clientVars
  PROVE  SInv'
<1>1. TInv' /\ WireOK /\ TasksOK /\ SentOwned
  BY TTakeRequest, Parts DEF SInv
<1>2. PICK c \in Clients :
        /\ toServer[c] # <<>>
        /\ toServer' = [toServer EXCEPT ![c] = Tail(@)]
        /\ task' = [task EXCEPT ![w] = [Idle EXCEPT !.pc = Head(toServer[c]).type,
                      !.client = c, !.fd = fd[c], !.req = Head(toServer[c])]]
        /\ UNCHANGED <<db, shm>>
  BY DEF TakeRequest
<1> DEFINE r == Head(toServer[c])
           t == [Idle EXCEPT !.pc = r.type, !.client = c, !.fd = fd[c], !.req = r]
<1>3. r \in OwnRequests(c) /\ Tail(toServer[c]) \in Seq(OwnRequests(c))
  BY <1>1, <1>2, HeadTail DEF SentOwned
<1>4. SentOwned'
  BY <1>1, <1>2, <1>3 DEF SentOwned
<1> HIDE DEF r
<1>5. r.type \in {"RANDOMNUM", "PREKEY", "KEYCHECK", "KEYREVOKE"} /\ ByOwner(r, c)
  BY <1>3, RequestData DEF OwnRequests
<1>6. t.pc = r.type /\ t.client = c /\ t.req = r
  BY DEF Idle
<1>7. task'[w] = t
  BY <1>1, <1>2 DEF r, TasksOK
<1> HIDE DEF t
<1>8. HasRow(task[w])'
  BY <1>5, <1>6, <1>7 DEF HasRow
<1>9. RowsOwned' /\ ShmIsIssued'
  BY <1>2 DEF SInv, RowsOwned, ShmIsIssued, Rows
<1> QED BY <1>1, <1>4, <1>8, <1>9, SServerStep

LEMMA SRandomNum ==
  ASSUME SInv, OneThread, NEW w \in Workers, RandomNum(w), UNCHANGED clientVars
  PROVE  SInv'
<1>1. TInv'
  BY TRandomNum DEF SInv
<1>2. HasRow(task[w])' /\ UNCHANGED <<db, shm, toServer>>
  BY SReplied DEF RandomNum
<1> QED BY <1>1, <1>2, SQuiet

LEMMA SPremaster ==
  ASSUME SInv, OneThread, NEW w \in Workers, Premaster(w), UNCHANGED clientVars
  PROVE  SInv'
<1> DEFINE t == task[w]
           k == Key(randomNum[t.fd].cr, randomNum[t.fd].sr, t.req.pm)
           u == [t EXCEPT !.pc = "mac", !.key = k, !.hmac = Head(hmacs)]
<1>1. TInv' /\ TasksOK /\ t \in Tasks /\ Fits(t) /\ HasRow(t) /\ t.pc = "PREKEY"
  BY TPremaster, Parts DEF SInv, TasksOK, Premaster
<1>2. t.req.type = "PREKEY" /\ ByOwner(t.req, t.client)
  BY <1>1 DEF Fits, HasRow
<1>3. k.pm[1] = t.client
  BY <1>2 DEF Key, ByOwner
<1>4. /\ task' = [task EXCEPT ![w].pc = "mac", ![w].key = k, ![w].hmac = Head(hmacs)]
      /\ UNCHANGED <<db, shm, toServer>>
  BY DEF Premaster, wireVars
<1> HIDE DEF k
<1>5. task'[w] = u
  BY <1>1, <1>4 DEF TasksOK
<1>6. u.pc = "mac" /\ u.key = k /\ u.req = t.req /\ u.client = t.client
  BY <1>1 DEF Tasks
<1> HIDE DEF u
<1>7. HasRow(task[w])'
  BY <1>2, <1>3, <1>5, <1>6 DEF HasRow
<1> QED BY <1>1, <1>4, <1>7, SQuiet

LEMMA SQuery ==
  ASSUME SInv, OneThread, NEW w \in Workers, Query(w), UNCHANGED clientVars
  PROVE  SInv'
<1> DEFINE t == task[w]
           k == db[t.req.id].key
           u == [t EXCEPT !.pc = "mac", !.key = k, !.hmac = Head(hmacs), !.conn = Head(conns)]
<1>1. /\ TInv' /\ TasksOK /\ t \in Tasks /\ Fits(t) /\ HasRow(t)
      /\ t.pc \in {"KEYCHECK", "KEYREVOKE"}
  BY TQuery, Parts DEF SInv, TasksOK, Query
<1>2. t.req.type # "PREKEY" /\ ByOwner(t.req, t.client)
  BY <1>1 DEF Fits, HasRow
<1>3. UNCHANGED <<db, shm>>
  BY DEF Query
<1>4. CASE /\ t.req.id \in Rows /\ UNCHANGED wireVars
           /\ task' = [task EXCEPT ![w].pc = "mac", ![w].key = k,
                         ![w].hmac = Head(hmacs), ![w].conn = Head(conns)]
  <2>1. task'[w] = u /\ UNCHANGED toServer
    BY <1>1, <1>4 DEF TasksOK, wireVars
  <2>2. u.pc = "mac" /\ u.key = k /\ u.req = t.req /\ u.client = t.client
    BY <1>1 DEF Tasks
  <2> HIDE DEF u
  <2>3. HasRow(task[w])'
    BY <1>2, <1>3, <1>4, <2>1, <2>2 DEF HasRow, Rows
  <2> QED BY <1>1, <1>3, <2>1, <2>3, SQuiet
<1>5. CASE Refuse(w, "AUTHERR")
  BY <1>1, <1>3, <1>5, SRefused, SQuiet
<1> QED BY <1>4, <1>5 DEF Query, Rows

LEMMA SMac ==
  ASSUME SInv, OneThread, NEW w \in Workers, Mac(w), UNCHANGED clientVars
  PROVE  SInv'
<1> DEFINE t == task[w]
           p == CASE t.req.type = "PREKEY"    -> "insert"
                  [] t.req.type = "KEYCHECK"  -> "write"
                  [] t.req.type = "KEYREVOKE" -> "find"
           u == [t EXCEPT !.pc = p]
<1>1. TInv' /\ TasksOK /\ t \in Tasks /\ Fits(t) /\ HasRow(t) /\ t.pc = "mac"
  BY TMac, Parts DEF SInv, TasksOK, Mac
<1>2. UNCHANGED <<db, shm>> /\ RowsOwned
  BY DEF Mac, SInv
<1>3. CASE Refuse(w, "AUTHERR")
  BY <1>1, <1>2, <1>3, SRefused, SQuiet
<1>4. CASE /\ Goto(w, p) /\ UNCHANGED wireVars
           /\ t.req.type # "PREKEY" => t.key = t.req.key
  <2>1. t.req.type \in {"PREKEY", "KEYCHECK", "KEYREVOKE"}
    BY <1>1, TaskData, RequestData DEF Fits
  <2>2. /\ t.req.type = "PREKEY" => p = "insert"
        /\ t.req.type = "KEYCHECK" => p = "write"
        /\ t.req.type = "KEYREVOKE" => p = "find"
    OBVIOUS
  <2> HIDE DEF p
  <2>3. task'[w] = u /\ UNCHANGED toServer
    BY <1>1, <1>4 DEF Goto, TasksOK, wireVars
  <2>4. u.pc = p /\ u.req = t.req /\ u.client = t.client /\ u.key = t.key /\ u.id = t.id
    BY <1>1 DEF Tasks
  <2> HIDE DEF u
  <2>5. ByOwner(u.req, u.client) /\ (u.req.type = "PREKEY" => u.key.pm[1] = u.client)
    BY <1>1, <2>4 DEF HasRow
  <2>6. u.pc = "write" => IsRow(Target(u), u.client, u.key)
    <3> SUFFICES ASSUME u.pc = "write" PROVE IsRow(Target(u), u.client, u.key)
      OBVIOUS
    <3>1. t.req.type = "KEYCHECK"
      BY <2>1, <2>2, <2>4
    <3>2. t.req.id \in Rows /\ db[t.req.id].key = t.key /\ t.key = t.req.key
      BY <1>1, <1>4, <3>1 DEF HasRow
    <3>3. t.req.key.pm[1] = t.client
      BY <2>4, <2>5, <3>1 DEF ByOwner
    <3>4. db[t.req.id].key.pm[1] = db[t.req.id].client
      BY <1>2, <3>2 DEF RowsOwned
    <3> QED BY <2>4, <3>1, <3>2, <3>3, <3>4 DEF IsRow, Target
  <2>7. u.pc \in {"insert", "write", "find"} /\ (u.pc = "insert" => u.req.type = "PREKEY")
    BY <2>1, <2>2, <2>4
  <2>8. HasRow(task[w])'
    BY <1>2, <2>3, <2>5, <2>6, <2>7 DEF HasRow, IsRow, Rows
  <2> QED BY <1>1, <1>2, <2>3, <2>8, SQuiet
<1> QED BY <1>3, <1>4 DEF Mac

\* The table only grows, and a row keeps its client and its key.
LEMMA RowsGrow ==
  ASSUME db \in Seq([client : Clients, key : Keys, state : {0, 1}]), RowsOwned, ShmIsIssued,
         UNCHANGED shm, Rows \subseteq Rows',
         \A n \in Rows : db'[n].client = db[n].client /\ db'[n].key = db[n].key,
         \A n \in Rows' \ Rows : db'[n].key.pm[1] = db'[n].client
  PROVE  RowsOwned' /\ ShmIsIssued'
<1>1. RowsOwned'
  BY DEF RowsOwned
<1>2. ShmIsIssued'
  BY DEF ShmIsIssued
<1> QED BY <1>1, <1>2

LEMMA SInsert ==
  ASSUME SInv, OneThread, NEW w \in Workers, Insert(w), UNCHANGED clientVars
  PROVE  SInv'
<1> DEFINE t == task[w]
           s == Head(conns)
           row == [client |-> t.client, key |-> t.key, state |-> 1]
           u == [t EXCEPT !.pc = "lastid", !.conn = s]
           R == [client : Clients, key : Keys, state : {0, 1}]
<1>1. /\ TInv' /\ TasksOK /\ Pools /\ ServerData /\ t \in Tasks /\ Fits(t) /\ HasRow(t)
      /\ t.pc = "insert" /\ UNCHANGED shm /\ RowsOwned /\ ShmIsIssued /\ SentOwned
  BY TInsert, Parts DEF SInv, TasksOK, Insert
<1>2. t.req.type = "PREKEY" /\ ByOwner(t.req, t.client) /\ t.key.pm[1] = t.client
  BY <1>1 DEF Fits, HasRow
<1>3. t.client \in Clients /\ t.key \in Keys
  BY <1>1, TaskData DEF Fits
<1>4. CASE /\ db' = Append(db, row)
           /\ lastId' = [lastId EXCEPT ![s] = Len(db) + 1]
           /\ task' = [task EXCEPT ![w].pc = "lastid", ![w].conn = s]
           /\ UNCHANGED wireVars
  <2>1. s \in 1..ConnSize /\ lastId \in [1..ConnSize -> Nat]
    BY <1>1, HeadTail DEF Pools
  <2>2. db \in Seq(R) /\ row \in R
    BY <1>1, <1>3 DEF ServerData
  <2>3. row.client = t.client /\ row.key = t.key
    OBVIOUS
  <2> HIDE DEF R, row
  <2>4. /\ Len(db) \in Nat /\ Rows = 1..Len(db) /\ Rows' = 1..(Len(db) + 1)
        /\ \A n \in Rows : db'[n] = db[n]
        /\ db'[Len(db) + 1] = row
    BY <1>4, <2>2 DEF Rows
  <2>5. Rows \subseteq Rows' /\ \A n \in Rows' \ Rows : n = Len(db) + 1
    BY <2>4
  <2>6. RowsOwned' /\ ShmIsIssued'
    BY <1>1, <1>2, <2>3, <2>4, <2>5, RowsGrow DEF ServerData
  <2>7. task'[w] = u /\ UNCHANGED toServer
    BY <1>1, <1>4 DEF TasksOK, wireVars
  <2> HIDE DEF s
  <2>8. u.pc = "lastid" /\ u.conn = s /\ u.req = t.req /\ u.client = t.client /\ u.key = t.key
    BY <1>1 DEF Tasks
  <2> HIDE DEF u
  <2>9. lastId'[u.conn] = Len(db) + 1 /\ Len(db) + 1 \in Rows'
    BY <1>4, <2>1, <2>4, <2>8
  <2>10. IsRow(lastId[task[w].conn], task[w].client, task[w].key)'
    BY <2>3, <2>4, <2>7, <2>8, <2>9 DEF IsRow
  <2>11. HasRow(task[w])'
    BY <1>2, <2>7, <2>8, <2>10 DEF HasRow
  <2>12. SentOwned'
    BY <1>1, <2>7 DEF SentOwned
  <2> QED BY <1>1, <2>6, <2>11, <2>12, SServerStep
<1>5. CASE Refuse(w, "SERVERERR") /\ UNCHANGED db
  BY <1>1, <1>5, SRefused, SQuiet
<1> QED BY <1>4, <1>5 DEF Insert

LEMMA SLastInsertId ==
  ASSUME SInv, OneThread, NEW w \in Workers, LastInsertId(w), UNCHANGED clientVars
  PROVE  SInv'
<1> DEFINE t == task[w]
           n == lastId[t.conn]
           u == [t EXCEPT !.pc = "write", !.id = n]
<1>1. /\ TInv' /\ TasksOK /\ t \in Tasks /\ Fits(t) /\ HasRow(t) /\ t.pc = "lastid"
      /\ UNCHANGED <<db, shm>>
  BY TLastInsertId, Parts DEF SInv, TasksOK, LastInsertId
<1>2. t.req.type = "PREKEY" /\ ByOwner(t.req, t.client) /\ IsRow(n, t.client, t.key)
  BY <1>1 DEF Fits, HasRow
<1>3. CASE task' = [task EXCEPT ![w].pc = "write", ![w].id = n] /\ UNCHANGED wireVars
  <2> HIDE DEF n
  <2>1. task'[w] = u /\ UNCHANGED toServer
    BY <1>1, <1>3 DEF TasksOK, wireVars
  <2>2. u.pc = "write" /\ u.id = n /\ u.req = t.req /\ u.client = t.client /\ u.key = t.key
    BY <1>1 DEF Tasks
  <2> HIDE DEF u
  <2>3. HasRow(task[w])'
    BY <1>1, <1>2, <2>1, <2>2 DEF HasRow, IsRow, Target, Rows
  <2> QED BY <1>1, <2>1, <2>3, SQuiet
<1>4. CASE Refuse(w, "SERVERERR")
  BY <1>1, <1>4, SRefused, SQuiet
<1> QED BY <1>3, <1>4 DEF LastInsertId

\* Writing a client's slot keeps one slot per client.
LEMMA SWritten ==
  ASSUME SInv, NEW c \in Clients, NEW k \in Keys, NEW n, IsRow(n, c, k),
         NEW i \in SlotsFor(c),
         shm' = [shm EXCEPT ![i] = [client |-> c, key |-> k, id |-> n, status |-> 1]],
         UNCHANGED db
  PROVE  ShmIsIssued'
<1> DEFINE slot == [client |-> c, key |-> k, id |-> n, status |-> 1]
<1>1. /\ ShmIsIssued /\ c # NoClient
      /\ shm \in [1..MaxNode -> [client : Clients \cup {NoClient}, key : Keys,
                                 id : Nat, status : {0, 1}]]
  BY Parts, WireAssumption DEF SInv, ServerData
<1>2. i \in 1..MaxNode
  BY DEF SlotsFor
<1>3. \A j \in 1..MaxNode : shm'[j] = IF j = i THEN slot ELSE shm[j]
  BY <1>1, <1>2
<1>4. slot.client = c /\ slot.key = k /\ slot.id = n
  OBVIOUS
<1> HIDE DEF slot
<1>5. \A j \in 1..MaxNode : shm[j].client = c => j = i
  <2>1. CASE shm[i].client = c
    <3>1. shm[i] # NoSlot
      BY <1>1, <2>1 DEF NoSlot
    <3> QED BY <1>1, <1>2, <2>1, <3>1 DEF ShmIsIssued
  <2>2. CASE shm[i].client # c
    BY <2>2 DEF SlotsFor
  <2> QED BY <2>1, <2>2
<1>6. ASSUME NEW j \in 1..MaxNode, shm'[j] # NoSlot
      PROVE  /\ shm'[j].id \in Rows /\ db[shm'[j].id].client = shm'[j].client
             /\ db[shm'[j].id].key = shm'[j].key
  <2>1. CASE j = i
    BY <1>3, <1>4, <2>1 DEF IsRow
  <2>2. CASE j # i
    BY <1>1, <1>3, <1>6, <2>2 DEF ShmIsIssued
  <2> QED BY <2>1, <2>2
<1>7. ASSUME NEW j \in 1..MaxNode, NEW l \in 1..MaxNode,
             shm'[j] # NoSlot, shm'[j].client = shm'[l].client
      PROVE  j = l
  <2>1. CASE j = i \/ l = i
    BY <1>3, <1>4, <1>5, <1>7, <2>1
  <2>2. CASE j # i /\ l # i
    BY <1>1, <1>3, <1>7, <2>2 DEF ShmIsIssued
  <2> QED BY <2>1, <2>2
<1>8. UNCHANGED Rows
  BY DEF Rows
<1> QED BY <1>6, <1>7, <1>8 DEF ShmIsIssued

LEMMA SShmWrite ==
  ASSUME SInv, OneThread, NEW w \in Workers, ShmWrite(w), UNCHANGED clientVars
  PROVE  SInv'
<1> DEFINE t == task[w]
           n == IF t.req.type = "PREKEY" THEN t.id ELSE t.req.id
           S == SlotsFor(t.client)
<1>1. /\ TInv' /\ t \in Tasks /\ Fits(t) /\ HasRow(t) /\ t.pc = "write" /\ UNCHANGED db
      /\ RowsOwned /\ SentOwned
  BY TShmWrite, Parts DEF SInv, TasksOK, ShmWrite
<1>2. t.client \in Clients /\ t.key \in Keys /\ IsRow(n, t.client, t.key)
  BY <1>1, TaskData DEF Fits, HasRow, Target
<1>3. HasRow(task[w])' /\ UNCHANGED toServer
  BY SReplied, SRefused DEF ShmWrite
<1>4. SentOwned' /\ RowsOwned'
  BY <1>1, <1>3 DEF SentOwned, RowsOwned, Rows
<1>5. CASE S # {} /\ shm' = [shm EXCEPT ![FirstOf(S)] =
                  [client |-> t.client, key |-> t.key, id |-> n, status |-> 1]]
  <2>1. S \in SUBSET (1..MaxNode) /\ MaxNode \in Nat /\ S # {}
    BY <1>5, ServerAssumption DEF SlotsFor
  <2> HIDE DEF S
  <2>2. FirstOf(S) \in S
    BY <2>1, FirstIs
  <2> HIDE DEF n
  <2>3. ShmIsIssued'
    BY <1>1, <1>2, <1>5, <2>2, SWritten DEF S
  <2> QED BY <1>1, <1>3, <1>4, <2>3, SServerStep
<1>6. CASE UNCHANGED shm
  BY <1>1, <1>3, <1>6, SQuiet
<1> QED BY <1>5, <1>6 DEF ShmWrite

\* The two steps of updateStatue: the task keeps its request.
LEMMA SGoto ==
  ASSUME SInv, NEW w \in Workers, NEW p \in {"status", "state"}, NEW u,
         task[w].pc \in {"find", "status"}, task'[w] = u, u.pc = p,
         u.req = task[w].req, u.client = task[w].client
  PROVE  HasRow(task[w])'
<1>1. HasRow(task[w])
  BY DEF SInv
<1>2. ByOwner(task[w].req, task[w].client)
  BY <1>1 DEF HasRow
<1> QED BY <1>2 DEF HasRow

LEMMA SFindSlot ==
  ASSUME SInv, OneThread, NEW w \in Workers, FindSlot(w), UNCHANGED clientVars
  PROVE  SInv'
<1> DEFINE t == task[w]
           i == FirstOf({j \in 1..MaxNode : shm[j].id = t.req.id})
           u == [t EXCEPT !.pc = "status", !.slot = i]
<1>1. /\ TInv' /\ TasksOK /\ t \in Tasks /\ t.pc = "find" /\ UNCHANGED <<db, shm, toServer>>
  BY TFindSlot, Parts DEF SInv, TasksOK, FindSlot, wireVars
<1>2. CASE task' = [task EXCEPT ![w].pc = "status", ![w].slot = i]
  <2> HIDE DEF i
  <2>1. task'[w] = u /\ u.pc = "status" /\ u.req = t.req /\ u.client = t.client
    BY <1>1, <1>2 DEF TasksOK, Tasks
  <2> HIDE DEF u
  <2>2. HasRow(task[w])'
    BY <1>1, <2>1, SGoto
  <2> QED BY <1>1, <2>2, SQuiet
<1>3. CASE Goto(w, "state")
  <2> DEFINE v == [t EXCEPT !.pc = "state"]
  <2>1. task'[w] = v /\ v.pc = "state" /\ v.req = t.req /\ v.client = t.client
    BY <1>1, <1>3 DEF Goto, TasksOK, Tasks
  <2> HIDE DEF v
  <2>2. HasRow(task[w])'
    BY <1>1, <2>1, SGoto
  <2> QED BY <1>1, <2>2, SQuiet
<1> QED BY <1>2, <1>3 DEF FindSlot

LEMMA SSetStatus ==
  ASSUME SInv, OneThread, NEW w \in Workers, SetStatus(w), UNCHANGED clientVars
  PROVE  SInv'
<1> DEFINE t == task[w]
           i == t.slot
           v == [t EXCEPT !.pc = "state"]
<1>1. /\ TInv' /\ TasksOK /\ t \in Tasks /\ t.pc = "status" /\ UNCHANGED <<db, toServer>>
      /\ shm \in [1..MaxNode -> [client : Clients \cup {NoClient}, key : Keys,
                                 id : Nat, status : {0, 1}]]
  BY TSetStatus, Parts DEF SInv, TasksOK, SetStatus, wireVars, ServerData
<1>2. Goto(w, "state") /\ shm' = [shm EXCEPT ![i].status = 0]
  BY DEF SetStatus
<1>3. task'[w] = v /\ v.pc = "state" /\ v.req = t.req /\ v.client = t.client
  BY <1>1, <1>2 DEF Goto, TasksOK, Tasks
<1> HIDE DEF v
<1>4. HasRow(task[w])'
  BY <1>1, <1>3, SGoto
<1>5. \A j \in 1..MaxNode : /\ shm'[j].client = shm[j].client /\ shm'[j].id = shm[j].id
                            /\ shm'[j].key = shm[j].key
                            /\ shm[j] = NoSlot => shm'[j] = NoSlot
  BY <1>1, <1>2 DEF NoSlot
<1>6. ShmIsIssued'
  BY <1>1, <1>5 DEF SInv, ShmIsIssued, Rows
<1>7. SentOwned' /\ RowsOwned'
  BY <1>1 DEF SInv, SentOwned, RowsOwned, Rows
<1> QED BY <1>1, <1>4, <1>6, <1>7, SServerStep

LEMMA SUpdateState ==
  ASSUME SInv, OneThread, NEW w \in Workers, UpdateState(w), UNCHANGED clientVars
  PROVE  SInv'
<1>1. TInv' /\ ServerData /\ UNCHANGED shm /\ RowsOwned /\ ShmIsIssued /\ SentOwned
  BY TUpdateState, Parts DEF SInv, UpdateState
<1>2. HasRow(task[w])' /\ UNCHANGED toServer
  BY SReplied, SRefused DEF UpdateState
<1>3. CASE db' = [db EXCEPT ![task[w].req.id].state = 0]
  <2>1. Rows' = Rows
    BY <1>3 DEF Rows
  <2>2. \A n \in Rows : db'[n].client = db[n].client /\ db'[n].key = db[n].key
    <3>1. \A n \in Rows : db[n] \in [client : Clients, key : Keys, state : {0, 1}]
      BY <1>1, RowData DEF Rows
    <3> QED BY <1>3, <3>1 DEF Rows
  <2>3. RowsOwned' /\ ShmIsIssued'
    BY <1>1, <2>1, <2>2, RowsGrow DEF ServerData
  <2>4. SentOwned'
    BY <1>1, <1>2 DEF SentOwned
  <2> QED BY <1>1, <1>2, <2>3, <2>4, SServerStep
<1>4. CASE UNCHANGED db
  BY <1>1, <1>2, <1>4, SQuiet
<1> QED BY <1>3, <1>4 DEF UpdateState

LEMMA SRestart ==
  ASSUME SInv, Restart, UNCHANGED clientVars
  PROVE  SInv'
<1>1. TInv' /\ UNCHANGED db
  BY TRestart DEF SInv, Restart
<1>2. SentOwned'
  BY DEF Restart, SentOwned
<1>3. RowsOwned' /\ HeldOwned'
  BY <1>1 DEF SInv, RowsOwned, HeldOwned, clientVars, Rows
<1>4. (\A w \in Workers : HasRow(task[w]))'
  BY DEF Restart, AllIdle, Idle, HasRow
<1>5. ShmIsIssued'
  BY DEF Restart, NoSlots, ShmIsIssued
<1> QED BY <1>1, <1>2, <1>3, <1>4, <1>5 DEF SInv

LEMMA SNext == SInv /\ OneThread /\ [Next]_vars => SInv'
<1> SUFFICES ASSUME SInv, OneThread, [Next]_vars PROVE SInv'
  OBVIOUS
<1>1. CASE UNCHANGED vars
  <2>1. TInv'
    BY <1>1, TNext DEF SInv
  <2>2. UNCHANGED serverVars /\ SentOwned' /\ HeldOwned'
    BY <1>1 DEF vars, wireVars, clientVars, SInv, SentOwned, HeldOwned
  <2> QED BY <2>1, <2>2, SClientStep
<1>2. ASSUME NEW c \in Clients, ClientStep(c), UNCHANGED serverVars PROVE SInv'
  BY <1>2, SClients
<1>3. ASSUME NEW w \in Workers, Server(w), UNCHANGED clientVars PROVE SInv'
  BY <1>3, STakeRequest, SRandomNum, SPremaster, SQuery, SMac, SInsert, SLastInsertId,
     SShmWrite, SFindSlot, SSetStatus, SUpdateState DEF Server
<1>4. CASE Restart /\ UNCHANGED clientVars
  BY <1>4, SRestart
<1> QED BY <1>1, <1>2, <1>3, <1>4 DEF Next

\* With one thread the shared memory shows only keys the database issued to
\* the client they are shown for, one per client, whatever fails or is late:
\* clientPremaster reads the row's number from the session that inserted it,
\* and a check shows only a key the row's owner has made.
THEOREM KeysShown ==
  ASSUME OneThread
  PROVE  Spec => []ShmIsIssued
<1>1. SInv => ShmIsIssued
  BY DEF SInv
<1> QED BY SInit, SNext, <1>1, PTL DEF Spec

----------------------------------------------------------------------------
(* What a restarted server shows.                                          *)

\* The number of no row, or of one inserted since the last start.
Fresh(n) == n = 0 \/ n > before

FreshRequests == {r \in Requests : r.type \in {"KEYCHECK", "KEYREVOKE"} => Fresh(r.id)}
FreshAnswers  == {a \in Answers : Fresh(a.id)}

\* No request names an older row, nor does an answer or the slot of a client
\* whose connection is to this server; a client that is gone reads nothing.
SentFresh == \A c \in Clients : toServer[c] \in Seq(FreshRequests)
ReadFresh == \A c \in alive \ cut : /\ toClient[c] \in Seq(FreshAnswers)
                                    /\ cshm[c].status = 1 => Fresh(cshm[c].id)
GoneEmpty == \A c \in Clients \ alive : toClient[c] = <<>>

NewTask(t) ==
  /\ t.pc # "idle" /\ t.req.type \in {"KEYCHECK", "KEYREVOKE"} => Fresh(t.req.id)
  /\ t.pc = "mac" /\ t.req.type # "PREKEY" => t.req.id # 0
  /\ t.pc = "lastid" => lastId[t.conn] > before
  /\ t.pc = "write" => Target(t) > before

AInv == /\ TInv /\ before <= Len(db) /\ SentFresh /\ ReadFresh /\ GoneEmpty
        /\ (\A w \in Workers : NewTask(task[w])) /\ AnewAfterRestart

LEMMA AInit == Init => AInv
<1> SUFFICES ASSUME Init PROVE AInv
  OBVIOUS
<1>1. TInv
  BY TInit
<1>2. before <= Len(db)
  BY Len(<<>>) = 0 DEF Init, ServerInit
<1>3. SentFresh /\ GoneEmpty
  BY DEF Init, ClientInit, SentFresh, GoneEmpty
<1>4. ReadFresh
  BY DEF Init, ClientInit, ReadFresh, NoKeyHeld
<1>5. \A w \in Workers : NewTask(task[w])
  BY DEF Init, ServerInit, AllIdle, Idle, NewTask
<1>6. AnewAfterRestart
  BY DEF Init, ServerInit, NoSlots, AnewAfterRestart
<1> QED BY <1>1, <1>2, <1>3, <1>4, <1>5, <1>6 DEF AInv

LEMMA AClientStep ==
  ASSUME AInv, UNCHANGED serverVars, TInv', SentFresh', ReadFresh', GoneEmpty'
  PROVE  AInv'
<1>1. UNCHANGED <<db, shm, task, lastId, before>>
  BY DEF serverVars, poolVars, historyVars
<1>2. (before <= Len(db))' /\ AnewAfterRestart'
  BY <1>1 DEF AInv, AnewAfterRestart
<1>3. (\A w \in Workers : NewTask(task[w]))'
  BY <1>1 DEF AInv, NewTask, Fresh, Target
<1> QED BY <1>2, <1>3 DEF AInv

\* What a client sends to this server is fresh.
LEMMA ASent ==
  ASSUME AInv, NEW c \in alive, NEW r, c \notin cut => r \in FreshRequests, Send(c, r),
         UNCHANGED before
  PROVE  SentFresh'
<1>1. SentFresh /\ toServer \in [Clients -> Seq(Requests)]
  BY Parts DEF AInv, WireOK
<1>2. UNCHANGED FreshRequests
  BY DEF FreshRequests, Fresh
<1>3. CASE c \in cut
  BY <1>1, <1>2, <1>3 DEF Send, SentFresh
<1>4. CASE c \notin cut
  <2>1. toServer' = [toServer EXCEPT ![c] = Append(@, r)] /\ r \in FreshRequests
    BY <1>4 DEF Send
  <2>2. \A s \in Seq(FreshRequests) : Append(s, r) \in Seq(FreshRequests)
    BY <2>1
  <2> QED BY <1>1, <1>2, <2>1, <2>2 DEF SentFresh
<1> QED BY <1>3, <1>4

LEMMA AReceived ==
  ASSUME AInv, NEW c \in Clients, Receive(c), UNCHANGED before
  PROVE  /\ c \notin cut => Fresh(Incoming(c).id)
         /\ \A d \in (alive \ cut)' : toClient'[d] \in Seq(FreshAnswers')
         /\ GoneEmpty'
<1>1. ReadFresh /\ GoneEmpty /\ toClient \in [Clients -> Seq(Answers)]
      /\ alive \in SUBSET Clients
  BY Parts DEF AInv, WireOK
<1>2. /\ c \in alive /\ toClient[c] # <<>> /\ UNCHANGED <<alive, cut>>
      /\ toClient' = [toClient EXCEPT ![c] = Tail(@)]
  BY DEF Receive
<1>3. FreshAnswers' = FreshAnswers
  BY DEF FreshAnswers, Fresh
<1>4. c \notin cut => Head(toClient[c]) \in FreshAnswers /\ Tail(toClient[c]) \in Seq(FreshAnswers)
  BY <1>1, <1>2, HeadTail DEF ReadFresh
<1>5. c \notin cut => Fresh(Incoming(c).id)
  BY <1>4 DEF Incoming, FreshAnswers
<1>6. \A d \in (alive \ cut)' : toClient'[d] \in Seq(FreshAnswers')
  BY <1>1, <1>2, <1>3, <1>4 DEF ReadFresh
<1>7. GoneEmpty'
  BY <1>1, <1>2 DEF GoneEmpty
<1> QED BY <1>5, <1>6, <1>7

LEMMA ADie ==
  ASSUME AInv, NEW c \in Clients, Die(c), UNCHANGED serverVars
  PROVE  AInv'
<1>1. TInv' /\ UNCHANGED before /\ UNCHANGED <<toServer, cshm>>
  BY TDie DEF AInv, Die, serverVars, historyVars
<1>2. /\ alive' = alive \ {c} /\ cut' = cut \ {c}
      /\ toClient' = [toClient EXCEPT ![c] = <<>>] /\ toClient \in [Clients -> Seq(Answers)]
      /\ alive \in SUBSET Clients
  BY Parts DEF Die, AInv, WireOK
<1>3. SentFresh' /\ FreshAnswers' = FreshAnswers
  BY <1>1 DEF AInv, SentFresh, FreshRequests, FreshAnswers, Fresh
<1>4. ReadFresh'
  BY <1>1, <1>2, <1>3 DEF AInv, ReadFresh, Fresh
<1>5. GoneEmpty'
  BY <1>2 DEF AInv, GoneEmpty
<1> QED BY <1>1, <1>3, <1>4, <1>5, AClientStep

LEMMA ABegins ==
  ASSUME AInv, NEW c \in Clients, Begins(c), UNCHANGED serverVars
  PROVE  AInv'
<1>1. TInv' /\ UNCHANGED before /\ ClientOK /\ ReadFresh
  BY TBegins, Parts DEF AInv, serverVars, historyVars
<1>2. cshm[c].id \in Nat /\ cshm[c].key \in Keys /\ ops[c] \in 0..MaxOps
  BY <1>1 DEF ClientOK
<1>3. ASSUME NEW op, NEW next, NEW r, Begin(c, op, next, r),
             c \in alive \ cut => r \in FreshRequests
      PROVE  AInv'
  <2>1. c \in alive /\ Send(c, r) /\ UNCHANGED <<alive, cut, toClient, cshm>>
    BY <1>3 DEF Begin
  <2>2. SentFresh'
    BY <1>1, <1>3, <2>1, ASent
  <2>3. ReadFresh' /\ GoneEmpty'
    BY <1>1, <2>1 DEF AInv, ReadFresh, GoneEmpty, FreshAnswers, Fresh
  <2> QED BY <1>1, <2>2, <2>3, AClientStep
<1>4. CASE BeginAgree(c)
  <2> DEFINE r == [type |-> "RANDOMNUM", random |-> <<c, ops[c] + 1>>]
  <2>1. ops[c] + 1 \in 1..MaxOps
    BY <1>2, <1>4, WireAssumption DEF BeginAgree, Begin
  <2>2. r \in Requests /\ r.type = "RANDOMNUM"
    BY <2>1, KeyData, NewRequests
  <2> HIDE DEF r
  <2>3. r \in FreshRequests
    BY <2>2 DEF FreshRequests
  <2> QED BY <1>3, <1>4, <2>3 DEF BeginAgree, r
<1>5. CASE BeginCheck(c)
  <2> DEFINE r == [type |-> "KEYCHECK", id |-> cshm[c].id, key |-> cshm[c].key]
  <2>1. r \in Requests /\ r.id = cshm[c].id
    BY <1>2, NewRequests
  <2>2. Begin(c, "check", "check", r) /\ cshm[c].status = 1
    BY <1>5 DEF BeginCheck
  <2> HIDE DEF r
  <2>3. c \in alive \ cut => r \in FreshRequests
    BY <1>1, <2>1, <2>2 DEF FreshRequests, ReadFresh
  <2> QED BY <1>3, <2>2, <2>3
<1>6. CASE BeginRevoke(c)
  <2> DEFINE r == [type |-> "KEYREVOKE", id |-> cshm[c].id, key |-> cshm[c].key]
  <2>1. r \in Requests /\ r.id = cshm[c].id
    BY <1>2, NewRequests
  <2>2. Begin(c, "revoke", "revoke", r) /\ cshm[c].status = 1
    BY <1>6 DEF BeginRevoke
  <2> HIDE DEF r
  <2>3. c \in alive \ cut => r \in FreshRequests
    BY <1>1, <2>1, <2>2 DEF FreshRequests, ReadFresh
  <2> QED BY <1>3, <2>2, <2>3
<1> QED BY <1>4, <1>5, <1>6 DEF Begins

LEMMA AClients ==
  ASSUME AInv, NEW c \in Clients, ClientStep(c), UNCHANGED serverVars
  PROVE  AInv'
<1>1. TInv' /\ UNCHANGED before /\ ClientOK /\ WireOK /\ ReadFresh /\ SentFresh /\ GoneEmpty
  BY TClients, Parts DEF AInv, serverVars, historyVars
<1>2. UNCHANGED FreshAnswers /\ UNCHANGED FreshRequests /\ \A n : Fresh(n)' = Fresh(n)
  BY <1>1 DEF FreshRequests, FreshAnswers, Fresh
<1>3. ASSUME UNCHANGED toServer PROVE SentFresh'
  BY <1>1, <1>2, <1>3 DEF SentFresh
<1>4. CASE RecvRandom(c)
  <2> DEFINE a == Incoming(c)
             own == <<c, ops[c]>>
             k == Key(own, a.random, own)
             r == [type |-> "PREKEY", pm |-> own, key |-> k]
  <2>1. pc[c] = "random" /\ Receive(c) /\ Send(c, r) /\ UNCHANGED cshm
    BY <1>4 DEF RecvRandom
  <2>2. ops[c] \in 1..MaxOps /\ a \in Answers
    <3>1. ops[c] \in 0..MaxOps /\ ops[c] # 0
      BY <1>1, <2>1, Parts DEF ClientOK, AInv
    <3>2. ops[c] \in 1..MaxOps
      BY <3>1, WireAssumption
    <3> QED BY <1>1, <2>1, <3>2, Received
  <2>3. own \in Randoms /\ a.random \in Randoms
    BY <2>2, KeyData, AnswerData
  <2> HIDE DEF a, own
  <2>4. k \in Keys
    BY <2>3, KeyData
  <2> HIDE DEF k
  <2>5. r \in Requests /\ r.type = "PREKEY"
    BY <2>3, <2>4, NewRequests
  <2> HIDE DEF r
  <2>6. r \in FreshRequests /\ c \in alive
    BY <2>1, <2>5 DEF FreshRequests, Receive
  <2>7. SentFresh'
    BY <1>1, <2>1, <2>6, ASent
  <2>8. ReadFresh' /\ GoneEmpty'
    BY <1>1, <1>2, <2>1, AReceived DEF ReadFresh, Receive
  <2> QED BY <1>1, <2>7, <2>8, AClientStep
<1>5. CASE RecvKeyId(c)
  <2>1. /\ Receive(c) /\ UNCHANGED toServer
        /\ cshm' = [cshm EXCEPT ![c] = [key |-> mine[c], id |-> Incoming(c).id, status |-> 1]]
    BY <1>5 DEF RecvKeyId
  <2>2. \A d \in Clients : cshm'[d] = IF d = c THEN [key |-> mine[c], id |-> Incoming(c).id,
                                                     status |-> 1] ELSE cshm[d]
    BY <1>1, <2>1 DEF ClientOK
  <2>3. UNCHANGED <<alive, cut>> /\ alive \in SUBSET Clients
    BY <1>1, <2>1 DEF Receive, WireOK
  <2>4. \A d \in alive \ cut : cshm'[d].status = 1 => Fresh(cshm'[d].id)
    BY <1>1, <2>1, <2>2, <2>3, AReceived DEF ReadFresh
  <2>5. ReadFresh' /\ GoneEmpty'
    BY <1>1, <1>2, <2>1, <2>3, <2>4, AReceived DEF ReadFresh
  <2> QED BY <1>1, <1>3, <2>1, <2>5, AClientStep
<1>6. CASE AgreeRefused(c) \/ RecvCheck(c) \/ RecvRevoke(c)
  <2>1. Receive(c) /\ UNCHANGED toServer /\ UNCHANGED cshm
    BY <1>6 DEF AgreeRefused, RecvCheck, RecvRevoke
  <2>2. ReadFresh' /\ GoneEmpty'
    BY <1>1, <1>2, <2>1, AReceived DEF ReadFresh, Receive
  <2> QED BY <1>1, <1>3, <2>1, <2>2, AClientStep
<1>7. CASE Start(c, HandledFds)
  <2>1. PICK f \in Fds :
          toServer' = [d \in Clients |-> IF d = c \/ fd[d] = f THEN <<>> ELSE toServer[d]]
    BY <1>7 DEF Start
  <2>2. SentFresh'
    BY <1>1, <1>2, <2>1 DEF SentFresh
  <2>3. /\ c \notin alive /\ alive' = alive \cup {c} /\ UNCHANGED <<cut, toClient>>
        /\ cshm' = [cshm EXCEPT ![c] = NoKeyHeld]
    BY <1>7 DEF Start
  <2>4. ReadFresh'
    BY <1>1, <1>2, <2>3 DEF ReadFresh, GoneEmpty, WireOK, ClientOK, NoKeyHeld
  <2>5. GoneEmpty'
    BY <1>1, <2>3 DEF GoneEmpty
  <2> QED BY <1>1, <2>2, <2>4, <2>5, AClientStep
<1>8. CASE AgreeCrash(c) \/ AgreeTimeout(c) \/ Killed(c) \/ Quit(c)
  BY <1>8, ADie DEF AgreeCrash, AgreeTimeout, Killed, Quit
<1>9. CASE CheckTimeout(c) \/ RevokeTimeout(c)
  <2>1. UNCHANGED <<toServer, toClient, alive, cut, cshm>>
    BY <1>9 DEF CheckTimeout, RevokeTimeout, wireVars
  <2>2. ReadFresh' /\ GoneEmpty'
    BY <1>1, <1>2, <2>1 DEF ReadFresh, GoneEmpty
  <2> QED BY <1>1, <1>3, <2>1, <2>2, AClientStep
<1> QED BY <1>4, <1>5, <1>6, <1>7, <1>8, <1>9, ABegins DEF ClientStep, Receives, GivesUp

\* Server steps: the other workers' tasks stay, and the sessions' numbers
\* with them unless one inserts a row.
LEMMA AServerStep ==
  ASSUME AInv, NEW w \in Workers, TInv', UNCHANGED clientVars, UNCHANGED before,
         \A v \in Workers \ {w} : task'[v] = task[v],
         \A i \in 1..ConnSize : lastId'[i] = lastId[i] \/ lastId'[i] > before,
         (before <= Len(db))', SentFresh', ReadFresh', GoneEmpty', AnewAfterRestart',
         NewTask(task[w])'
  PROVE  AInv'
<1>1. ASSUME NEW v \in Workers \ {w} PROVE NewTask(task[v])'
  <2>1. NewTask(task[v]) /\ task'[v] = task[v]
    BY DEF AInv
  <2>2. task[v].conn \in 1..ConnSize
    BY Parts, TaskData DEF AInv, TasksOK
  <2>3. task[v].pc = "lastid" => lastId'[task[v].conn] > before
    BY <2>1, <2>2 DEF NewTask
  <2> QED BY <2>1, <2>3 DEF NewTask, Fresh, Target
<1>2. (\A v \in Workers : NewTask(task[v]))'
  BY <1>1
<1> QED BY <1>2 DEF AInv

\* A step that changes no wire, no row, no number and no slot.
LEMMA AQuiet ==
  ASSUME AInv, NEW w \in Workers, TInv', UNCHANGED clientVars,
         UNCHANGED <<wireVars, db, shm, lastId, before>>,
         \A v \in Workers \ {w} : task'[v] = task[v], NewTask(task[w])'
  PROVE  AInv'
<1>1. SentFresh' /\ ReadFresh' /\ GoneEmpty'
  BY DEF AInv, SentFresh, ReadFresh, GoneEmpty, FreshRequests, FreshAnswers, Fresh,
         wireVars, clientVars
<1>2. AnewAfterRestart' /\ (before <= Len(db))'
  BY DEF AInv, AnewAfterRestart
<1> QED BY <1>1, <1>2, AServerStep

\* An answer is fresh when the number in it is.
LEMMA AReplied ==
  ASSUME AInv, NEW w \in Workers, task[w].pc # "idle",
         NEW rv \in {"SUCCESS", "AUTHERR", "SERVERERR"}, NEW x \in Randoms, NEW n \in Nat,
         Fresh(n), Reply(w, rv, x, n), UNCHANGED clientVars, UNCHANGED before
  PROVE  /\ SentFresh' /\ ReadFresh' /\ GoneEmpty' /\ NewTask(task[w])'
         /\ \A v \in Workers \ {w} : task'[v] = task[v]
<1> DEFINE c == task[w].client
           a == Answer(task[w].req.type, rv, x, n)
<1>1. TasksOK /\ WireOK /\ toClient \in [Clients -> Seq(Answers)] /\ alive \in SUBSET Clients
  BY Parts DEF AInv, WireOK
<1>2. task' = [task EXCEPT ![w] = Idle] /\ UNCHANGED <<alive, cut, toServer, cshm>>
  BY DEF Reply, clientVars
<1>3. (\A v \in Workers \ {w} : task'[v] = task[v]) /\ NewTask(task[w])'
  BY <1>1, <1>2 DEF TasksOK, NewTask, Idle
<1>4. FreshAnswers' = FreshAnswers /\ FreshRequests' = FreshRequests /\ \A k : Fresh(k)' = Fresh(k)
  BY DEF FreshAnswers, FreshRequests, Fresh
<1>5. a \in FreshAnswers
  <2>1. task[w].req.type \in {"RANDOMNUM", "PREKEY", "KEYCHECK", "KEYREVOKE"}
    BY <1>1, TaskData, RequestData DEF TasksOK
  <2>2. a \in Answers
    BY <2>1, NewAnswers
  <2>3. a.id = n
    BY DEF Answer
  <2> HIDE DEF a
  <2> QED BY <2>2, <2>3 DEF FreshAnswers
<1>6. toClient' = toClient \/ (c \in alive \ cut /\ toClient' = [toClient EXCEPT ![c] = Append(@, a)])
  BY DEF Reply
<1> HIDE DEF a, c
<1>7. \A s \in Seq(FreshAnswers) : Append(s, a) \in Seq(FreshAnswers)
  BY <1>5
<1>8. \A d \in alive \ cut : toClient'[d] \in Seq(FreshAnswers)
  <2>1. \A d \in alive \ cut : toClient[d] \in Seq(FreshAnswers)
    BY DEF AInv, ReadFresh
  <2>2. CASE toClient' = toClient
    BY <2>1, <2>2
  <2>3. CASE c \in alive \ cut /\ toClient' = [toClient EXCEPT ![c] = Append(@, a)]
    BY <1>1, <1>7, <2>1, <2>3
  <2> QED BY <1>6, <2>2, <2>3
<1>9. ReadFresh'
  BY <1>2, <1>4, <1>8 DEF AInv, ReadFresh
<1>10. GoneEmpty'
  BY <1>1, <1>2, <1>6 DEF AInv, GoneEmpty
<1>11. SentFresh'
  BY <1>2, <1>4 DEF AInv, SentFresh
<1> QED BY <1>3, <1>9, <1>10, <1>11

LEMMA ARefused ==
  ASSUME AInv, NEW w \in Workers, task[w].pc # "idle",
         NEW rv \in {"SUCCESS", "AUTHERR", "SERVERERR"}, Refuse(w, rv),
         UNCHANGED clientVars, TInv', UNCHANGED <<db, shm, lastId, before>>
  PROVE  AInv'
<1>1. Blank \in Randoms /\ 0 \in Nat /\ Fresh(0)
  BY KeyData DEF Fresh
<1>2. /\ SentFresh' /\ ReadFresh' /\ GoneEmpty' /\ NewTask(task[w])'
      /\ \A v \in Workers \ {w} : task'[v] = task[v]
  BY <1>1, AReplied DEF Refuse
<1>3. AnewAfterRestart' /\ (before <= Len(db))'
  BY DEF AInv, AnewAfterRestart
<1> QED BY <1>2, <1>3, AServerStep

LEMMA ATakeRequest ==
  ASSUME AInv, NEW w \in Workers, TakeRequest(w), UNCHANGED clientVars
  PROVE  AInv'
<1>1. TInv' /\ WireOK /\ TasksOK /\ SentFresh
  BY TTakeRequest, Parts DEF AInv
<1>2. PICK c \in Clients :
        /\ toServer[c] # <<>>
        /\ toServer' = [toServer EXCEPT ![c] = Tail(@)]
        /\ task' = [task EXCEPT ![w] = [Idle EXCEPT !.pc = Head(toServer[c]).type,
                      !.client = c, !.fd = fd[c], !.req = Head(toServer[c])]]
        /\ UNCHANGED <<alive, cut, toClient, db, shm, lastId, before>>
  BY DEF TakeRequest, poolVars, historyVars
<1> DEFINE r == Head(toServer[c])
           t == [Idle EXCEPT !.pc = r.type, !.client = c, !.fd = fd[c], !.req = r]
<1>3. r \in FreshRequests /\ Tail(toServer[c]) \in Seq(FreshRequests)
  BY <1>1, <1>2, HeadTail DEF SentFresh
<1>4. FreshAnswers' = FreshAnswers /\ FreshRequests' = FreshRequests /\ \A k : Fresh(k)' = Fresh(k)
  BY <1>2 DEF FreshAnswers, FreshRequests, Fresh
<1>5. SentFresh'
  BY <1>1, <1>2, <1>3, <1>4 DEF SentFresh, WireOK
<1>6. ReadFresh' /\ GoneEmpty'
  BY <1>2, <1>4 DEF AInv, ReadFresh, GoneEmpty, clientVars
<1> HIDE DEF r
<1>7. /\ r.type \in {"RANDOMNUM", "PREKEY", "KEYCHECK", "KEYREVOKE"}
      /\ r.type \in {"KEYCHECK", "KEYREVOKE"} => Fresh(r.id)
  BY <1>3, RequestData DEF FreshRequests
<1>8. t.pc = r.type /\ t.req = r
  BY DEF Idle
<1>9. task' = [task EXCEPT ![w] = t]
  BY <1>2 DEF r
<1> HIDE DEF t
<1>10. task'[w] = t /\ \A v \in Workers \ {w} : task'[v] = task[v]
  BY <1>1, <1>9 DEF TasksOK
<1>11. NewTask(task[w])'
  BY <1>4, <1>7, <1>8, <1>10 DEF NewTask
<1>12. AnewAfterRestart' /\ (before <= Len(db))'
  BY <1>2 DEF AInv, AnewAfterRestart
<1> QED BY <1>1, <1>2, <1>5, <1>6, <1>10, <1>11, <1>12, AServerStep

LEMMA ARandomNum ==
  ASSUME AInv, NEW w \in Workers, RandomNum(w), UNCHANGED clientVars
  PROVE  AInv'
<1> DEFINE t == task[w]
<1>1. TInv' /\ TasksOK /\ UNCHANGED <<db, shm, lastId, before>>
  BY TRandomNum, Parts DEF AInv, RandomNum, poolVars, historyVars
<1>2. t \in Tasks /\ Fits(t) /\ t.pc = "RANDOMNUM"
  BY <1>1 DEF TasksOK, RandomNum
<1>3. t.req \in Requests /\ t.req.type = "RANDOMNUM"
  BY <1>2, TaskData DEF Fits
<1>4. t.req.random \in Randoms /\ 0 \in Nat /\ Fresh(0)
  BY <1>3, RequestData DEF Fresh
<1>5. /\ SentFresh' /\ ReadFresh' /\ GoneEmpty' /\ NewTask(task[w])'
      /\ \A v \in Workers \ {w} : task'[v] = task[v]
  BY <1>1, <1>2, <1>4, AReplied DEF RandomNum
<1>6. AnewAfterRestart' /\ (before <= Len(db))'
  BY <1>1 DEF AInv, AnewAfterRestart
<1> QED BY <1>1, <1>5, <1>6, AServerStep

LEMMA APremaster ==
  ASSUME AInv, NEW w \in Workers, Premaster(w), UNCHANGED clientVars
  PROVE  AInv'
<1> DEFINE t == task[w]
           k == Key(randomNum[t.fd].cr, randomNum[t.fd].sr, t.req.pm)
           u == [t EXCEPT !.pc = "mac", !.key = k, !.hmac = Head(hmacs)]
<1>1. TInv' /\ TasksOK /\ t \in Tasks /\ Fits(t) /\ t.pc = "PREKEY"
  BY TPremaster, Parts DEF AInv, TasksOK, Premaster
<1>2. /\ task' = [task EXCEPT ![w].pc = "mac", ![w].key = k, ![w].hmac = Head(hmacs)]
      /\ UNCHANGED <<wireVars, db, shm, lastId, before>>
  BY DEF Premaster, historyVars
<1> HIDE DEF k
<1>3. task'[w] = u /\ \A v \in Workers \ {w} : task'[v] = task[v]
  BY <1>1, <1>2 DEF TasksOK
<1>4. u.pc = "mac" /\ u.req = t.req /\ t.req.type = "PREKEY"
  BY <1>1 DEF Tasks, Fits
<1> HIDE DEF u
<1>5. NewTask(task[w])'
  BY <1>3, <1>4 DEF NewTask
<1> QED BY <1>1, <1>2, <1>3, <1>5, AQuiet

LEMMA AQuery ==
  ASSUME AInv, NEW w \in Workers, Query(w), UNCHANGED clientVars
  PROVE  AInv'
<1> DEFINE t == task[w]
           k == db[t.req.id].key
           u == [t EXCEPT !.pc = "mac", !.key = k, !.hmac = Head(hmacs), !.conn = Head(conns)]
<1>1. /\ TInv' /\ TasksOK /\ ServerData /\ t \in Tasks /\ Fits(t) /\ NewTask(t)
      /\ t.pc \in {"KEYCHECK", "KEYREVOKE"} /\ t.pc # "idle"
      /\ UNCHANGED <<db, shm, lastId, before>>
  BY TQuery, Parts DEF AInv, TasksOK, Query, historyVars
<1>2. t.req.type = t.pc /\ Fresh(t.req.id)
  BY <1>1 DEF Fits, NewTask
<1>3. CASE /\ t.req.id \in DOMAIN db /\ UNCHANGED wireVars
           /\ task' = [task EXCEPT ![w].pc = "mac", ![w].key = k,
                         ![w].hmac = Head(hmacs), ![w].conn = Head(conns)]
  <2>1. DOMAIN db = 1..Len(db) /\ Len(db) \in Nat
    BY <1>1 DEF ServerData
  <2>2. t.req.id # 0
    BY <1>3, <2>1
  <2> HIDE DEF k
  <2>3. task'[w] = u /\ \A v \in Workers \ {w} : task'[v] = task[v]
    BY <1>1, <1>3 DEF TasksOK
  <2>4. u.pc = "mac" /\ u.req = t.req
    BY <1>1 DEF Tasks
  <2> HIDE DEF u
  <2>5. NewTask(task[w])'
    BY <1>1, <1>2, <2>2, <2>3, <2>4 DEF NewTask, Fresh
  <2> QED BY <1>1, <1>3, <2>3, <2>5, AQuiet
<1>4. CASE Refuse(w, "AUTHERR")
  BY <1>1, <1>4, ARefused
<1> QED BY <1>3, <1>4 DEF Query

LEMMA AMac ==
  ASSUME AInv, NEW w \in Workers, Mac(w), UNCHANGED clientVars
  PROVE  AInv'
<1> DEFINE t == task[w]
           p == CASE t.req.type = "PREKEY"    -> "insert"
                  [] t.req.type = "KEYCHECK"  -> "write"
                  [] t.req.type = "KEYREVOKE" -> "find"
           u == [t EXCEPT !.pc = p]
<1>1. /\ TInv' /\ TasksOK /\ t \in Tasks /\ Fits(t) /\ NewTask(t) /\ t.pc = "mac"
      /\ t.pc # "idle" /\ UNCHANGED <<db, shm, lastId, before>>
  BY TMac, Parts DEF AInv, TasksOK, Mac, poolVars, historyVars
<1>2. t.req.type \in {"PREKEY", "KEYCHECK", "KEYREVOKE"}
  BY <1>1, TaskData, RequestData DEF Fits
<1>3. CASE Refuse(w, "AUTHERR")
  BY <1>1, <1>3, ARefused
<1>4. CASE Goto(w, p) /\ UNCHANGED wireVars
  <2>1. /\ t.req.type = "PREKEY" => p = "insert"
        /\ t.req.type = "KEYCHECK" => p = "write"
        /\ t.req.type = "KEYREVOKE" => p = "find"
    OBVIOUS
  <2> HIDE DEF p
  <2>2. task'[w] = u /\ \A v \in Workers \ {w} : task'[v] = task[v]
    BY <1>1, <1>4 DEF Goto, TasksOK
  <2>3. u.pc = p /\ u.req = t.req
    BY <1>1 DEF Tasks
  <2> HIDE DEF u
  <2>4. t.req.type # "PREKEY" => Fresh(t.req.id) /\ t.req.id # 0
    BY <1>1, <1>2 DEF NewTask
  <2>5. u.pc = "write" => Target(u) > before
    BY <1>2, <2>1, <2>3, <2>4 DEF Target, Fresh
  <2>6. u.pc \in {"insert", "write", "find"}
    BY <1>2, <2>1, <2>3
  <2>7. NewTask(task[w])'
    BY <1>1, <1>2, <2>2, <2>3, <2>4, <2>5, <2>6 DEF NewTask, Fresh, Target
  <2> QED BY <1>1, <1>4, <2>2, <2>7, AQuiet
<1> QED BY <1>3, <1>4 DEF Mac

LEMMA AInsert ==
  ASSUME AInv, NEW w \in Workers, Insert(w), UNCHANGED clientVars
  PROVE  AInv'
<1> DEFINE t == task[w]
           s == Head(conns)
           row == [client |-> t.client, key |-> t.key, state |-> 1]
           u == [t EXCEPT !.pc = "lastid", !.conn = s]
<1>1. /\ TInv' /\ TasksOK /\ Pools /\ ServerData /\ t \in Tasks /\ Fits(t)
      /\ t.pc = "insert" /\ t.pc # "idle" /\ UNCHANGED <<shm, before>> /\ before <= Len(db)
      /\ before \in Nat
  BY TInsert, Parts DEF AInv, TasksOK, Insert, historyVars, ServerData
<1>2. CASE /\ db' = Append(db, row)
           /\ lastId' = [lastId EXCEPT ![s] = Len(db) + 1]
           /\ task' = [task EXCEPT ![w].pc = "lastid", ![w].conn = s]
           /\ UNCHANGED wireVars
  <2>1. s \in 1..ConnSize /\ lastId \in [1..ConnSize -> Nat]
    BY <1>1, HeadTail DEF Pools
  <2>2. Len(db) \in Nat /\ Len(db') = Len(db) + 1
    <3>1. row \in [client : Clients, key : Keys, state : {0, 1}]
      BY <1>1, TaskData DEF Fits
    <3> HIDE DEF row
    <3> QED BY <1>1, <1>2, <3>1 DEF ServerData
  <2>3. Len(db) + 1 > before /\ (before <= Len(db))'
    BY <1>1, <2>2
  <2> HIDE DEF s, row
  <2>4. task'[w] = u /\ \A v \in Workers \ {w} : task'[v] = task[v]
    BY <1>1, <1>2 DEF TasksOK
  <2>5. u.pc = "lastid" /\ u.conn = s /\ u.req = t.req /\ t.req.type = "PREKEY"
    BY <1>1 DEF Tasks, Fits
  <2> HIDE DEF u
  <2>6. lastId'[s] > before /\ \A i \in 1..ConnSize : lastId'[i] = lastId[i] \/ lastId'[i] > before
    BY <1>2, <2>1, <2>3
  <2>7. NewTask(task[w])'
    BY <1>1, <2>4, <2>5, <2>6 DEF NewTask
  <2>8. SentFresh' /\ ReadFresh' /\ GoneEmpty'
    BY <1>1, <1>2 DEF AInv, SentFresh, ReadFresh, GoneEmpty, FreshRequests, FreshAnswers, Fresh,
                      wireVars, clientVars
  <2>9. AnewAfterRestart'
    BY <1>1 DEF AInv, AnewAfterRestart
  <2> QED BY <1>1, <2>3, <2>4, <2>6, <2>7, <2>8, <2>9, AServerStep
<1>3. CASE Refuse(w, "SERVERERR") /\ UNCHANGED <<db, lastId>>
  BY <1>1, <1>3, ARefused
<1> QED BY <1>2, <1>3 DEF Insert

LEMMA ALastInsertId ==
  ASSUME AInv, NEW w \in Workers, LastInsertId(w), UNCHANGED clientVars
  PROVE  AInv'
<1> DEFINE t == task[w]
           n == lastId[t.conn]
           u == [t EXCEPT !.pc = "write", !.id = n]
<1>1. /\ TInv' /\ TasksOK /\ t \in Tasks /\ Fits(t) /\ NewTask(t) /\ t.pc = "lastid"
      /\ t.pc # "idle" /\ UNCHANGED <<db, shm, lastId, before>>
  BY TLastInsertId, Parts DEF AInv, TasksOK, LastInsertId, poolVars, historyVars
<1>2. t.req.type = "PREKEY" /\ n > before
  BY <1>1 DEF Fits, NewTask
<1>3. CASE task' = [task EXCEPT ![w].pc = "write", ![w].id = n] /\ UNCHANGED wireVars
  <2> HIDE DEF n
  <2>1. task'[w] = u /\ \A v \in Workers \ {w} : task'[v] = task[v]
    BY <1>1, <1>3 DEF TasksOK
  <2>2. u.pc = "write" /\ u.id = n /\ u.req = t.req
    BY <1>1 DEF Tasks
  <2> HIDE DEF u
  <2>3. NewTask(task[w])'
    BY <1>1, <1>2, <2>1, <2>2 DEF NewTask, Target
  <2> QED BY <1>1, <1>3, <2>1, <2>3, AQuiet
<1>4. CASE Refuse(w, "SERVERERR")
  BY <1>1, <1>4, ARefused
<1> QED BY <1>3, <1>4 DEF LastInsertId

LEMMA AShmWrite ==
  ASSUME AInv, NEW w \in Workers, ShmWrite(w), UNCHANGED clientVars
  PROVE  AInv'
<1> DEFINE t == task[w]
           n == IF t.req.type = "PREKEY" THEN t.id ELSE t.req.id
           m == IF t.req.type = "PREKEY" THEN n ELSE 0
           i == FirstOf(SlotsFor(t.client))
<1>1. /\ TInv' /\ t \in Tasks /\ Fits(t) /\ NewTask(t) /\ t.pc = "write" /\ t.pc # "idle"
      /\ UNCHANGED <<db, lastId, before>>
      /\ shm \in [1..MaxNode -> [client : Clients \cup {NoClient}, key : Keys,
                                 id : Nat, status : {0, 1}]]
  BY TShmWrite, Parts DEF AInv, TasksOK, ShmWrite, poolVars, ServerData
<1>2. n > before /\ n \in Nat
  BY <1>1, TargetId DEF NewTask, Target
<1>3. m \in Nat /\ Fresh(m)
  BY <1>2 DEF Fresh
<1>4. CASE /\ shm' = [shm EXCEPT ![i] = [client |-> t.client, key |-> t.key, id |-> n, status |-> 1]]
           /\ Reply(w, "SUCCESS", Blank, m)
  <2> HIDE DEF n, m, i
  <2>1. /\ SentFresh' /\ ReadFresh' /\ GoneEmpty' /\ NewTask(task[w])'
        /\ \A v \in Workers \ {w} : task'[v] = task[v]
    BY <1>1, <1>3, <1>4, KeyData, AReplied
  <2>2. \A j \in 1..MaxNode : shm'[j] = shm[j] \/ shm'[j].id = n
    BY <1>1, <1>4
  <2>3. AnewAfterRestart'
    BY <1>1, <1>2, <2>2 DEF AInv, AnewAfterRestart
  <2>4. (before <= Len(db))'
    BY <1>1 DEF AInv
  <2> QED BY <1>1, <2>1, <2>3, <2>4, AServerStep
<1>5. CASE Refuse(w, "SERVERERR") /\ UNCHANGED shm
  BY <1>1, <1>5, ARefused
<1> QED BY <1>4, <1>5 DEF ShmWrite

\* The two steps of updateStatue: the task keeps its request.
LEMMA AGoto ==
  ASSUME AInv, NEW w \in Workers, NEW p \in {"status", "state"}, NEW u,
         task[w].pc \in {"find", "status"}, task'[w] = u, u.pc = p, u.req = task[w].req,
         UNCHANGED before
  PROVE  NewTask(task[w])'
<1>1. NewTask(task[w])
  BY DEF AInv
<1> QED BY <1>1 DEF NewTask, Fresh

LEMMA AFindSlot ==
  ASSUME AInv, NEW w \in Workers, FindSlot(w), UNCHANGED clientVars
  PROVE  AInv'
<1> DEFINE t == task[w]
           i == FirstOf({j \in 1..MaxNode : shm[j].id = t.req.id})
           u == [t EXCEPT !.pc = "status", !.slot = i]
           v == [t EXCEPT !.pc = "state"]
<1>1. /\ TInv' /\ TasksOK /\ t \in Tasks /\ t.pc = "find"
      /\ UNCHANGED <<wireVars, db, shm, lastId, before>>
  BY TFindSlot, Parts DEF AInv, TasksOK, FindSlot, poolVars, historyVars
<1>2. CASE task' = [task EXCEPT ![w].pc = "status", ![w].slot = i]
  <2> HIDE DEF i
  <2>1. task'[w] = u /\ \A x \in Workers \ {w} : task'[x] = task[x]
    BY <1>1, <1>2 DEF TasksOK
  <2>2. u.pc = "status" /\ u.req = t.req
    BY <1>1 DEF Tasks
  <2> HIDE DEF u
  <2>3. NewTask(task[w])'
    BY <1>1, <2>1, <2>2, AGoto
  <2> QED BY <1>1, <2>1, <2>3, AQuiet
<1>3. CASE Goto(w, "state")
  <2>1. task'[w] = v /\ \A x \in Workers \ {w} : task'[x] = task[x]
    BY <1>1, <1>3 DEF Goto, TasksOK
  <2>2. v.pc = "state" /\ v.req = t.req
    BY <1>1 DEF Tasks
  <2> HIDE DEF v
  <2>3. NewTask(task[w])'
    BY <1>1, <2>1, <2>2, AGoto
  <2> QED BY <1>1, <2>1, <2>3, AQuiet
<1> QED BY <1>2, <1>3 DEF FindSlot

LEMMA ASetStatus ==
  ASSUME AInv, NEW w \in Workers, SetStatus(w), UNCHANGED clientVars
  PROVE  AInv'
<1> DEFINE t == task[w]
           v == [t EXCEPT !.pc = "state"]
<1>1. /\ TInv' /\ TasksOK /\ t \in Tasks /\ t.pc = "status"
      /\ UNCHANGED <<wireVars, db, lastId, before>>
      /\ shm \in [1..MaxNode -> [client : Clients \cup {NoClient}, key : Keys,
                                 id : Nat, status : {0, 1}]]
  BY TSetStatus, Parts DEF AInv, TasksOK, SetStatus, poolVars, historyVars, ServerData
<1>2. Goto(w, "state") /\ shm' = [shm EXCEPT ![t.slot].status = 0]
  BY DEF SetStatus
<1>3. task'[w] = v /\ \A x \in Workers \ {w} : task'[x] = task[x]
  BY <1>1, <1>2 DEF Goto, TasksOK
<1>4. v.pc = "state" /\ v.req = t.req
  BY <1>1 DEF Tasks
<1> HIDE DEF v
<1>5. NewTask(task[w])'
  BY <1>1, <1>3, <1>4, AGoto
<1>6. \A j \in 1..MaxNode : shm'[j].id = shm[j].id /\ (shm[j] = NoSlot => shm'[j] = NoSlot)
  BY <1>1, <1>2 DEF NoSlot
<1>7. AnewAfterRestart'
  BY <1>1, <1>6 DEF AInv, AnewAfterRestart
<1>8. SentFresh' /\ ReadFresh' /\ GoneEmpty' /\ (before <= Len(db))'
  BY <1>1 DEF AInv, SentFresh, ReadFresh, GoneEmpty, FreshRequests, FreshAnswers, Fresh,
              wireVars, clientVars
<1> QED BY <1>1, <1>3, <1>5, <1>7, <1>8, AServerStep

LEMMA AUpdateState ==
  ASSUME AInv, NEW w \in Workers, UpdateState(w), UNCHANGED clientVars
  PROVE  AInv'
<1>1. TInv' /\ ServerData /\ UNCHANGED <<shm, lastId, before>> /\ task[w].pc # "idle"
  BY TUpdateState, Parts DEF AInv, UpdateState, poolVars, historyVars
<1>2. CASE db' = [db EXCEPT ![task[w].req.id].state = 0] /\ Reply(w, "SUCCESS", Blank, 0)
  <2>1. Blank \in Randoms /\ 0 \in Nat /\ Fresh(0)
    BY KeyData DEF Fresh
  <2>2. /\ SentFresh' /\ ReadFresh' /\ GoneEmpty' /\ NewTask(task[w])'
        /\ \A v \in Workers \ {w} : task'[v] = task[v]
    BY <1>1, <1>2, <2>1, AReplied
  <2>3. Len(db') = Len(db)
    BY <1>1, <1>2 DEF ServerData
  <2>4. AnewAfterRestart' /\ (before <= Len(db))'
    BY <1>1, <2>3 DEF AInv, AnewAfterRestart
  <2> QED BY <1>1, <2>2, <2>4, AServerStep
<1>3. CASE (\E rv \in {"SUCCESS", "SERVERERR"} : Refuse(w, rv)) /\ UNCHANGED db
  BY <1>1, <1>3, ARefused
<1> QED BY <1>2, <1>3 DEF UpdateState, Refuse

LEMMA ARestart ==
  ASSUME AInv, Restart, UNCHANGED clientVars
  PROVE  AInv'
<1>1. TInv' /\ ServerData /\ alive \in SUBSET Clients
  BY TRestart, Parts DEF AInv, WireOK
<1>2. (before <= Len(db))'
  <2>1. before' = Len(db) /\ db' = db /\ Len(db) \in Nat
    BY <1>1 DEF Restart, ServerData
  <2> QED BY <2>1
<1>3. SentFresh'
  BY DEF Restart, SentFresh
<1>4. ReadFresh' /\ GoneEmpty'
  BY <1>1 DEF Restart, ReadFresh, AInv, GoneEmpty
<1>5. (\A w \in Workers : NewTask(task[w]))'
  BY DEF Restart, AllIdle, Idle, NewTask
<1>6. AnewAfterRestart'
  BY DEF Restart, NoSlots, AnewAfterRestart
<1> QED BY <1>1, <1>2, <1>3, <1>4, <1>5, <1>6 DEF AInv

LEMMA ANext == AInv /\ [Next]_vars => AInv'
<1> SUFFICES ASSUME AInv, [Next]_vars PROVE AInv'
  OBVIOUS
<1>1. CASE UNCHANGED vars
  <2>1. TInv' /\ UNCHANGED serverVars
    BY <1>1, TNext DEF AInv, vars
  <2>2. SentFresh' /\ ReadFresh' /\ GoneEmpty'
    BY <1>1 DEF AInv, SentFresh, ReadFresh, GoneEmpty, FreshRequests, FreshAnswers, Fresh,
                vars, wireVars, clientVars, serverVars, historyVars
  <2> QED BY <2>1, <2>2, AClientStep
<1>2. ASSUME NEW c \in Clients, ClientStep(c), UNCHANGED serverVars PROVE AInv'
  BY <1>2, AClients
<1>3. ASSUME NEW w \in Workers, Server(w), UNCHANGED clientVars PROVE AInv'
  BY <1>3, ATakeRequest, ARandomNum, APremaster, AQuery, AMac, AInsert, ALastInsertId,
     AShmWrite, AFindSlot, ASetStatus, AUpdateState DEF Server
<1>4. CASE Restart /\ UNCHANGED clientVars
  BY <1>4, ARestart
<1> QED BY <1>1, <1>2, <1>3, <1>4 DEF Next

\* With any number of threads, a restarted server shows only keys it has
\* inserted itself: no request that reaches it names an older row.
THEOREM ShownAnew == Spec => []AnewAfterRestart
<1>1. AInv => AnewAfterRestart
  BY DEF AInv
<1> QED BY AInit, ANext, <1>1, PTL DEF Spec
=============================================================================

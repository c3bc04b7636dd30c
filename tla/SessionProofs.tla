---------------------------- MODULE SessionProofs ----------------------------
(***************************************************************************)
(* What holds of Session for any accounts and bounds: its type             *)
(* correctness, and that the session which runs is the one stored.         *)
(***************************************************************************)
EXTENDS Session, FiniteSetTheorems, TLAPS

Job == [op : {"get", "set", "del"}, token : Nat]

\* What the store's calls, the requests and the tokens are.
TypeInv ==
  /\ owner \in Seq(Accounts)
  /\ asks \subseteq [kind : Kinds, who : Accounts]
  /\ jobs \in Seq(Job)

\* The read at the start comes before all other calls, and nobody is signed in
\* until it is through.
ReadFirst == \A i \in 1 .. Len(jobs) : jobs[i].op = "get" => i = 1 /\ mem = NoToken

\* Once it is, memory and store are changed together.
Reading == jobs # <<>> /\ Head(jobs).op = "get"
Agree   == ~Reading /\ "get" \notin failed => mem = stored

StoreInv == TypeInv /\ ReadFirst /\ Agree

storeVars == <<owner, asks, jobs, mem, stored, failed>>

-----------------------------------------------------------------------------
(* Lemma: a call is added behind those under way.                           *)

\* A call other than the read is added: the read stays first, and a read that
\* is over stays over.
LEMMA AddedBehind ==
  ASSUME StoreInv, NEW job \in Job, job.op # "get", jobs' = Append(jobs, job),
         mem' = mem, stored' = stored, failed' = failed
  PROVE  jobs' \in Seq(Job) /\ ReadFirst' /\ Agree'
<1>1. /\ jobs \in Seq(Job) /\ jobs' \in Seq(Job) /\ Len(jobs') = Len(jobs) + 1
      /\ \A i \in 1 .. Len(jobs) : jobs'[i] = jobs[i]
      /\ jobs'[Len(jobs) + 1] = job
  BY DEF StoreInv, TypeInv
<1>2. ReadFirst'
  BY <1>1 DEF StoreInv, ReadFirst
<1>3. jobs # <<>> => jobs' # <<>> /\ Head(jobs') = Head(jobs)
  BY <1>1
<1>4. jobs = <<>> => Head(jobs') = job
  BY <1>1
<1>5. Reading' <=> Reading
  BY <1>1, <1>3, <1>4 DEF Reading
<1>6. Agree'
  BY <1>5 DEF StoreInv, Agree
<1> QED BY <1>1, <1>2, <1>6

\* The first call is over; if the read was, nobody is signed in, and the read
\* is not under way any more.
LEMMA FirstOver ==
  ASSUME StoreInv, jobs # <<>>, jobs' = Tail(jobs)
  PROVE  /\ jobs' \in Seq(Job) /\ ~Reading'
         /\ \A i \in 1 .. Len(jobs') : jobs'[i].op # "get"
         /\ Head(jobs) \in Job
         /\ Head(jobs).op = "get" => mem = NoToken
<1>1. /\ jobs \in Seq(Job) /\ jobs' \in Seq(Job) /\ Len(jobs') = Len(jobs) - 1 /\ Len(jobs) > 0
      /\ \A i \in 1 .. Len(jobs') : jobs'[i] = jobs[i + 1]
      /\ Head(jobs) = jobs[1] /\ Head(jobs) \in Job
  BY DEF StoreInv, TypeInv
<1>2. \A i \in 1 .. Len(jobs') : jobs'[i].op # "get"
  BY <1>1 DEF StoreInv, ReadFirst
<1>3. jobs' # <<>> => Head(jobs') = jobs'[1] /\ Len(jobs') > 0
  BY <1>1
<1>4. ~Reading'
  BY <1>1, <1>2, <1>3 DEF Reading
<1>5. Head(jobs).op = "get" => mem = NoToken
  BY <1>1 DEF StoreInv, ReadFirst
<1> QED BY <1>1, <1>2, <1>4, <1>5

\* Nothing the invariant speaks of is changed.
LEMMA StoreStutters ==
  ASSUME StoreInv, UNCHANGED storeVars
  PROVE  StoreInv'
  BY DEF StoreInv, TypeInv, ReadFirst, Reading, Agree, storeVars

-----------------------------------------------------------------------------
(* The invariant.                                                           *)

LEMMA InitStore ==
  ASSUME Init
  PROVE  StoreInv
<1>1. jobs \in Seq(Job) /\ Len(jobs) = 1 /\ jobs # <<>> /\ Head(jobs) = jobs[1] /\ jobs[1].op = "get"
  BY DEF Init, Job, NoToken
<1>2. owner \in Seq(Accounts) /\ asks = {} /\ mem = NoToken
  BY DEF Init
<1> QED BY <1>1, <1>2 DEF StoreInv, TypeInv, ReadFirst, Reading, Agree

\* The steps that touch what the invariant speaks of.
LEMMA StoreSteps ==
  ASSUME StoreInv,
         \/ \E a \in Accounts : HandleLogin(a) \/ HandleRegister(a)
         \/ \E ask \in asks : Answered(ask) \/ AskLost(ask)
         \/ Logout \/ JobLands \/ JobFails \/ Kill \/ HearClose
  PROVE  StoreInv'
<1>1. ASSUME NEW a \in Accounts, HandleLogin(a) \/ HandleRegister(a) PROVE StoreInv'
  <2>1. PICK kind \in Kinds : Submit(kind, a)
    BY <1>1 DEF HandleLogin, HandleRegister, Kinds
  <2>2. asks' \subseteq [kind : Kinds, who : Accounts]
    BY <2>1 DEF Submit, StoreInv, TypeInv
  <2>3. UNCHANGED <<owner, jobs, mem, stored, failed>>
    BY <2>1 DEF Submit, authVars
  <2> QED BY <2>2, <2>3 DEF StoreInv, TypeInv, ReadFirst, Reading, Agree
<1>2. ASSUME NEW ask \in asks, Answered(ask) PROVE StoreInv'
  <2>1. UNCHANGED <<mem, stored, failed>> /\ asks' \subseteq asks
    BY <1>2 DEF Answered
  <2>2. ask.who \in Accounts /\ owner \in Seq(Accounts)
    BY DEF StoreInv, TypeInv
  <2>3. CASE (ask.kind = "login") = (ask.who \in users)
    <3> DEFINE job == [op |-> "set", token |-> Len(owner) + 1]
    <3>1. job \in Job /\ job.op # "get"
      BY <2>2 DEF Job
    <3>2. jobs' = Append(jobs, job) /\ owner' = Append(owner, ask.who)
      BY <1>2, <2>3 DEF Answered
    <3>3. owner' \in Seq(Accounts)
      BY <2>2, <3>2
    <3> HIDE DEF job
    <3>4. jobs' \in Seq(Job) /\ ReadFirst' /\ Agree'
      BY <2>1, <3>1, <3>2, AddedBehind
    <3> QED BY <2>1, <3>3, <3>4 DEF StoreInv, TypeInv
  <2>4. CASE ~((ask.kind = "login") = (ask.who \in users))
    <3>1. UNCHANGED <<owner, jobs>>
      BY <1>2, <2>4 DEF Answered, authVars
    <3> QED BY <2>1, <3>1 DEF StoreInv, TypeInv, ReadFirst, Reading, Agree
  <2> QED BY <2>3, <2>4
<1>3. ASSUME NEW ask \in asks, AskLost(ask) PROVE StoreInv'
  <2>1. UNCHANGED <<owner, jobs, mem, stored, failed>> /\ asks' \subseteq asks
    BY <1>3 DEF AskLost
  <2> QED BY <2>1 DEF StoreInv, TypeInv, ReadFirst, Reading, Agree
<1>4. ASSUME Logout PROVE StoreInv'
  <2>1. jobs' = Append(jobs, [op |-> "del", token |-> NoToken]) /\ mem' = mem
    BY <1>4 DEF Logout, KeptMeanwhile
  <2>2. UNCHANGED <<owner, asks, stored, failed>>
    BY <1>4 DEF Logout, authVars
  <2>3. [op |-> "del", token |-> NoToken] \in Job
    BY DEF Job, NoToken
  <2>4. jobs' \in Seq(Job) /\ ReadFirst' /\ Agree'
    BY <2>1, <2>2, <2>3, AddedBehind
  <2> QED BY <2>2, <2>4 DEF StoreInv, TypeInv
<1>5. ASSUME JobLands PROVE StoreInv'
  <2>1. /\ jobs' \in Seq(Job) /\ ~Reading' /\ \A i \in 1 .. Len(jobs') : jobs'[i].op # "get"
        /\ Head(jobs).op = "get" => mem = NoToken
    BY <1>5, FirstOver DEF JobLands
  <2>2. UNCHANGED <<owner, asks>>
    BY <1>5 DEF JobLands, authVars
  <2>3. mem' = stored'
    <3>1. CASE Head(jobs).op = "get"
      BY <1>5, <2>1, <3>1 DEF JobLands, SetToken
    <3>2. CASE Head(jobs).op # "get"
      BY <1>5, <3>2 DEF JobLands, SetToken
    <3> QED BY <3>1, <3>2
  <2> QED BY <2>1, <2>2, <2>3 DEF StoreInv, TypeInv, ReadFirst, Agree
<1>6. ASSUME JobFails PROVE StoreInv'
  <2>1. /\ jobs' \in Seq(Job) /\ ~Reading' /\ \A i \in 1 .. Len(jobs') : jobs'[i].op # "get"
        /\ Head(jobs) \in Job
    BY <1>6, FirstOver DEF JobFails
  <2>2. UNCHANGED <<owner, asks, mem, stored>> /\ failed' = failed \cup ({Head(jobs).op} \ {"set"})
    BY <1>6 DEF JobFails, authVars
  <2>3. "get" \notin failed' => ~Reading /\ "get" \notin failed
    BY <2>2 DEF Reading
  <2>4. Agree'
    BY <2>2, <2>3 DEF StoreInv, Agree
  <2> QED BY <2>1, <2>2, <2>4 DEF StoreInv, TypeInv, ReadFirst
<1>7. ASSUME Kill PROVE StoreInv'
  <2>1. jobs' = <<[op |-> "get", token |-> NoToken]>> /\ mem' = NoToken /\ asks' = {} /\ owner' = owner
    BY <1>7 DEF Kill, authVars
  <2>2. jobs' \in Seq(Job) /\ Len(jobs') = 1 /\ jobs' # <<>> /\ Head(jobs') = jobs'[1] /\ jobs'[1].op = "get"
    BY <2>1 DEF Job, NoToken
  <2> QED BY <2>1, <2>2 DEF StoreInv, TypeInv, ReadFirst, Reading, Agree
<1>8. ASSUME HearClose PROVE StoreInv'
  <2>1. UNCHANGED <<owner, asks, mem, stored, failed>>
    BY <1>8 DEF HearClose, authVars
  <2>2. CASE jobs' = jobs
    BY <2>1, <2>2 DEF StoreInv, TypeInv, ReadFirst, Reading, Agree
  <2>3. CASE jobs' = Append(jobs, [op |-> "del", token |-> NoToken])
    <3>1. [op |-> "del", token |-> NoToken] \in Job
      BY DEF Job, NoToken
    <3>2. jobs' \in Seq(Job) /\ ReadFirst' /\ Agree'
      BY <2>1, <2>3, <3>1, AddedBehind
    <3> QED BY <2>1, <3>2 DEF StoreInv, TypeInv
  <2> QED BY <1>8, <2>2, <2>3 DEF HearClose
<1> QED BY <1>1, <1>2, <1>3, <1>4, <1>5, <1>6, <1>7, <1>8

LEMMA NextStore ==
  ASSUME StoreInv, [Next]_vars
  PROVE  StoreInv'
<1> USE DEF deviceVars, roomVars, sockVars, authVars, memberVars, storeVars
<1>1. CASE UNCHANGED vars
  BY <1>1, StoreStutters DEF vars
<1>2. CASE Redirect \/ CloseRoom \/ \E t \in Issued : Expire(t)
  BY <1>2, StoreStutters DEF Redirect, CloseRoom, Expire
<1>3. CASE CreateRoom \/ JoinRoom \/ CreateLost \/ JoinLost \/ OpenRoom
  BY <1>3, StoreStutters DEF CreateRoom, JoinRoom, CreateLost, JoinLost, OpenRoom
<1>4. CASE \E m \in Msgs : Type(m)
  BY <1>4, StoreStutters DEF Type
<1>5. CASE SocketOpens \/ Verify \/ Admit \/ AnswerStep1
  BY <1>5, StoreStutters DEF SocketOpens, Verify, Admit, AnswerStep1
<1>6. CASE Receive \/ WindowOver \/ Drop \/ RetryTimeout
  BY <1>6, StoreStutters DEF Receive, WindowOver, Drop, RetryTimeout
<1>7. CASE \/ \E a \in Accounts : HandleLogin(a) \/ HandleRegister(a)
           \/ \E ask \in asks : Answered(ask) \/ AskLost(ask)
           \/ Logout \/ JobLands \/ JobFails \/ Kill \/ HearClose
  BY <1>7, StoreSteps
<1> QED BY <1>1, <1>2, <1>3, <1>4, <1>5, <1>6, <1>7 DEF Next

\* The session that runs is the one a restart would bring back, whatever
\* accounts, sign-ins, sign-outs and failing calls overlap.
THEOREM SessionIsStored == Spec => []StoredIsSession
<1>1. Init => StoreInv
  BY InitStore
<1>2. StoreInv /\ [Next]_vars => StoreInv'
  BY NextStore
<1>3. StoreInv => StoredIsSession
  BY DEF StoreInv, Reading, Agree, StoredIsSession
<1> QED BY <1>1, <1>2, <1>3, PTL DEF Spec

-----------------------------------------------------------------------------
(* Types of everything.  Accounts and tokens: who holds a token or is a     *)
(* member has an account.                                                   *)

AnyToken == Issued \cup {NoToken}

Accounting ==
  /\ owner \in Seq(Accounts) /\ Len(owner) <= MaxTokens /\ valid \subseteq Issued
  /\ mem \in AnyToken /\ stored \in AnyToken
  /\ \A i \in 1 .. Len(jobs) : jobs[i].token \in AnyToken
  /\ users \subseteq Accounts /\ \A t \in Issued : owner[t] \in users

Membership == rows \in BOOLEAN /\ admins \subseteq members /\ members \subseteq users

accountVars == <<owner, valid, mem, stored, jobs, users>>

LEMMA AccountsStutter ==
  ASSUME Accounting, UNCHANGED accountVars
  PROVE  Accounting'
BY DEF Accounting, AnyToken, Issued, accountVars

\* A call is added with a token that has been issued, or none.
LEMMA CallAdded ==
  ASSUME StoreInv, Accounting, NEW job \in Job, job.token \in AnyToken, jobs' = Append(jobs, job),
         UNCHANGED <<owner, valid, mem, stored, users>>
  PROVE  Accounting'
<1>1. /\ Len(jobs') = Len(jobs) + 1 /\ Len(jobs) \in Nat
      /\ \A i \in 1 .. Len(jobs) : jobs'[i] = jobs[i]
      /\ jobs'[Len(jobs) + 1] = job
  BY DEF StoreInv, TypeInv
<1>2. \A i \in 1 .. Len(jobs') : i \in 1 .. Len(jobs) \/ i = Len(jobs) + 1
  BY <1>1
<1>3. \A i \in 1 .. Len(jobs') : jobs'[i].token \in AnyToken
  BY <1>1, <1>2 DEF Accounting
<1> QED BY <1>3 DEF Accounting, AnyToken, Issued

\* The first call is over.
LEMMA CallOver ==
  ASSUME StoreInv, Accounting, jobs # <<>>, jobs' = Tail(jobs)
  PROVE  Head(jobs).token \in AnyToken /\ \A i \in 1 .. Len(jobs') : jobs'[i].token \in AnyToken
<1>1. /\ Len(jobs') = Len(jobs) - 1 /\ Len(jobs) > 0 /\ Head(jobs) = jobs[1] /\ Len(jobs) \in Nat
      /\ \A i \in 1 .. Len(jobs') : jobs'[i] = jobs[i + 1]
  BY DEF StoreInv, TypeInv
<1>2. 1 \in 1 .. Len(jobs) /\ \A i \in 1 .. Len(jobs') : i + 1 \in 1 .. Len(jobs)
  BY <1>1
<1> QED BY <1>1, <1>2 DEF Accounting

\* A token is issued to somebody with an account.
LEMMA TokenIssued ==
  ASSUME StoreInv, Accounting, NEW who \in Accounts, Len(owner) < MaxTokens,
         users' = users \cup {who}, owner' = Append(owner, who), valid' = valid \cup {Len(owner) + 1},
         jobs' = Append(jobs, [op |-> "set", token |-> Len(owner) + 1]),
         UNCHANGED <<mem, stored>>
  PROVE  Accounting'
<1> DEFINE new == Len(owner) + 1
<1>1. /\ owner \in Seq(Accounts) /\ owner' \in Seq(Accounts) /\ Len(owner') = new /\ Len(owner) \in Nat
      /\ Issued = 1 .. Len(owner) /\ Issued' = 1 .. new
      /\ \A t \in Issued : owner'[t] = owner[t]
      /\ owner'[new] = who
  BY DEF Accounting, Issued
<1>2. AnyToken \subseteq AnyToken' /\ Issued \subseteq Issued' /\ new \in Issued' /\ \A t \in Issued' : t \in Issued \/ t = new
  BY <1>1 DEF AnyToken, NoToken
<1>3. Len(owner') <= MaxTokens
  BY <1>1, SessionAssumption
<1>4. \A t \in Issued' : owner'[t] \in users'
  BY <1>1, <1>2 DEF Accounting
<1>5. valid' \subseteq Issued' /\ users' \subseteq Accounts
  <2>1. valid' = valid \cup {new}
    OBVIOUS
  <2> HIDE DEF new
  <2> QED BY <1>2, <2>1 DEF Accounting
<1>6. \A i \in 1 .. Len(jobs') : jobs'[i].token \in AnyToken'
  <2> DEFINE job == [op |-> "set", token |-> new]
  <2>1. job.token = new
    OBVIOUS
  <2> HIDE DEF job
  <2>2. /\ Len(jobs') = Len(jobs) + 1 /\ Len(jobs) \in Nat
        /\ \A i \in 1 .. Len(jobs) : jobs'[i] = jobs[i]
        /\ jobs'[Len(jobs) + 1] = job
    BY DEF StoreInv, TypeInv, job
  <2>3. \A i \in 1 .. Len(jobs') : i \in 1 .. Len(jobs) \/ i = Len(jobs) + 1
    BY <2>2
  <2> QED BY <1>2, <2>1, <2>2, <2>3 DEF Accounting, AnyToken
<1> QED BY <1>1, <1>2, <1>3, <1>4, <1>5, <1>6 DEF Accounting

LEMMA AccountSteps ==
  ASSUME StoreInv, Accounting,
         \/ \E ask \in asks : Answered(ask) \/ AskLost(ask)
         \/ Logout \/ JobLands \/ JobFails \/ Kill \/ HearClose
         \/ \E t \in Issued : Expire(t)
  PROVE  Accounting'
<1>1. NoToken \in AnyToken /\ [op |-> "del", token |-> NoToken] \in Job
  BY DEF AnyToken, Job, NoToken
<1>2. ASSUME NEW ask \in asks, Answered(ask) PROVE Accounting'
  <2>1. ask.who \in Accounts /\ Len(owner) < MaxTokens /\ UNCHANGED <<mem, stored>>
    BY <1>2 DEF Answered, StoreInv, TypeInv
  <2>2. CASE (ask.kind = "login") = (ask.who \in users)
    <3>1. /\ users' = users \cup {ask.who} /\ owner' = Append(owner, ask.who)
          /\ valid' = valid \cup {Len(owner) + 1}
          /\ jobs' = Append(jobs, [op |-> "set", token |-> Len(owner) + 1])
      BY <1>2, <2>2 DEF Answered
    <3> QED BY <2>1, <3>1, TokenIssued
  <2>3. CASE ~((ask.kind = "login") = (ask.who \in users))
    <3>1. UNCHANGED accountVars
      BY <1>2, <2>1, <2>3 DEF Answered, authVars, accountVars
    <3> QED BY <3>1, AccountsStutter
  <2> QED BY <2>2, <2>3
<1>3. ASSUME NEW ask \in asks, AskLost(ask) PROVE Accounting'
  <2>1. ask.who \in Accounts
    BY DEF StoreInv, TypeInv
  <2>2. UNCHANGED <<owner, valid, mem, stored, jobs>> /\ (users' = users \/ users' = users \cup {ask.who})
    BY <1>3 DEF AskLost
  <2> QED BY <2>1, <2>2 DEF Accounting, AnyToken, Issued
<1>4. ASSUME Logout \/ HearClose PROVE Accounting'
  <2>1. /\ UNCHANGED <<owner, valid, mem, stored, users>>
        /\ jobs' = jobs \/ jobs' = Append(jobs, [op |-> "del", token |-> NoToken])
    BY <1>4 DEF Logout, HearClose, KeptMeanwhile, authVars
  <2>2. CASE jobs' = jobs
    BY <2>1, <2>2, AccountsStutter DEF accountVars
  <2>3. CASE jobs' = Append(jobs, [op |-> "del", token |-> NoToken])
    BY <1>1, <2>1, <2>3, CallAdded
  <2> QED BY <2>1, <2>2, <2>3
<1>5. ASSUME JobLands PROVE Accounting'
  <2>1. jobs # <<>> /\ jobs' = Tail(jobs) /\ UNCHANGED <<owner, valid, users>>
    BY <1>5 DEF JobLands, authVars
  <2>2. Head(jobs).token \in AnyToken /\ \A i \in 1 .. Len(jobs') : jobs'[i].token \in AnyToken
    BY <2>1, CallOver
  <2>3. {mem', stored'} \subseteq {mem, stored, Head(jobs).token}
    BY <1>5 DEF JobLands, SetToken
  <2> QED BY <2>1, <2>2, <2>3 DEF Accounting, AnyToken, Issued
<1>6. ASSUME JobFails PROVE Accounting'
  <2>1. jobs # <<>> /\ jobs' = Tail(jobs) /\ UNCHANGED <<owner, valid, users, mem, stored>>
    BY <1>6 DEF JobFails, authVars
  <2>2. \A i \in 1 .. Len(jobs') : jobs'[i].token \in AnyToken
    BY <2>1, CallOver
  <2> QED BY <2>1, <2>2 DEF Accounting, AnyToken, Issued
<1>7. ASSUME Kill PROVE Accounting'
  <2>1. jobs' = <<[op |-> "get", token |-> NoToken]>> /\ mem' = NoToken /\ UNCHANGED <<stored, owner, valid, users>>
    BY <1>7 DEF Kill, authVars
  <2>2. \A i \in 1 .. Len(jobs') : jobs'[i].token = NoToken
    BY <2>1
  <2> QED BY <1>1, <2>1, <2>2 DEF Accounting, AnyToken, Issued
<1>8. ASSUME NEW t \in Issued, Expire(t) PROVE Accounting'
  <2>1. valid' \subseteq valid /\ UNCHANGED <<mem, stored, jobs, users, owner>>
    BY <1>8 DEF Expire, deviceVars
  <2> QED BY <2>1 DEF Accounting, AnyToken, Issued
<1> QED BY <1>2, <1>3, <1>4, <1>5, <1>6, <1>7, <1>8

LEMMA NextAccounts ==
  ASSUME StoreInv, Accounting, [Next]_vars
  PROVE  Accounting'
<1> USE DEF deviceVars, roomVars, sockVars, authVars, memberVars, accountVars
<1>1. CASE UNCHANGED vars
  BY <1>1, AccountsStutter DEF vars
<1>2. CASE Redirect \/ CloseRoom \/ \E a \in Accounts : HandleLogin(a) \/ HandleRegister(a)
  BY <1>2, AccountsStutter DEF Redirect, CloseRoom, HandleLogin, HandleRegister, Submit
<1>3. CASE CreateRoom \/ JoinRoom \/ CreateLost \/ JoinLost \/ OpenRoom
  BY <1>3, AccountsStutter DEF CreateRoom, JoinRoom, CreateLost, JoinLost, OpenRoom
<1>4. CASE \E m \in Msgs : Type(m)
  BY <1>4, AccountsStutter DEF Type
<1>5. CASE SocketOpens \/ Verify \/ Admit \/ AnswerStep1
  BY <1>5, AccountsStutter DEF SocketOpens, Verify, Admit, AnswerStep1
<1>6. CASE Receive \/ WindowOver \/ Drop \/ RetryTimeout
  BY <1>6, AccountsStutter DEF Receive, WindowOver, Drop, RetryTimeout
<1>7. CASE \/ \E ask \in asks : Answered(ask) \/ AskLost(ask)
           \/ Logout \/ JobLands \/ JobFails \/ Kill \/ HearClose
           \/ \E t \in Issued : Expire(t)
  BY <1>7, AccountSteps
<1> QED BY <1>1, <1>2, <1>3, <1>4, <1>5, <1>6, <1>7 DEF Next

\* What a step leaves alone: each variable below has a few actions that touch it.
Touched ==
  /\ users' = users \/ (\E ask \in asks : Answered(ask) \/ AskLost(ask))
  /\ UNCHANGED memberVars \/ CreateRoom \/ JoinRoom \/ CreateLost \/ JoinLost
  /\ faults' = faults \/ Fault
  /\ windows' = windows \/ (windows < MaxWindows /\ windows' = windows + 1)
  /\ UNCHANGED <<loading, screen, failed>> \/ JobLands \/ JobFails \/ Redirect \/ Kill

LEMMA NextTouches ==
  ASSUME [Next]_vars
  PROVE  Touched
<1> USE DEF authVars, memberVars, deviceVars
<1>1. CASE UNCHANGED vars
  BY <1>1 DEF vars, Touched
<1>2. CASE \E a \in Accounts : HandleLogin(a) \/ HandleRegister(a)
  BY <1>2 DEF HandleLogin, HandleRegister, Submit, Touched
<1>3. ASSUME NEW ask \in asks, Answered(ask) \/ AskLost(ask)
      PROVE  Touched
  <2>1. /\ UNCHANGED <<memberVars, windows, loading, screen, failed>>
        /\ faults' = faults \/ Fault
    BY <1>3 DEF Answered, AskLost
  <2> QED BY <1>3, <2>1 DEF Touched
<1>4. CASE JobLands \/ JobFails \/ Redirect \/ Kill
  <2>1. /\ UNCHANGED <<users, memberVars, windows>>
        /\ faults' = faults \/ Fault
    BY <1>4 DEF JobLands, JobFails, Redirect, Kill
  <2> QED BY <1>4, <2>1 DEF Touched
<1>5. CASE Logout \/ \E t \in Issued : Expire(t)
  BY <1>5 DEF Logout, Expire, Touched
<1>6. CASE CreateRoom \/ JoinRoom \/ CreateLost \/ JoinLost
  <2>1. /\ UNCHANGED <<users, windows, loading, screen, failed>>
        /\ faults' = faults \/ Fault
    BY <1>6 DEF CreateRoom, JoinRoom, CreateLost, JoinLost
  <2> QED BY <1>6, <2>1 DEF Touched
<1>7. CASE OpenRoom \/ CloseRoom \/ \E m \in Msgs : Type(m)
  BY <1>7 DEF OpenRoom, CloseRoom, Type, Touched
<1>8. CASE SocketOpens \/ Verify \/ Admit \/ AnswerStep1
  BY <1>8 DEF SocketOpens, Verify, Admit, AnswerStep1, Touched
<1>9. CASE Receive \/ WindowOver
  BY <1>9 DEF Receive, WindowOver, Touched
<1>10. CASE Drop \/ HearClose \/ RetryTimeout
  BY <1>10 DEF Drop, HearClose, RetryTimeout, Touched
<1> QED BY <1>1, <1>2, <1>3, <1>4, <1>5, <1>6, <1>7, <1>8, <1>9, <1>10 DEF Next

\* Who creates or joins a room is signed in, and so has an account.
LEMMA NextMembers ==
  ASSUME Accounting, Membership, [Next]_vars
  PROVE  Membership'
<1>1. users \subseteq users'
  <2>1. CASE \E ask \in asks : Answered(ask) \/ AskLost(ask)
    BY <2>1 DEF Answered, AskLost, authVars
  <2>2. CASE users' = users
    BY <2>2
  <2> QED BY <2>1, <2>2, NextTouches DEF Touched
<1>2. CASE CreateRoom \/ JoinRoom \/ CreateLost \/ JoinLost
  <2>1. mem \in Issued
    BY <1>2 DEF CreateRoom, JoinRoom, CreateLost, JoinLost, Asks, SignedIn, Accounting, AnyToken
  <2>2. Me \in users
    BY <2>1 DEF Accounting, Me
  <2>3. /\ rows' \in {rows, TRUE}
        /\ \/ UNCHANGED <<admins, members>>
           \/ members' = members \cup {Me} /\ (admins' = admins \/ admins' = admins \cup {Me})
    BY <1>2 DEF CreateRoom, JoinRoom, CreateLost, JoinLost
  <2>4. rows' \in BOOLEAN
    BY <2>3 DEF Membership
  <2> QED BY <1>1, <2>2, <2>3, <2>4 DEF Membership
<1>3. CASE UNCHANGED memberVars
  BY <1>1, <1>3 DEF Membership, memberVars
<1> QED BY <1>2, <1>3, NextTouches DEF Touched

-----------------------------------------------------------------------------
(* The connection: what is queued, under way or on the server was typed,    *)
(* and there is no provider without the room's screen.                      *)

Socket ==
  /\ sock \in Phases /\ code \in Codes /\ asked \in BOOLEAN /\ count \in 0 .. RateLimit
  /\ (sock # "off" => open)

Frames == queue \subseteq typed /\ up \in Seq(SUBSET typed)

Work == typed \subseteq Msgs /\ IsFiniteSet(typed) /\ server \subseteq typed

Connection == Socket /\ Frames /\ Work /\ open \in BOOLEAN /\ refused \in BOOLEAN

LEMMA ConnectionStutters ==
  ASSUME Connection, UNCHANGED <<roomVars, sockVars, server, typed>>
  PROVE  Connection'
BY DEF Connection, Socket, Frames, Work, roomVars, sockVars

LEMMA NothingQueued == <<>> \in Seq(SUBSET typed) /\ 0 \in 0 .. RateLimit /\ 0 \in Codes
<1>1. <<>> \in Seq(SUBSET typed) /\ 0 \in Codes
  BY DEF Codes
<1>2. 0 \in 0 .. RateLimit
  BY SessionAssumption
<1> QED BY <1>1, <1>2

\* A provider is built, or there is none.
LEMMA ProviderBuilt ==
  ASSUME Connection, NEW phase \in Phases, Provider(phase), open' \in BOOLEAN, refused' \in BOOLEAN,
         phase # "off" => open', UNCHANGED <<server, typed>>
  PROVE  Connection'
<1>1. sock' = phase /\ code' = 0 /\ queue' = {} /\ up' = <<>> /\ asked' = FALSE /\ count' = 0
  BY DEF Provider
<1>2. Socket' /\ Frames'
  BY <1>1, NothingQueued DEF Socket, Frames
<1> QED BY <1>2 DEF Connection, Work

LEMMA TokenSet ==
  ASSUME Connection, NEW t, SetToken(t), UNCHANGED <<roomVars, server, typed>>
  PROVE  Connection'
<1> DEFINE phase == IF open /\ t # NoToken THEN "connecting" ELSE "off"
<1>1. Provider(phase) /\ phase \in Phases /\ (phase # "off" => open)
  BY DEF SetToken, Phases
<1> HIDE DEF phase
<1>2. open' = open /\ refused' = refused /\ open \in BOOLEAN /\ refused \in BOOLEAN
  BY DEF roomVars, Connection
<1> QED BY <1>1, <1>2, ProviderBuilt

\* The socket is closed by the server.
LEMMA SocketClosed ==
  ASSUME Connection, NEW why \in Codes, Closes(why), sock # "off", UNCHANGED <<roomVars, server, typed>>
  PROVE  Connection'
<1>1. sock' = "closed" /\ code' = why /\ up' = <<>> /\ UNCHANGED <<queue, asked, count, open, refused>>
  BY DEF Closes, roomVars
<1>2. Socket' /\ Frames'
  BY <1>1, NothingQueued DEF Connection, Socket, Frames, Phases
<1> QED BY <1>1, <1>2 DEF Connection, Work

\* The device's steps that build a provider, or take it down.
LEMMA SignSteps ==
  ASSUME Connection, Logout \/ JobLands \/ JobFails \/ Redirect \/ Kill
  PROVE  Connection'
<1>1. {"off", "connecting"} \subseteq Phases
  BY DEF Phases
<1>2. CASE Logout
  BY <1>2, ConnectionStutters DEF Logout, KeptMeanwhile
<1>3. CASE JobFails
  BY <1>3, ConnectionStutters DEF JobFails
<1>4. CASE JobLands
  <2>1. UNCHANGED <<roomVars, server, typed>> /\ (UNCHANGED sockVars \/ SetToken(stored) \/ SetToken(Head(jobs).token))
    BY <1>4 DEF JobLands
  <2> QED BY <2>1, TokenSet, ConnectionStutters
<1>5. CASE Redirect \/ Kill
  <2>1. Provider("off") /\ open' = FALSE /\ refused' = FALSE /\ UNCHANGED <<server, typed>>
    BY <1>5 DEF Redirect, Kill
  <2> QED BY <1>1, <2>1, ProviderBuilt
<1> QED BY <1>2, <1>3, <1>4, <1>5

LEMMA RoomSteps ==
  ASSUME Connection, CreateRoom \/ JoinRoom \/ CreateLost \/ JoinLost \/ OpenRoom \/ CloseRoom
  PROVE  Connection'
<1>1. {"off", "connecting"} \subseteq Phases
  BY DEF Phases
<1>2. UNCHANGED <<server, typed>>
  BY DEF CreateRoom, JoinRoom, CreateLost, JoinLost, OpenRoom, CloseRoom
<1>3. CASE Opened
  <2>1. open' = TRUE
    BY <1>3 DEF Opened
  <2>2. CASE Singular
    BY <1>2, <1>3, <2>1, <2>2, ConnectionStutters DEF Opened, Singular, roomVars
  <2>3. CASE ~Singular
    <3>1. Provider("connecting") /\ refused' = FALSE
      BY <1>3, <2>3 DEF Opened
    <3> QED BY <1>1, <1>2, <2>1, <3>1, ProviderBuilt
  <2> QED BY <2>2, <2>3
<1>4. CASE CloseRoom
  <2>1. Provider("off") /\ open' = FALSE /\ refused' = FALSE
    BY <1>4 DEF CloseRoom
  <2> QED BY <1>1, <1>2, <2>1, ProviderBuilt
<1>5. CASE CreateLost \/ JoinLost
  BY <1>2, <1>5, ConnectionStutters DEF CreateLost, JoinLost
<1> QED BY <1>3, <1>4, <1>5 DEF CreateRoom, JoinRoom, OpenRoom

\* The queue is flushed a frame for each message: there is an order to do it in.
LEMMA Flushing ==
  ASSUME IsFiniteSet(queue), queue \subseteq typed
  PROVE  Flushed \in Seq(SUBSET typed)
<1> DEFINE n == Cardinality(queue)
           Orders(s) == \A m \in queue : \E i \in 1 .. n : s[i] = {m}
<1>1. n \in Nat /\ ExistsBijection(1 .. n, queue)
  BY FS_CardinalityType
<1>2. PICK f \in [1 .. n -> queue] : \A m \in queue : \E i \in 1 .. n : f[i] = m
  BY <1>1 DEF ExistsBijection, Bijection, Surjection
<1>3. Flushed = CHOOSE s \in [1 .. n -> {{m} : m \in queue}] : Orders(s)
  BY DEF Flushed
<1> HIDE DEF n
<1> DEFINE s0 == [i \in 1 .. n |-> {f[i]}]
<1>4. s0 \in [1 .. n -> {{m} : m \in queue}] /\ Orders(s0)
  BY <1>2
<1>5. Flushed \in [1 .. n -> {{m} : m \in queue}]
  <2> HIDE DEF Orders, s0
  <2> QED BY <1>3, <1>4
<1>6. {{m} : m \in queue} \subseteq SUBSET typed
  OBVIOUS
<1> QED BY <1>1, <1>5, <1>6

LEMMA TypeConnection ==
  ASSUME Connection, NEW m \in Msgs, Type(m)
  PROVE  Connection'
<1>1. /\ typed' = typed \cup {m} /\ UNCHANGED <<roomVars, sock, code, asked, count, server>>
      /\ \/ up' = Append(up, {m}) /\ queue' = queue
         \/ up' = up /\ queue' = queue \cup {m}
  BY DEF Type
<1>2. Work'
  <2>1. IsFiniteSet(typed')
    BY <1>1, FS_AddElement DEF Connection, Work
  <2> QED BY <1>1, <2>1 DEF Connection, Work
<1>3. up \in Seq(SUBSET (typed \cup {m})) /\ {m} \in SUBSET (typed \cup {m})
  <2>1. up \in Seq(SUBSET typed) /\ SUBSET typed \subseteq SUBSET (typed \cup {m})
    BY DEF Connection, Frames
  <2> QED BY <2>1
<1>4. up' \in Seq(SUBSET typed') /\ queue' \subseteq typed'
  BY <1>1, <1>3 DEF Connection, Frames
<1> QED BY <1>1, <1>2, <1>4 DEF Connection, Socket, Frames, roomVars

LEMMA OpensConnection ==
  ASSUME Connection, SocketOpens
  PROVE  Connection'
<1>1. /\ sock = "connecting" /\ sock' = "open" /\ queue' = {} /\ up' = <<{}>> \o Flushed \o <<{}>>
      /\ UNCHANGED <<roomVars, code, asked, count, server, typed>>
  BY DEF SocketOpens
<1>2. queue \subseteq typed /\ IsFiniteSet(queue)
  BY FS_Subset DEF Connection, Frames, Work
<1>3. Flushed \in Seq(SUBSET typed)
  BY <1>2, Flushing
<1>4. <<{}>> \in Seq(SUBSET typed)
  OBVIOUS
<1>5. up' \in Seq(SUBSET typed)
  BY <1>1, <1>3, <1>4
<1> QED BY <1>1, <1>5 DEF Connection, Socket, Frames, Work, Phases, roomVars

LEMMA AdmitConnection ==
  ASSUME Connection, Verify \/ Admit
  PROVE  Connection'
<1>1. UNCHANGED <<roomVars, server, typed>> /\ sock # "off" /\ {4001, 4003} \subseteq Codes
  BY DEF Verify, Admit, Codes
<1>2. CASE Closes(4001) \/ Closes(4003)
  BY <1>1, <1>2, SocketClosed
<1>3. CASE sock' = "verified" /\ UNCHANGED <<code, queue, up, asked, count>>
  BY <1>1, <1>3 DEF Connection, Socket, Frames, Work, Phases, roomVars
<1>4. CASE /\ sock' = "joined" /\ asked' = TRUE /\ count' = 0 /\ UNCHANGED <<code, queue>>
           /\ \E n \in 0 .. Len(up) : up' = SubSeq(up, n + 1, Len(up))
  <2>1. PICK n \in 0 .. Len(up) : up' = SubSeq(up, n + 1, Len(up))
    BY <1>4
  <2>2. up \in Seq(SUBSET typed)
    BY DEF Connection, Frames
  <2>3. up' \in Seq(SUBSET typed)
    BY <2>1, <2>2
  <2> QED BY <1>1, <1>4, <2>3, NothingQueued DEF Connection, Socket, Frames, Work, Phases, roomVars
<1>5. CASE Verify
  BY <1>2, <1>3, <1>5 DEF Verify
<1>6. CASE Admit
  <2>1. CASE IsMember
    <3>1. sock' = "joined" /\ asked' = TRUE /\ count' = 0 /\ UNCHANGED <<code, queue>>
      BY <1>6, <2>1 DEF Admit, AsksForState
    <3>2. \E n \in 0 .. Len(up) : up' = SubSeq(up, n + 1, Len(up))
      BY <1>6, <2>1 DEF Admit
    <3> QED BY <1>4, <3>1, <3>2
  <2>2. CASE ~IsMember
    BY <1>2, <1>6, <2>2 DEF Admit
  <2> QED BY <2>1, <2>2
<1> QED BY <1>5, <1>6

LEMMA AnswerConnection ==
  ASSUME Connection, AnswerStep1
  PROVE  Connection'
<1> DEFINE frame == {m \in typed : Author[m] = Me} \ server
<1>1. asked' = FALSE /\ up' = Append(up, frame) /\ UNCHANGED <<roomVars, sock, code, queue, count, server, typed>>
  BY DEF AnswerStep1
<1>2. frame \in SUBSET typed
  OBVIOUS
<1> HIDE DEF frame
<1>3. up' \in Seq(SUBSET typed)
  BY <1>1, <1>2 DEF Connection, Frames
<1> QED BY <1>1, <1>3 DEF Connection, Socket, Frames, Work, roomVars

LEMMA ReceiveConnection ==
  ASSUME Connection, Receive
  PROVE  Connection'
<1>1. UNCHANGED <<roomVars, typed>> /\ sock = "joined" /\ up # <<>> /\ {1009, 4029} \subseteq Codes
  BY DEF Receive, Codes
<1>2. CASE (Closes(1009) \/ Closes(4029)) /\ server' = server
  BY <1>1, <1>2, SocketClosed
<1>3. CASE /\ ~(count >= RateLimit) /\ count' = count + 1 /\ server' = server \cup Head(up) /\ up' = Tail(up)
           /\ UNCHANGED <<sock, code, queue, asked>>
  <2>1. Head(up) \in SUBSET typed /\ up' \in Seq(SUBSET typed)
    BY <1>1, <1>3 DEF Connection, Frames
  <2>2. count' \in 0 .. RateLimit
    BY <1>3, SessionAssumption DEF Connection, Socket
  <2> QED BY <1>1, <1>3, <2>1, <2>2 DEF Connection, Socket, Frames, Work, roomVars
<1> QED BY <1>2, <1>3 DEF Receive

\* The socket breaks, is heard to be closed, and is opened again.
LEMMA BackoffSteps ==
  ASSUME Connection, WindowOver \/ Drop \/ HearClose \/ RetryTimeout
  PROVE  Connection'
<1>1. UNCHANGED <<open, queue, server, typed>>
  BY DEF WindowOver, Drop, HearClose, RetryTimeout, roomVars
<1>2. (sock # "off" /\ sock' # "off" /\ sock' \in Phases) \/ sock' = sock
  BY DEF WindowOver, Drop, HearClose, RetryTimeout, Phases
<1>3. up' = <<>> \/ up' = up
  BY DEF WindowOver, Drop, HearClose, RetryTimeout
<1>4. code' \in {0, code} /\ asked' \in {FALSE, asked} /\ count' \in {0, count}
  <2>1. CASE WindowOver
    BY <2>1 DEF WindowOver
  <2>2. CASE HearClose
    BY <2>2 DEF HearClose
  <2>3. CASE Drop \/ RetryTimeout
    BY <2>3 DEF Drop, RetryTimeout
  <2> QED BY <2>1, <2>2, <2>3
<1>5. refused' \in BOOLEAN
  <2>1. CASE HearClose
    <3>1. refused \in BOOLEAN /\ refused' = (refused \/ code = 4003)
      BY <2>1 DEF HearClose, Connection
    <3>2. CASE code = 4003
      BY <3>1, <3>2
    <3>3. CASE code # 4003
      BY <3>1, <3>3
    <3> QED BY <3>2, <3>3
  <2>2. CASE WindowOver \/ Drop \/ RetryTimeout
    BY <2>2 DEF WindowOver, Drop, RetryTimeout, roomVars, Connection
  <2> QED BY <2>1, <2>2
<1>6. up' \in Seq(SUBSET typed) /\ code' \in Codes /\ count' \in 0 .. RateLimit /\ asked' \in BOOLEAN
  BY <1>3, <1>4, NothingQueued DEF Connection, Socket, Frames
<1> QED BY <1>1, <1>2, <1>5, <1>6 DEF Connection, Socket, Frames, Work

LEMMA NextConnection ==
  ASSUME Connection, [Next]_vars
  PROVE  Connection'
<1>1. CASE UNCHANGED vars
  BY <1>1, ConnectionStutters DEF vars
<1>2. CASE \E a \in Accounts : HandleLogin(a) \/ HandleRegister(a)
  BY <1>2, ConnectionStutters DEF HandleLogin, HandleRegister, Submit
<1>3. CASE (\E ask \in asks : Answered(ask) \/ AskLost(ask)) \/ \E t \in Issued : Expire(t)
  BY <1>3, ConnectionStutters DEF Answered, AskLost, Expire
<1> QED BY <1>1, <1>2, <1>3, SignSteps, RoomSteps, TypeConnection, OpensConnection, AdmitConnection, AnswerConnection,
           ReceiveConnection, BackoffSteps DEF Next

-----------------------------------------------------------------------------
(* The rest of the types.                                                   *)

Flags ==
  /\ loading \in BOOLEAN /\ screen \in {"auth", "chat"}
  /\ failed \subseteq {"get", "del"} /\ faults \in 0 .. MaxFaults /\ windows \in 0 .. MaxWindows

SessionInv == StoreInv /\ Accounting /\ Membership /\ Connection /\ Flags

LEMMA NextFlags ==
  ASSUME StoreInv, Flags, [Next]_vars
  PROVE  Flags'
<1> USE DEF deviceVars
<1>1. faults' \in 0 .. MaxFaults
  BY NextTouches, SessionAssumption DEF Touched, Flags, Fault
<1>2. windows' \in 0 .. MaxWindows
  BY NextTouches, SessionAssumption DEF Touched, Flags
<1>3. CASE UNCHANGED <<loading, screen, failed>>
  BY <1>1, <1>2, <1>3 DEF Flags
<1>4. CASE JobLands
  <2>1. loading' \in {loading, FALSE} /\ screen' = screen /\ failed' \subseteq failed
    BY <1>4 DEF JobLands
  <2> QED BY <1>1, <1>2, <2>1 DEF Flags
<1>5. CASE JobFails
  <2>1. Head(jobs).op \in {"get", "set", "del"}
    BY <1>5, FirstOver DEF JobFails, Job
  <2>2. screen' = screen /\ failed' = failed \cup ({Head(jobs).op} \ {"set"})
    BY <1>5 DEF JobFails
  <2>3. loading' \in BOOLEAN
    <3>1. loading' = (loading /\ Head(jobs).op # "get") /\ loading \in BOOLEAN
      BY <1>5 DEF JobFails, Flags
    <3>2. CASE Head(jobs).op = "get"
      BY <3>1, <3>2
    <3>3. CASE Head(jobs).op # "get"
      BY <3>1, <3>3
    <3> QED BY <3>2, <3>3
  <2> QED BY <1>1, <1>2, <2>1, <2>2, <2>3 DEF Flags
<1>6. CASE Redirect \/ Kill
  <2>1. loading' \in {loading, TRUE} /\ screen' \in {"auth", "chat"} /\ failed' \subseteq failed
    BY <1>6 DEF Redirect, Kill
  <2> QED BY <1>1, <1>2, <2>1 DEF Flags
<1> QED BY <1>3, <1>4, <1>5, <1>6, NextTouches DEF Touched

LEMMA InitSession ==
  ASSUME Init
  PROVE  SessionInv
<1>1. StoreInv
  BY InitStore
<1>2. /\ loading = TRUE /\ mem = NoToken /\ stored = NoToken /\ screen = "auth"
      /\ jobs = <<[op |-> "get", token |-> NoToken]>>
      /\ open = FALSE /\ refused = FALSE /\ sock = "off" /\ code = 0 /\ queue = {} /\ up = <<>>
      /\ asked = FALSE /\ count = 0
      /\ users \in SUBSET Accounts /\ valid = {} /\ owner = <<>>
      /\ rows \in BOOLEAN /\ admins = {} /\ members = {}
      /\ server = {} /\ typed = {} /\ failed = {} /\ faults = 0 /\ windows = 0
  BY DEF Init
<1>3. Issued = {} /\ owner \in Seq(Accounts) /\ Len(owner) = 0
  BY <1>2 DEF Issued
<1>4. \A i \in 1 .. Len(jobs) : jobs[i].token = NoToken
  BY <1>2
<1>5. Len(owner) <= MaxTokens
  BY <1>3, SessionAssumption
<1>6. Accounting
  BY <1>2, <1>3, <1>4, <1>5 DEF Accounting, AnyToken
<1>7. Membership
  BY <1>2 DEF Membership
<1>8. Connection
  <2>1. "off" \in Phases
    BY DEF Phases
  <2>2. IsFiniteSet(typed)
    BY <1>2, FS_EmptySet
  <2> QED BY <1>2, <2>1, <2>2, NothingQueued DEF Connection, Socket, Frames, Work
<1>9. Flags
  BY <1>2, SessionAssumption DEF Flags
<1> QED BY <1>1, <1>6, <1>7, <1>8, <1>9 DEF SessionInv

LEMMA SessionSaysSo ==
  ASSUME SessionInv
  PROVE  TypeOK
<1>1. \A i \in DOMAIN jobs : jobs[i].op \in {"get", "set", "del"} /\ jobs[i].token \in Issued \cup {NoToken}
  <2>1. jobs \in Seq(Job) /\ DOMAIN jobs = 1 .. Len(jobs)
    BY DEF SessionInv, StoreInv, TypeInv
  <2>2. \A i \in 1 .. Len(jobs) : jobs[i] \in Job
    BY <2>1
  <2> QED BY <2>1, <2>2 DEF SessionInv, Accounting, AnyToken, Job
<1>2. up \in Seq(SUBSET Msgs)
  <2>1. up \in Seq(SUBSET typed) /\ SUBSET typed \subseteq SUBSET Msgs
    BY DEF SessionInv, Connection, Frames, Work
  <2> QED BY <2>1
<1>3. /\ sock \in Phases /\ code \in Codes /\ (sock # "off" => open)
      /\ queue \subseteq Msgs /\ count \in 0 .. RateLimit /\ server \subseteq typed /\ typed \subseteq Msgs
      /\ open \in BOOLEAN /\ refused \in BOOLEAN /\ asked \in BOOLEAN
  BY DEF SessionInv, Connection, Socket, Frames, Work
<1>4. /\ owner \in Seq(Accounts) /\ Len(owner) <= MaxTokens /\ valid \subseteq Issued
      /\ {mem, stored} \subseteq Issued \cup {NoToken} /\ users \subseteq Accounts
      /\ asks \subseteq [kind : Kinds, who : Accounts]
  BY DEF SessionInv, Accounting, AnyToken, StoreInv, TypeInv
<1> QED BY <1>1, <1>2, <1>3, <1>4 DEF TypeOK, SessionInv, Membership, Flags

\* Every variable keeps its type: a token in use has been issued, what is on
\* the server was typed, a member has an account and an administrator is one.
THEOREM TypeCorrect == Spec => []TypeOK
<1>1. SessionInv /\ [Next]_vars => SessionInv'
  BY NextStore, NextAccounts, NextMembers, NextConnection, NextFlags DEF SessionInv
<1> QED BY <1>1, InitSession, SessionSaysSo, PTL DEF Spec
=============================================================================

------------------------- MODULE DeviceStoreProofs --------------------------
(***************************************************************************)
(* What holds of DeviceStore for all accounts, messages and bounds: its    *)
(* type correctness, that a text is restored once and plaintext stays with *)
(* its account, and that the device keeps MessageFate's promise.           *)
(***************************************************************************)
EXTENDS DeviceStore, SequenceTheorems, TLAPS

(***************************************************************************)
(* The storage calls under way are those of one account: an adoption with  *)
(* the removal that follows it, or writes, with a removal of the row at    *)
(* most as the last.  A live engine has only its own writes under way; one *)
(* that waits for a call is migrating or refused.                          *)
(***************************************************************************)
JobFits(i) ==
  /\ jobs[i].of = jobs[1].of
  /\ jobs[i].op = "write" => ~ jobs[i].awaited
  /\ jobs[i].op = "adopt" => /\ i = 1 /\ Len(jobs) = 2 /\ jobs[2].op = "drop"
                             /\ jobs[1].doc = legacy /\ row[jobs[1].of] = NoRow
  /\ jobs[i].op = "drop" => i = Len(jobs) /\ (i = 1 \/ (i = 2 /\ jobs[1].op = "adopt"))
  /\ jobs[i].op = "remove" => i = Len(jobs) /\ jobs[i].doc = EmptyDoc
JobShape == \A i \in DOMAIN jobs : JobFits(i)
LiveJobs == stage = "live" => \A i \in DOMAIN jobs : jobs[i].op = "write" /\ jobs[i].of = account
Awaiting == \A i \in DOMAIN jobs : jobs[i].awaited => stage \in {"migrating", "refused"}
Unloaded ==
  /\ stage = "none" => doc = EmptyDoc
  /\ conn => stage \in {"live", "refused", "stuck"}
TypeInv == TypeOK /\ JobShape /\ LiveJobs /\ Awaiting /\ Unloaded

\* What has been put back is claimed.
OnceInv == RestoredOnce /\ \A m \in Msgs : times[m] > 0 => m \in claimed

\* Whose plaintext a document may hold: the account's, and what was accepted.
Proper(a, items) == \A m \in Plain(items) \cap Msgs : Author[m] = a \/ m \in accepted
OwnInv ==
  /\ Proper(account, doc.has)
  /\ \A a \in Accounts : Proper(a, row[a].has) /\ (\A m \in stash[a] : Author[m] = a)
  /\ \A i \in DOMAIN jobs : Proper(jobs[i].of, jobs[i].doc.has)
  /\ server.has \cap Msgs \subseteq accepted

-----------------------------------------------------------------------------
(* The promise. *)

\* Everything any document says is deleted.
Gone ==
  doc.gone \cup server.gone \cup legacy.gone
    \cup (UNION {row[a].gone : a \in Accounts}) \cup (UNION {jobs[i].doc.gone : i \in DOMAIN jobs})
Refused == Gone \cup draft \cup rejection

\* Where a message is once nothing is promised about it, or nothing more.
Settled == server.has \cup draft \cup rejection \cup excused

\* What the account's row will hold when the calls under way are through, but
\* for an adoption, and what its newest document holds.
Latest(a) ==
  IF jobs # <<>> /\ jobs[Len(jobs)].of = a /\ jobs[Len(jobs)].op # "drop"
  THEN jobs[Len(jobs)].doc.has ELSE row[a].has
Newest(a) == IF stage = "live" /\ account = a THEN doc.has ELSE Latest(a)
Kept(a)   == Newest(a) \cup stash[a] \cup Settled

\* Only what was sent is anywhere.
OnlyTyped ==
  /\ (doc.has \cup server.has \cup legacy.has) \cap Msgs \subseteq typed
  /\ \A a \in Accounts : row[a].has \cap Msgs \subseteq typed /\ stash[a] \subseteq typed
  /\ \A i \in DOMAIN jobs : jobs[i].doc.has \cap Msgs \subseteq typed
\* What was refused or deleted is plaintext of an encrypted room, which the
\* server has not and never will have.
RefusedStay ==
  /\ Refused \subseteq typed \ envelope
  /\ Refused \cap server.has = {}
  /\ Refused # {} => epoch
GoneAreSettled == Gone \cup claimed \subseteq draft \cup rejection \cup excused
Composing == IF stage = "none" THEN draft = {} ELSE rejection \subseteq draft
\* An engine that has not loaded has only what nothing is promised about.
Early == stage \in {"reading", "migrating"} => doc.has \cap Msgs \subseteq excused
\* A newer document of an account has all that the older ones had.
NewestHasAll ==
  /\ \A a \in Accounts : row[a].has \cap Msgs \subseteq Kept(a)
  /\ \A i \in DOMAIN jobs : jobs[i].op = "write" => jobs[i].doc.has \cap Msgs \subseteq Kept(jobs[i].of)
\* A live document that is not to be written has been.
Clean == stage = "live" /\ ~ timer => doc.has \cap Msgs \subseteq Latest(account) \cup Settled
\* A message nothing has happened to is in the newest document of an account.
Safe == typed \subseteq Settled \cup legacy.has \cup (UNION {Newest(a) \cup stash[a] : a \in Accounts})

FateInv ==
  /\ OnlyTyped /\ RefusedStay /\ GoneAreSettled /\ Composing
  /\ Early /\ NewestHasAll /\ Clean /\ Safe

-----------------------------------------------------------------------------
(* Documents, storage calls and their queue. *)

LEMMA DocTypes ==
  /\ EmptyDoc \in Doc /\ EmptyDoc.has = {} /\ EmptyDoc.gone = {}
  /\ NoRow.has = {} /\ NoRow.gone = {}
  /\ \A d, e \in Doc : Merge(d, e) \in Doc
  /\ \A d \in Doc, items \in SUBSET Items : Adding(d, items) \in Doc /\ Removing(d, items) \in Doc
  /\ \A d \in Row : d.has \in SUBSET Items /\ d.gone \in SUBSET Items
BY DEF EmptyDoc, NoRow, Row, Doc, Merge, Adding, Removing

LEMMA JobTypes ==
  ASSUME account \in Accounts, NEW d \in Doc, NEW wait \in BOOLEAN
  PROVE  Write(d) \in Job /\ Adopt(d) \in Job /\ DropLegacy \in Job /\ Remove(wait) \in Job
BY DocTypes DEF Write, Adopt, DropLegacy, Remove, Job

\* The queue js is that under way, but that nothing waits for it any more; it
\* has one job more.
Alike(js) ==
  /\ Len(js) = Len(jobs)
  /\ \A i \in 1 .. Len(jobs) :
       /\ js[i].op = jobs[i].op /\ js[i].of = jobs[i].of /\ js[i].doc = jobs[i].doc
       /\ ~ js[i].awaited
Extended(js, job) ==
  /\ Len(js) = Len(jobs) + 1 /\ js[Len(js)] = job
  /\ \A i \in 1 .. Len(jobs) :
       /\ js[i].op = jobs[i].op /\ js[i].of = jobs[i].of /\ js[i].doc = jobs[i].doc
       /\ js[i].awaited => jobs[i].awaited

LEMMA QueueIndices ==
  ASSUME NEW js \in Seq(Job)
  PROVE  /\ Len(js) \in Nat /\ DOMAIN js = 1 .. Len(js)
         /\ \A i \in 1 .. Len(js) : js[i] \in Job
         /\ (js = <<>>) <=> (Len(js) = 0)
BY EmptySeq, LenProperties, ElementOfSeq

LEMMA DisownedIs ==
  ASSUME jobs \in Seq(Job)
  PROVE  Disowned(jobs) \in Seq(Job) /\ Alike(Disowned(jobs))
<1> DEFINE js == [i \in 1 .. Len(jobs) |-> [jobs[i] EXCEPT !.awaited = FALSE]]
<1>1. Disowned(jobs) = js BY QueueIndices DEF Disowned
<1>0. \A job \in Job : LET left == [job EXCEPT !.awaited = FALSE]
                       IN  /\ left \in Job /\ ~ left.awaited
                           /\ left.op = job.op /\ left.of = job.of /\ left.doc = job.doc
  BY DEF Job
<1>2. \A i \in 1 .. Len(jobs) : [jobs[i] EXCEPT !.awaited = FALSE] \in Job
  <2> SUFFICES ASSUME NEW i \in 1 .. Len(jobs) PROVE [jobs[i] EXCEPT !.awaited = FALSE] \in Job
    OBVIOUS
  <2>1. jobs[i] \in Job BY QueueIndices
  <2> QED BY <2>1, <1>0
<1>3. js \in Seq(Job) BY <1>2, QueueIndices, IsASeq
<1>4. Len(js) = Len(jobs) BY <1>3, QueueIndices, LenProperties
<1>5. \A i \in 1 .. Len(jobs) : js[i] = [jobs[i] EXCEPT !.awaited = FALSE] OBVIOUS
<1>6. \A i \in 1 .. Len(jobs) :
        /\ js[i].op = jobs[i].op /\ js[i].of = jobs[i].of /\ js[i].doc = jobs[i].doc
        /\ ~ js[i].awaited
  <2> HIDE DEF js
  <2> SUFFICES ASSUME NEW i \in 1 .. Len(jobs)
               PROVE  /\ js[i].op = jobs[i].op /\ js[i].of = jobs[i].of
                      /\ js[i].doc = jobs[i].doc /\ ~ js[i].awaited
    OBVIOUS
  <2>1. jobs[i] \in Job BY QueueIndices
  <2> QED BY <2>1, <1>0, <1>5
<1> QED BY <1>1, <1>3, <1>4, <1>6 DEF Alike

LEMMA TornDownIs ==
  ASSUME jobs \in Seq(Job), account \in Accounts, NEW d \in Doc, NEW armed \in BOOLEAN
  PROVE  /\ TornDown(d, armed) \in Seq(Job)
         /\ armed => Extended(TornDown(d, armed), Write(d))
         /\ ~ armed => Alike(TornDown(d, armed))
<1>1. Disowned(jobs) \in Seq(Job) /\ Alike(Disowned(jobs)) BY DisownedIs
<1>2. Write(d) \in Job BY JobTypes
<1>3. PICK js : js = Disowned(jobs) OBVIOUS
<1>4. PICK ks : ks = TornDown(d, armed) OBVIOUS
<1>5. CASE armed
  <2>1. ks = js \o <<Write(d)>> BY <1>3, <1>4, <1>5 DEF TornDown, Flush
  <2>2. ks = Append(js, Write(d)) BY <1>1, <1>2, <1>3, <2>1, AppendIsConcat
  <2>3. /\ ks \in Seq(Job) /\ Len(ks) = Len(js) + 1 /\ ks[Len(ks)] = Write(d)
        /\ \A i \in 1 .. Len(js) : ks[i] = js[i]
    BY <1>1, <1>2, <1>3, <2>2, AppendProperties
  <2> QED BY <1>1, <1>3, <1>4, <1>5, <2>3 DEF Alike, Extended
<1>6. CASE ~ armed
  <2>1. ks = js \o <<>> BY <1>3, <1>4, <1>6 DEF TornDown, Flush
  <2>2. ks = js BY <1>1, <1>3, <2>1, ConcatEmptySeq
  <2> QED BY <1>1, <1>3, <1>4, <1>6, <2>2
<1> QED BY <1>5, <1>6

LEMMA AppendIs ==
  ASSUME jobs \in Seq(Job), NEW job \in Job
  PROVE  Append(jobs, job) \in Seq(Job) /\ Extended(Append(jobs, job), job)
BY AppendProperties, LenProperties DEF Extended

LEMMA TailIs ==
  ASSUME NEW js \in Seq(Job), js # <<>>
  PROVE  /\ Head(js) = js[1] /\ js[1] \in Job
         /\ Tail(js) \in Seq(Job) /\ Len(js) > 0 /\ Len(Tail(js)) = Len(js) - 1
         /\ \A i \in 1 .. Len(js) - 1 : Tail(js)[i] = js[i + 1]
BY HeadTailProperties, QueueIndices

LEMMA QueueShapes ==
  ASSUME TypeInv, jobs' \in Seq(Job)
  PROVE  /\ Alike(jobs') /\ UNCHANGED <<row, legacy>> => JobShape'
         /\ \A job : /\ stage = "live" /\ Extended(jobs', job) /\ job.of = account
                     /\ \/ job.op = "write" /\ ~ job.awaited
                        \/ job.op = "remove" /\ job.doc = EmptyDoc
                     => JobShape'
         /\ jobs' = <<>> => JobShape'
<1> USE DEF TypeInv
<1>1. /\ Len(jobs) \in Nat /\ DOMAIN jobs = 1 .. Len(jobs)
      /\ Len(jobs') \in Nat /\ DOMAIN jobs' = 1 .. Len(jobs')
      /\ (jobs' = <<>>) <=> (Len(jobs') = 0)
  BY QueueIndices DEF TypeOK
<1>2. ASSUME Alike(jobs'), UNCHANGED <<row, legacy>> PROVE JobShape'
  <2> SUFFICES ASSUME NEW i \in 1 .. Len(jobs)
               PROVE  /\ jobs'[i].of = jobs'[1].of
                      /\ jobs'[i].op = "write" => ~ jobs'[i].awaited
                      /\ jobs'[i].op = "adopt" =>
                           /\ i = 1 /\ Len(jobs') = 2 /\ jobs'[2].op = "drop"
                           /\ jobs'[1].doc = legacy /\ row[jobs'[1].of] = NoRow
                      /\ jobs'[i].op = "drop" =>
                           i = Len(jobs') /\ (i = 1 \/ (i = 2 /\ jobs'[1].op = "adopt"))
                      /\ jobs'[i].op = "remove" => i = Len(jobs') /\ jobs'[i].doc = EmptyDoc
    BY <1>1, <1>2 DEF JobShape, JobFits, Alike
  <2>1. 1 \in 1 .. Len(jobs) /\ (2 \in 1 .. Len(jobs) <=> Len(jobs) >= 2) BY <1>1
  <2>2. \A j \in 1 .. Len(jobs) :
          /\ jobs'[j].op = jobs[j].op /\ jobs'[j].of = jobs[j].of /\ jobs'[j].doc = jobs[j].doc
          /\ ~ jobs'[j].awaited
    BY <1>2 DEF Alike
  <2>3. Len(jobs') = Len(jobs) BY <1>2 DEF Alike
  <2>4. /\ jobs[i].of = jobs[1].of
        /\ jobs[i].op = "write" => ~ jobs[i].awaited
        /\ jobs[i].op = "adopt" => /\ i = 1 /\ Len(jobs) = 2 /\ jobs[2].op = "drop"
                                   /\ jobs[1].doc = legacy /\ row[jobs[1].of] = NoRow
        /\ jobs[i].op = "drop" => i = Len(jobs) /\ (i = 1 \/ (i = 2 /\ jobs[1].op = "adopt"))
        /\ jobs[i].op = "remove" => i = Len(jobs) /\ jobs[i].doc = EmptyDoc
    BY <1>1 DEF JobShape, JobFits
  <2>5. jobs'[i].of = jobs'[1].of /\ (jobs'[i].op = "write" => ~ jobs'[i].awaited)
    BY <2>1, <2>2, <2>4
  <2>6. jobs'[i].op = "adopt" => /\ i = 1 /\ Len(jobs') = 2 /\ jobs'[2].op = "drop"
                                 /\ jobs'[1].doc = legacy /\ row[jobs'[1].of] = NoRow
    <3> SUFFICES ASSUME jobs'[i].op = "adopt"
                 PROVE  /\ i = 1 /\ Len(jobs') = 2 /\ jobs'[2].op = "drop"
                        /\ jobs'[1].doc = legacy /\ row[jobs'[1].of] = NoRow
      OBVIOUS
    <3>1. i = 1 /\ Len(jobs) = 2 /\ jobs[2].op = "drop" /\ jobs[1].doc = legacy /\ row[jobs[1].of] = NoRow
      BY <2>2, <2>4
    <3>2. jobs'[1].doc = jobs[1].doc /\ jobs'[1].of = jobs[1].of BY <2>1, <2>2
    <3>3. jobs'[2].op = jobs[2].op BY <2>1, <2>2, <3>1
    <3> QED BY <2>3, <3>1, <3>2, <3>3
  <2> QED BY <2>1, <2>2, <2>3, <2>4, <2>5, <2>6
<1>3. ASSUME NEW job, stage = "live", Extended(jobs', job), job.of = account,
             \/ job.op = "write" /\ ~ job.awaited
             \/ job.op = "remove" /\ job.doc = EmptyDoc
      PROVE  JobShape'
  <2>1. \A i \in 1 .. Len(jobs) : jobs'[i].op = "write" /\ jobs'[i].of = account /\ ~ jobs'[i].awaited
    BY <1>1, <1>3 DEF LiveJobs, JobShape, JobFits, Extended
  <2>2. jobs'[Len(jobs) + 1] = job /\ Len(jobs') = Len(jobs) + 1 BY <1>3 DEF Extended
  <2>3. \A i \in 1 .. Len(jobs') : jobs'[i].of = account BY <1>1, <1>3, <2>1, <2>2
  <2>4. 1 \in 1 .. Len(jobs') BY <1>1, <2>2
  <2> QED BY <1>1, <1>3, <2>1, <2>2, <2>3, <2>4 DEF JobShape, JobFits
<1>4. ASSUME jobs' = <<>> PROVE JobShape'
  BY <1>1, <1>4 DEF JobShape, JobFits
<1> QED BY <1>2, <1>3, <1>4

LEMMA AppendedIs ==
  ASSUME NEW ks \in Seq(Job), NEW job \in Job
  PROVE  LET js == Append(ks, job)
         IN  /\ js \in Seq(Job) /\ Len(js) = Len(ks) + 1 /\ js[Len(js)] = job
             /\ \A i \in 1 .. Len(ks) : js[i] = ks[i]
BY AppendProperties

LEMMA TwoLess ==
  ASSUME NEW js \in Seq(Job), Len(js) = 2
  PROVE  Tail(Tail(js)) \in Seq(Job) /\ Len(Tail(Tail(js))) = 0
<1>0. Len(<<>>) = 0 BY EmptySeq
<1>1. js # <<>> BY <1>0
<1>2. Tail(js) \in Seq(Job) /\ Len(Tail(js)) = Len(js) - 1 BY <1>1, TailIs
<1>3. PICK ks : ks = Tail(js) OBVIOUS
<1>4. ks \in Seq(Job) /\ Len(ks) = 1 BY <1>2, <1>3
<1>5. ks # <<>>
  <2>1. Len(ks) # Len(<<>>) BY <1>0, <1>4
  <2> QED BY <2>1
<1>6. Tail(ks) \in Seq(Job) /\ Len(Tail(ks)) = Len(ks) - 1 BY <1>4, <1>5, TailIs
<1> QED BY <1>3, <1>4, <1>6

LEMMA PairIs ==
  ASSUME NEW a \in Job, NEW b \in Job
  PROVE  LET js == <<a>> \o <<b>>
         IN  js \in Seq(Job) /\ Len(js) = 2 /\ js[1] = a /\ js[2] = b
<1>1. <<a>> \in Seq(Job) /\ Len(<<a>>) = 1 /\ <<a>>[1] = a OBVIOUS
<1>2. <<b>> \in Seq(Job) /\ Len(<<b>>) = 1 /\ <<b>>[1] = b OBVIOUS
<1> QED BY <1>1, <1>2, ConcatProperties

LEMMA DeviceTypeInit == Init => TypeInv
<1> SUFFICES ASSUME Init PROVE TypeInv OBVIOUS
<1>1. jobs \in Seq(Job) /\ DOMAIN jobs = {} /\ jobs = <<>> BY EmptySeq DEF Init
<1>2. JobShape /\ LiveJobs /\ Awaiting /\ Unloaded
  BY <1>1 DEF Init, JobShape, LiveJobs, Awaiting, Unloaded
<1>3. legacy \in Row /\ legacy.has \in SUBSET Items
  BY DocTypes DEF Init, Row, Doc
<1>4. typed \subseteq Msgs /\ envelope \subseteq typed BY DEF Init
<1>5. row \in [Accounts -> Row] /\ doc \in Doc /\ server \in Doc
  BY DocTypes DEF Init, Row, Doc, Items
<1>6. logouts \in 0 .. MaxLogouts /\ faults \in 0 .. MaxFaults BY DeviceAssumption DEF Init
<1> QED BY <1>1, <1>2, <1>3, <1>4, <1>5, <1>6 DEF Init, TypeInv, TypeOK

LEMMA TearDown ==
  ASSUME TypeInv, stage # "none", NEW d \in Doc, NEW armed \in BOOLEAN, armed => stage = "live",
         jobs' = TornDown(d, armed), UNCHANGED <<row, legacy>>
  PROVE  jobs' \in Seq(Job) /\ JobShape' /\ \A i \in DOMAIN jobs' : ~ jobs'[i].awaited
<1>1. account \in Accounts /\ jobs \in Seq(Job) BY DEF TypeInv, TypeOK
<1>2. /\ jobs' \in Seq(Job)
      /\ armed => Extended(jobs', Write(d))
      /\ ~ armed => Alike(jobs')
  BY <1>1, TornDownIs
<1>3. Write(d).of = account /\ Write(d).op = "write" /\ ~ Write(d).awaited BY DEF Write
<1>4. jobs' \in Seq(Job) /\ JobShape' BY <1>2, <1>3, QueueShapes
<1>5. DOMAIN jobs' = 1 .. Len(jobs') /\ DOMAIN jobs = 1 .. Len(jobs) /\ Len(jobs) \in Nat
  BY <1>1, <1>2, QueueIndices
<1>6. CASE armed
  <2>1. stage = "live" /\ Extended(jobs', Write(d)) BY <1>2, <1>6
  <2>2. \A i \in 1 .. Len(jobs) : jobs[i].op = "write" /\ ~ jobs[i].awaited
    BY <1>5, <2>1 DEF TypeInv, LiveJobs, JobShape, JobFits
  <2>3. \A i \in 1 .. Len(jobs) + 1 : i \in 1 .. Len(jobs) \/ i = Len(jobs) + 1 BY <1>5
  <2> QED BY <1>3, <1>4, <1>5, <2>1, <2>2, <2>3 DEF Extended
<1>7. CASE ~ armed
  BY <1>2, <1>4, <1>5, <1>7 DEF Alike
<1> QED BY <1>6, <1>7

\* The queue without its first job.
Shorter(js) == /\ Len(js) = Len(jobs) - 1
               /\ \A i \in 1 .. Len(jobs) - 1 : js[i] = jobs[i + 1]

LEMMA ShorterShape ==
  ASSUME TypeInv, jobs' \in Seq(Job), Shorter(jobs')
  PROVE  JobShape'
<1>1. Len(jobs) \in Nat /\ DOMAIN jobs = 1 .. Len(jobs) /\ DOMAIN jobs' = 1 .. Len(jobs')
  BY QueueIndices DEF TypeInv, TypeOK
<1>2. PICK n \in Nat : n = Len(jobs) BY <1>1
<1>3. Len(jobs') = n - 1 /\ \A i \in 1 .. n - 1 : jobs'[i] = jobs[i + 1] BY <1>2 DEF Shorter
<1> SUFFICES ASSUME NEW i \in 1 .. n - 1
             PROVE  /\ jobs'[i].of = jobs'[1].of
                    /\ jobs'[i].op = "write" => ~ jobs'[i].awaited
                    /\ jobs'[i].op # "adopt"
                    /\ jobs'[i].op = "drop" => i = n - 1 /\ i = 1
                    /\ jobs'[i].op = "remove" => i = n - 1 /\ jobs'[i].doc = EmptyDoc
  BY <1>1, <1>3 DEF JobShape, JobFits
<1>4. PICK j \in 2 .. n : j = i + 1 OBVIOUS
<1>5. 1 \in 1 .. n - 1 /\ 2 \in 1 .. n OBVIOUS
<1>6. jobs'[i] = jobs[j] /\ jobs'[1] = jobs[2] BY <1>3, <1>4, <1>5
<1>7. /\ jobs[j].of = jobs[1].of /\ jobs[2].of = jobs[1].of
      /\ jobs[j].op = "write" => ~ jobs[j].awaited
      /\ jobs[j].op # "adopt"
      /\ jobs[j].op = "drop" => j = n /\ j = 2
      /\ jobs[j].op = "remove" => j = n /\ jobs[j].doc = EmptyDoc
  <2>1. JobFits(j) /\ JobFits(2) /\ j # 1 BY <1>1, <1>2, <1>5 DEF TypeInv, JobShape
  <2> QED BY <2>1, <1>2 DEF JobFits
<1>8. (j = n => i = n - 1) /\ (j = 2 => i = 1) BY <1>4
<1> QED BY <1>6, <1>7, <1>8

LEMMA OneLess ==
  ASSUME TypeInv, jobs # <<>>, jobs' = Tail(jobs)
  PROVE  /\ jobs' \in Seq(Job) /\ JobShape' /\ Shorter(jobs')
         /\ Head(jobs) = jobs[1] /\ jobs[1] \in Job
         /\ DOMAIN jobs = 1 .. Len(jobs) /\ DOMAIN jobs' = 1 .. Len(jobs) - 1
         /\ Len(jobs) \in Nat \ {0}
         /\ \A i \in 1 .. Len(jobs) - 1 : i + 1 \in 1 .. Len(jobs)
<1>1. jobs \in Seq(Job) BY DEF TypeInv, TypeOK
<1>2. /\ Head(jobs) = jobs[1] /\ jobs[1] \in Job
      /\ jobs' \in Seq(Job) /\ Len(jobs) > 0 /\ Shorter(jobs')
  BY <1>1, TailIs DEF Shorter
<1>3. Len(jobs) \in Nat /\ DOMAIN jobs = 1 .. Len(jobs) /\ DOMAIN jobs' = 1 .. Len(jobs')
  BY <1>1, <1>2, QueueIndices
<1>4. \A n \in Nat : \A i \in 1 .. n - 1 : i + 1 \in 1 .. n OBVIOUS
<1> QED BY <1>2, <1>3, <1>4, ShorterShape DEF Shorter

\* A refused offer: what it names of the account's own, and what is kept.
LEMMA RejectedTypes ==
  ASSUME TypeInv, NEW offer \in Offers
  PROVE  LET ours == Own(account, Plain(offer))
         IN  /\ offer \subseteq doc.has /\ offer \cap (server.has \cup server.gone) = {}
             /\ ours \subseteq offer /\ ours \subseteq Msgs /\ Removing(doc, ours) \in Doc
<1>1. doc \in Doc /\ doc.has \subseteq Items BY DEF TypeInv, TypeOK, Doc
<1>2. offer \subseteq Unserved BY DEF Offers, Own
<1>3. Own(account, Plain(offer)) \subseteq offer \cap Msgs BY DEF Own, Plain
<1> QED BY <1>1, <1>2, <1>3, DocTypes DEF Unserved
LEMMA RejectedQueue ==
  ASSUME TypeInv, stage = "live", NEW d \in Doc, NEW repaired \in BOOLEAN, NEW js,
         js = TornDown(d, repaired) \o (IF repaired THEN <<>> ELSE <<Remove(FALSE)>>),
         jobs' = js, UNCHANGED <<row, legacy>>
  PROVE  /\ jobs' \in Seq(Job) /\ JobShape' /\ \A i \in DOMAIN jobs' : ~ jobs'[i].awaited
         /\ repaired => Extended(jobs', Write(d))
         /\ ~ repaired => Extended(jobs', Remove(FALSE))
<1>1. account \in Accounts /\ jobs \in Seq(Job) BY DEF TypeInv, TypeOK
<1>2. PICK ks : ks = TornDown(d, repaired) OBVIOUS
<1>3. /\ ks \in Seq(Job)
      /\ repaired => Extended(ks, Write(d))
      /\ ~ repaired => Alike(ks)
  BY <1>1, <1>2, TornDownIs
<1>4. CASE repaired
  <2>1. js = ks BY <1>2, <1>3, <1>4, ConcatEmptySeq
  <2>2. jobs' = TornDown(d, repaired) BY <1>2, <2>1
  <2>3. jobs' \in Seq(Job) /\ JobShape' /\ \A i \in DOMAIN jobs' : ~ jobs'[i].awaited
    BY <2>2, TearDown
  <2> QED BY <1>3, <1>4, <2>1, <2>3
<1>5. CASE ~ repaired
  <2>1. js = ks \o <<Remove(FALSE)>> /\ Remove(FALSE) \in Job BY <1>1, <1>2, <1>5, JobTypes
  <2>2. PICK job \in Job : job = Remove(FALSE) BY <2>1
  <2>3. /\ js \in Seq(Job) /\ Len(js) = Len(ks) + 1 /\ js[Len(js)] = Remove(FALSE)
        /\ \A i \in 1 .. Len(ks) : js[i] = ks[i]
    <3>1. js = Append(ks, job) BY <1>3, <2>1, <2>2, AppendIsConcat
    <3>2. LET ls == Append(ks, job)
          IN  /\ ls \in Seq(Job) /\ Len(ls) = Len(ks) + 1 /\ ls[Len(ls)] = job
              /\ \A i \in 1 .. Len(ks) : ls[i] = ks[i]
      BY <1>3, AppendedIs
    <3> QED BY <2>2, <3>1, <3>2
  <2>4. /\ Remove(FALSE).of = account /\ Remove(FALSE).op = "remove" /\ Remove(FALSE).doc = EmptyDoc
        /\ ~ Remove(FALSE).awaited
    BY DEF Remove
  <2>5. Extended(jobs', Remove(FALSE)) /\ jobs' \in Seq(Job)
    BY <1>3, <1>5, <2>3 DEF Alike, Extended
  <2>6. JobShape' BY <2>4, <2>5, QueueShapes
  <2>7. \A i \in DOMAIN jobs' : ~ jobs'[i].awaited
    <3>1. Len(ks) \in Nat /\ Len(ks) = Len(jobs) /\ DOMAIN jobs' = 1 .. Len(ks) + 1
      BY <1>3, <1>5, <2>3, <2>5, QueueIndices DEF Alike
    <3>2. \A i \in 1 .. Len(ks) : ~ jobs'[i].awaited BY <1>3, <1>5, <2>3, <3>1 DEF Alike
    <3>3. ~ jobs'[Len(ks) + 1].awaited BY <2>3, <2>4
    <3>4. \A i \in 1 .. Len(ks) + 1 : i \in 1 .. Len(ks) \/ i = Len(ks) + 1 BY <3>1
    <3> QED BY <3>1, <3>2, <3>3, <3>4
  <2> QED BY <1>5, <2>5, <2>6, <2>7
<1> QED BY <1>4, <1>5

-----------------------------------------------------------------------------
(* Type correctness. *)

LEMMA DeviceTypeStep == TypeInv /\ OnlyTyped /\ [Next]_vars => TypeInv'
<1> SUFFICES ASSUME TypeInv, OnlyTyped, [Next]_vars PROVE TypeInv' OBVIOUS
<1> USE DEF storeVars, engineVars, gateVars, refusedVars, serverVars, sentVars
<1>t. /\ TypeOK /\ JobShape /\ LiveJobs /\ Awaiting /\ Unloaded /\ jobs \in Seq(Job)
      /\ (stage # "none" => account \in Accounts)
  BY DEF TypeInv, TypeOK
<1>n. Len(jobs) \in Nat /\ DOMAIN jobs = 1 .. Len(jobs) BY <1>t, QueueIndices
\* the queue, and what it is for, stay
<1>k. ASSUME UNCHANGED <<account, storeVars, jobs, stage>>
      PROVE  JobShape' /\ LiveJobs' /\ Awaiting'
  BY <1>t, <1>k DEF JobShape, JobFits, LiveJobs, Awaiting
<1>e. ASSUME UNCHANGED <<account, storeVars, engineVars>>, TypeOK'
      PROVE  TypeInv'
  BY <1>t, <1>k, <1>e DEF TypeInv, Unloaded
\* an engine is torn down
<1>c. ASSUME stage # "none", Closed, UNCHANGED <<row, legacy>>
      PROVE  /\ jobs' \in Seq(Job) /\ JobShape' /\ LiveJobs' /\ Awaiting' /\ Unloaded'
             /\ stage' = "none" /\ doc' \in Doc /\ draft' = {}
             /\ ~ timer' /\ ~ conn' /\ ~ synced' /\ ~ confirmed' /\ cipher' = "none" /\ ~ entry'
             /\ {timer', conn', synced', confirmed', entry'} \subseteq BOOLEAN
  <2>1. doc \in Doc /\ timer \in BOOLEAN /\ (timer => stage = "live") BY <1>t DEF TypeOK
  <2>2. jobs' \in Seq(Job) /\ JobShape' /\ \A i \in DOMAIN jobs' : ~ jobs'[i].awaited
    BY <1>c, <2>1, TearDown DEF Closed, Mount
  <2> QED BY <1>c, <2>2, DocTypes DEF Closed, Mount, LiveJobs, Awaiting, Unloaded
<1>m. ASSUME stage # "none", NEW d \in Doc, NEW armed \in BOOLEAN, armed => stage = "live",
             Ciphered(d, armed), UNCHANGED <<row, legacy>>
      PROVE  /\ jobs' \in Seq(Job) /\ JobShape' /\ LiveJobs' /\ Awaiting' /\ Unloaded'
             /\ stage' = "reading" /\ doc' \in Doc /\ cipher' = "waiting" /\ entry' = TRUE
             /\ timer' = FALSE /\ conn' = FALSE /\ synced' = FALSE
  <2>1. jobs' \in Seq(Job) /\ JobShape' /\ \A i \in DOMAIN jobs' : ~ jobs'[i].awaited
    BY <1>m, TearDown DEF Ciphered, Mount
  <2> QED BY <1>m, <2>1, DocTypes DEF Ciphered, Mount, SetRoomCipher, LiveJobs, Awaiting, Unloaded
<1>1. CASE OpenRoom
  <2>1. JobShape' BY <1>1, <1>t DEF OpenRoom, Mount, JobShape, JobFits
  <2>2. LiveJobs' /\ Awaiting' /\ Unloaded' BY <1>1, <1>t DEF OpenRoom, Mount, LiveJobs, Awaiting, Unloaded
  <2>3. TypeOK' BY <1>1, <1>t, DocTypes DEF OpenRoom, Mount, TypeOK
  <2> QED BY <2>1, <2>2, <2>3 DEF TypeInv
<1>2. CASE CloseRoom
  <2>1. TypeOK' BY <1>2, <1>c, <1>t DEF CloseRoom, TypeOK
  <2> QED BY <1>2, <1>c, <2>1 DEF CloseRoom, TypeInv
<1>3. CASE Logout
  <2>1. CASE stage = "none"
    <3>1. JobShape' /\ LiveJobs' /\ Awaiting' /\ Unloaded'
      BY <1>3, <1>t, <2>1 DEF Logout, JobShape, JobFits, LiveJobs, Awaiting, Unloaded
    <3>2. logouts' \in 0 .. MaxLogouts BY <1>3, <1>t, DeviceAssumption DEF Logout, TypeOK
    <3>3. TypeOK' BY <1>3, <1>t, <2>1, <3>2 DEF Logout, TypeOK
    <3> QED BY <3>1, <3>3 DEF TypeInv
  <2>2. CASE stage # "none"
    <3>1. Closed /\ UNCHANGED <<row, legacy>> BY <1>3, <2>2 DEF Logout
    <3>2. logouts' \in 0 .. MaxLogouts BY <1>3, <1>t, DeviceAssumption DEF Logout, TypeOK
    <3>3. TypeOK' BY <1>3, <1>t, <1>c, <2>2, <3>1, <3>2 DEF Logout, TypeOK
    <3> QED BY <1>c, <2>2, <3>1, <3>3 DEF TypeInv
  <2> QED BY <2>1, <2>2
<1>4. ASSUME NEW a \in Accounts, Login(a) PROVE TypeInv'
  <2>1. stage = "none" BY <1>4, <1>t DEF Login, TypeOK
  <2>2. JobShape' /\ LiveJobs' /\ Awaiting' /\ Unloaded'
    BY <1>4, <1>t, <2>1 DEF Login, JobShape, JobFits, LiveJobs, Awaiting, Unloaded
  <2>3. TypeOK' BY <1>4, <1>t, <2>1 DEF Login, TypeOK
  <2> QED BY <2>2, <2>3 DEF TypeInv
<1>l. stage # "none" => Merge(doc, row[account]) \in Doc \/ row[account] = NoRow
  <2> SUFFICES ASSUME stage # "none", row[account] # NoRow PROVE Merge(doc, row[account]) \in Doc
    OBVIOUS
  <2>1. row[account] \in Doc /\ doc \in Doc BY <1>t DEF TypeOK, Row
  <2> QED BY <2>1, DocTypes
<1>5. CASE ReadRow
  <2>1. stage = "reading" /\ jobs = <<>> /\ account \in Accounts BY <1>5, <1>t DEF ReadRow
  <2>2. CASE row[account] = NoRow /\ legacy # NoRow
    <3>1. /\ jobs' = (IF ShouldAdoptLegacyDoc(legacy.has) THEN <<Adopt(legacy)>> ELSE <<>>)
                       \o <<DropLegacy>>
          /\ stage' = "migrating" /\ doc' = doc
      BY <1>5, <2>2 DEF ReadRow
    <3>2. legacy \in Doc BY <1>t, <2>2 DEF TypeOK, Row
    <3>3. Adopt(legacy) \in Job /\ DropLegacy \in Job BY <2>1, <3>2, JobTypes
    <3>4. /\ Adopt(legacy).op = "adopt" /\ Adopt(legacy).of = account /\ Adopt(legacy).doc = legacy
          /\ DropLegacy.op = "drop" /\ DropLegacy.of = account
      BY DEF Adopt, DropLegacy
    <3>5. CASE ShouldAdoptLegacyDoc(legacy.has)
      <4>1. jobs' = <<Adopt(legacy)>> \o <<DropLegacy>> BY <3>1, <3>5
      <4>2. /\ jobs' \in Seq(Job) /\ Len(jobs') = 2 /\ DOMAIN jobs' = 1 .. 2
            /\ jobs'[1] = Adopt(legacy) /\ jobs'[2] = DropLegacy
        BY <3>3, <4>1, PairIs, QueueIndices
      <4>3. UNCHANGED <<row, legacy>> BY <1>5 DEF ReadRow
      <4>4. JobFits(1)' BY <2>2, <3>4, <4>2, <4>3 DEF JobFits
      <4>5. JobFits(2)' BY <3>4, <4>2 DEF JobFits
      <4>6. JobShape' BY <4>2, <4>4, <4>5 DEF JobShape
      <4>7. TypeOK' BY <1>5, <1>t, <3>1, <4>2 DEF ReadRow, TypeOK
      <4>8. LiveJobs' /\ Awaiting' /\ Unloaded' BY <1>5, <1>t, <2>1, <3>1 DEF ReadRow, LiveJobs, Awaiting, Unloaded
      <4> QED BY <4>6, <4>7, <4>8 DEF TypeInv
    <3>6. CASE ~ ShouldAdoptLegacyDoc(legacy.has)
      <4>1. jobs' = <<DropLegacy>> BY <3>1, <3>3, <3>6, ConcatEmptySeq
      <4>2. jobs' \in Seq(Job) /\ Len(jobs') = 1 /\ DOMAIN jobs' = 1 .. 1 /\ jobs'[1] = DropLegacy
        BY <3>3, <4>1
      <4>3. JobFits(1)' BY <3>4, <4>2 DEF JobFits
      <4>4. JobShape' BY <4>2, <4>3 DEF JobShape
      <4>5. TypeOK' BY <1>5, <1>t, <3>1, <4>2 DEF ReadRow, TypeOK
      <4>6. LiveJobs' /\ Awaiting' /\ Unloaded' BY <1>5, <1>t, <2>1, <3>1 DEF ReadRow, LiveJobs, Awaiting, Unloaded
      <4> QED BY <4>4, <4>5, <4>6 DEF TypeInv
    <3> QED BY <3>5, <3>6
  <2>3. CASE ~ (row[account] = NoRow /\ legacy # NoRow)
    <3>1. jobs' = jobs /\ stage' = "live" /\ doc' = IF row[account] = NoRow THEN doc ELSE Merge(doc, row[account])
      BY <1>5, <2>3 DEF ReadRow
    <3>2. doc' \in Doc BY <1>l, <1>t, <2>1, <3>1 DEF TypeOK
    <3>3. TypeOK' BY <1>5, <1>t, <2>1, <3>1, <3>2 DEF ReadRow, TypeOK
    <3>4. DOMAIN jobs' = {} BY <1>n, <2>1, <3>1, EmptySeq
    <3>5. JobShape' /\ LiveJobs' /\ Awaiting' BY <3>4 DEF JobShape, LiveJobs, Awaiting
    <3>6. Unloaded' BY <1>5, <1>t, <2>1, <3>1 DEF ReadRow, Unloaded
    <3> QED BY <3>3, <3>5, <3>6 DEF TypeInv
  <2> QED BY <2>2, <2>3
<1>6. CASE Migrated
  <2>1. doc' \in Doc /\ account \in Accounts BY <1>6, <1>l, <1>t DEF Migrated, TypeOK
  <2>2. TypeOK' BY <1>6, <1>t, <2>1 DEF Migrated, TypeOK
  <2>3. DOMAIN jobs' = {} BY <1>6, <1>n, EmptySeq DEF Migrated
  <2>4. JobShape' /\ LiveJobs' /\ Awaiting' BY <2>3 DEF JobShape, LiveJobs, Awaiting
  <2>5. Unloaded' BY <1>6, <1>t DEF Migrated, Unloaded
  <2> QED BY <2>2, <2>4, <2>5 DEF TypeInv
<1>f. faults < MaxFaults /\ faults' = faults + 1 => faults' \in 0 .. MaxFaults
  BY <1>t, DeviceAssumption DEF TypeOK
<1>7. CASE ReadFails
  <2>1. TypeOK' BY <1>7, <1>t, <1>f DEF ReadFails, TypeOK
  <2> QED BY <1>7, <1>t, <2>1 DEF ReadFails, TypeInv, JobShape, JobFits, LiveJobs, Awaiting, Unloaded
<1>8. CASE PersistTimeout
  <2>1. stage = "live" /\ account \in Accounts /\ doc \in Doc BY <1>8, <1>t DEF PersistTimeout, TypeOK
  <2>2. Write(doc) \in Job BY <2>1, JobTypes
  <2>3. jobs' \in Seq(Job) /\ Extended(jobs', Write(doc))
    BY <1>8, <1>t, <2>2, AppendIs DEF PersistTimeout
  <2>4. Write(doc).of = account /\ Write(doc).op = "write" /\ ~ Write(doc).awaited BY DEF Write
  <2>5. JobShape' BY <2>1, <2>3, <2>4, QueueShapes
  <2>6. LiveJobs' /\ Awaiting'
    <3>1. DOMAIN jobs' = 1 .. Len(jobs') BY <2>3, QueueIndices
    <3> QED BY <1>8, <1>n, <1>t, <2>1, <2>3, <2>4, <3>1 DEF PersistTimeout, LiveJobs, Awaiting, Extended
  <2>7. TypeOK' BY <1>8, <1>t, <2>3 DEF PersistTimeout, TypeOK
  <2>8. Unloaded' BY <1>8, <1>t DEF PersistTimeout, Unloaded
  <2> QED BY <2>5, <2>6, <2>7, <2>8 DEF TypeInv
<1>9. CASE JobLands
  <2> DEFINE job == Head(jobs)
  <2>1. jobs # <<>> /\ jobs' = Tail(jobs) BY <1>9 DEF JobLands, Mount
  <2>2. /\ jobs' \in Seq(Job) /\ JobShape' /\ Shorter(jobs') /\ job = jobs[1] /\ job \in Job
        /\ DOMAIN jobs' = 1 .. Len(jobs) - 1 /\ Len(jobs) \in Nat \ {0}
        /\ \A i \in 1 .. Len(jobs) - 1 : i + 1 \in 1 .. Len(jobs)
    BY <2>1, OneLess
  <2> HIDE DEF job
  <2>3. row' \in [Accounts -> Row] /\ legacy' \in Row
    <3>1. job.of \in Accounts /\ job.doc \in Row /\ NoRow \in Row BY <2>2 DEF Job, Row
    <3>2. row' \in {row, [row EXCEPT ![job.of] = job.doc], [row EXCEPT ![job.of] = NoRow]}
      BY <1>9 DEF JobLands, job
    <3>3. legacy' \in {legacy, NoRow} BY <1>9 DEF JobLands
    <3> QED BY <1>t, <3>1, <3>2, <3>3 DEF TypeOK
  <2>4. excused' \subseteq Msgs
    <3>1. excused' \in {excused, excused \cup ((legacy.has \cap Msgs) \ (UNION {row[a].has : a \in Accounts}))}
      BY <1>9 DEF JobLands
    <3> QED BY <1>t, <3>1 DEF TypeOK
  <2>5. UNCHANGED <<account, seen, sticky, confirmed, cipher, refusedVars, serverVars, sentVars,
                    logouts, faults>>
    BY <1>9 DEF JobLands
  <2>6. CASE Rebuilds(job)
    <3>1. stage' = "reading" /\ doc' = EmptyDoc /\ timer' = FALSE /\ conn' = FALSE /\ synced' = FALSE
          /\ entry' = FALSE
      BY <1>9, <2>6 DEF JobLands, Mount, job
    <3>2. job.awaited /\ job.op = "remove" /\ 1 \in DOMAIN jobs BY <1>n, <2>2, <2>6 DEF Rebuilds
    <3>3. stage # "none" /\ Len(jobs) = 1
      BY <1>t, <2>2, <3>2 DEF Awaiting, JobShape, JobFits
    <3>4. DOMAIN jobs' = {} BY <2>2, <3>3
    <3>5. TypeOK' BY <1>t, <2>2, <2>3, <2>4, <2>5, <3>1, <3>3, DocTypes DEF TypeOK
    <3> QED BY <2>2, <3>1, <3>4, <3>5 DEF TypeInv, LiveJobs, Awaiting, Unloaded
  <2>7. CASE ~ Rebuilds(job)
    <3>1. UNCHANGED <<stage, doc, timer, conn, synced, entry>> BY <1>9, <2>7 DEF JobLands, job
    <3>2. \A i \in 1 .. Len(jobs) - 1 : jobs'[i] = jobs[i + 1] /\ i + 1 \in DOMAIN jobs
      BY <1>n, <2>2 DEF Shorter
    <3>3. LiveJobs' /\ Awaiting' BY <1>t, <2>2, <2>5, <3>1, <3>2 DEF LiveJobs, Awaiting
    <3>4. TypeOK' BY <1>t, <2>2, <2>3, <2>4, <2>5, <3>1 DEF TypeOK
    <3> QED BY <1>t, <2>2, <3>1, <3>3, <3>4 DEF TypeInv, Unloaded
  <2> QED BY <2>6, <2>7
<1>10. CASE JobFails
  <2>1. PICK job : job = Head(jobs) OBVIOUS
  <2>2. /\ jobs # <<>> /\ jobs' = (IF job.op = "adopt" THEN Tail(Tail(jobs)) ELSE Tail(jobs))
        /\ stage' = IF job.awaited THEN "stuck" ELSE stage
        /\ faults' \in 0 .. MaxFaults
    BY <1>10, <1>f, <2>1 DEF JobFails
  <2>3. /\ job = jobs[1] /\ job \in Job /\ Tail(jobs) \in Seq(Job) /\ Len(jobs) > 0
        /\ Len(Tail(jobs)) = Len(jobs) - 1 /\ 1 \in DOMAIN jobs
    BY <1>t, <1>n, <2>1, <2>2, TailIs
  <2>4. excused' \subseteq Msgs
    <3>1. excused' \in {excused, excused \cup ((job.doc.has \cap Msgs) \ row[job.of].has)}
      BY <1>10, <2>1 DEF JobFails
    <3> QED BY <1>t, <3>1 DEF TypeOK
  <2>5. UNCHANGED <<account, storeVars, doc, timer, conn, synced, gateVars, refusedVars,
                    serverVars, sentVars, logouts>>
    BY <1>10 DEF JobFails
  <2>6. job.awaited => stage \in {"migrating", "refused"} BY <1>t, <2>3 DEF Awaiting
  <2>7. CASE job.op = "adopt"
    <3>1. Len(jobs) = 2 BY <1>t, <2>3, <2>7 DEF JobShape, JobFits
    <3>2. Tail(Tail(jobs)) \in Seq(Job) /\ Len(Tail(Tail(jobs))) = 0 BY <1>t, <3>1, TwoLess
    <3>3. jobs' \in Seq(Job) /\ Len(jobs') = 0 BY <2>2, <2>7, <3>2
    <3>4. DOMAIN jobs' = {} BY <3>3, QueueIndices
    <3>5. TypeOK' BY <1>t, <2>2, <2>4, <2>5, <2>6, <3>3 DEF TypeOK
    <3> QED BY <1>t, <2>2, <2>5, <2>6, <3>4, <3>5 DEF TypeInv, JobShape, LiveJobs, Awaiting, Unloaded
  <2>8. CASE job.op # "adopt"
    <3>1. /\ jobs' \in Seq(Job) /\ JobShape' /\ Shorter(jobs')
          /\ DOMAIN jobs' = 1 .. Len(jobs) - 1
          /\ \A i \in 1 .. Len(jobs) - 1 : i + 1 \in 1 .. Len(jobs)
      BY <2>2, <2>8, OneLess
    <3>2. \A i \in 1 .. Len(jobs) - 1 : jobs'[i] = jobs[i + 1] /\ i + 1 \in DOMAIN jobs
      BY <1>n, <3>1 DEF Shorter
    <3>3. job.awaited => Len(jobs) = 1
      <4>1. job.op \in {"write", "drop", "remove"} BY <2>3, <2>8 DEF Job
      <4> QED BY <1>t, <2>3, <4>1 DEF JobShape, JobFits
    <3>4. LiveJobs' /\ Awaiting'
      BY <1>t, <2>2, <2>5, <2>6, <3>1, <3>2, <3>3 DEF LiveJobs, Awaiting
    <3>5. TypeOK' BY <1>t, <2>2, <2>4, <2>5, <2>6, <3>1 DEF TypeOK
    <3> QED BY <1>t, <2>2, <2>5, <2>6, <3>1, <3>4, <3>5 DEF TypeInv, Unloaded
  <2> QED BY <2>7, <2>8
<1>11. CASE LearnEpoch
  <2>1. CASE stage = "none"
    <3>1. UNCHANGED <<engineVars, cipher, entry>> BY <1>11, <2>1 DEF LearnEpoch
    <3>2. TypeOK' BY <1>11, <1>t, <3>1 DEF LearnEpoch, TypeOK
    <3> QED BY <1>11, <1>e, <3>1, <3>2 DEF LearnEpoch
  <2>2. CASE stage # "none"
    <3>1. Ciphered(doc, timer) /\ UNCHANGED <<row, legacy>> BY <1>11, <2>2 DEF LearnEpoch
    <3>2. doc \in Doc /\ timer \in BOOLEAN /\ (timer => stage = "live") BY <1>t DEF TypeOK
    <3>3. /\ jobs' \in Seq(Job) /\ JobShape' /\ LiveJobs' /\ Awaiting' /\ Unloaded'
          /\ stage' = "reading" /\ doc' \in Doc /\ cipher' = "waiting" /\ entry' = TRUE
          /\ timer' = FALSE /\ conn' = FALSE /\ synced' = FALSE
      BY <1>m, <2>2, <3>1, <3>2
    <3>4. TypeOK' BY <1>11, <1>t, <2>2, <3>3 DEF LearnEpoch, TypeOK
    <3> QED BY <3>3, <3>4 DEF TypeInv
  <2> QED BY <2>1, <2>2
<1>12. CASE ConfirmPlaintext
  <2>1. TypeOK' BY <1>12, <1>t DEF ConfirmPlaintext, TypeOK
  <2> QED BY <1>12, <1>e, <2>1 DEF ConfirmPlaintext
<1>13. CASE LoadKey
  <2>1. TypeOK' BY <1>13, <1>t DEF LoadKey, TypeOK
  <2> QED BY <1>13, <1>e, <2>1 DEF LoadKey
<1>14. ASSUME NEW m \in Msgs, Send(m) PROVE TypeInv'
  <2>1. doc' \in Doc /\ timer' \in BOOLEAN /\ (timer' => stage = "live")
    BY <1>14, <1>t, DocTypes DEF Send, TypeOK, Items, Persists
  <2>2. excused' \subseteq Msgs BY <1>14, <1>t DEF Send, TypeOK
  <2>3. typed' \subseteq Msgs /\ envelope' \subseteq typed' /\ accepted' \subseteq typed'
    BY <1>14, <1>t DEF Send, TypeOK
  <2>4. TypeOK' BY <1>14, <1>t, <2>1, <2>2, <2>3 DEF Send, SentOn, TypeOK
  <2>5. UNCHANGED <<account, legacy, row, jobs, stage, conn>> /\ stage # "none" BY <1>14 DEF Send
  <2>6. JobShape' /\ LiveJobs' /\ Awaiting' BY <1>k, <2>5
  <2>7. Unloaded' BY <1>t, <2>5 DEF Unloaded
  <2> QED BY <2>4, <2>6, <2>7 DEF TypeInv
<1>15. CASE Connect
  <2>1. TypeOK' BY <1>15, <1>t DEF Connect, TypeOK
  <2>2. Unloaded' BY <1>15, <1>t DEF Connect, Unloaded
  <2>3. UNCHANGED <<account, storeVars, jobs, stage>> BY <1>15 DEF Connect
  <2> QED BY <1>k, <2>1, <2>2, <2>3 DEF TypeInv
<1>16. CASE Disconnect
  <2>1. conn' \in BOOLEAN BY <1>16 DEF Disconnect
  <2>2. UNCHANGED <<account, storeVars, jobs, stage, doc, timer, synced, gateVars, refusedVars,
                    serverVars, sentVars, excused, logouts, faults>>
    BY <1>16 DEF Disconnect
  <2>3. TypeOK' BY <1>t, <2>1, <2>2 DEF TypeOK
  <2>4. Unloaded' BY <1>16, <1>t DEF Disconnect, Unloaded
  <2>5. UNCHANGED <<account, storeVars, jobs, stage>> BY <1>16 DEF Disconnect
  <2> QED BY <1>k, <2>3, <2>4, <2>5 DEF TypeInv
<1>17. CASE Receive
  <2>1. stage # "none" /\ account \in Accounts BY <1>17, <1>t DEF Receive, Unloaded
  <2>2. PICK merged : merged = Merge(doc, server) OBVIOUS
  <2>3. merged \in Doc /\ stash[account] \subseteq Msgs /\ stash[account] \in SUBSET Items
    BY <1>t, <2>1, <2>2, DocTypes DEF TypeOK, Items
  <2>4. doc' \in {merged, Adding(merged, stash[account])} BY <1>17, <2>2 DEF Receive, ReinsertMessages
  <2>5. doc' \in Doc BY <2>3, <2>4, DocTypes
  <2>6. timer' \in BOOLEAN /\ (timer' => stage = "live") BY <1>17, <1>t DEF Receive, TypeOK, Persists
  <2>7. stash' \in [Accounts -> SUBSET Msgs] /\ synced' \in BOOLEAN
    BY <1>17, <1>t DEF Receive, OnSynced, TypeOK
  <2>8. excused' \subseteq Msgs BY <1>17, <1>t, <2>3 DEF Receive, TypeOK
  <2>9. TypeOK' BY <1>17, <1>t, <2>5, <2>6, <2>7, <2>8 DEF Receive, TypeOK
  <2> QED BY <1>17, <1>t, <2>1, <2>9
      DEF Receive, TypeInv, JobShape, JobFits, LiveJobs, Awaiting, Unloaded
<1>18. CASE Offer
  <2>1. PICK offer \in Offers : IF epoch /\ Plain(offer) # {} THEN Rejected(offer) ELSE Accepted(offer)
    BY <1>18 DEF Offer
  <2>2. /\ stage = "live" /\ account \in Accounts
        /\ UNCHANGED <<account, storeVars, epoch, sentVars, logouts, faults>>
    BY <1>18, <1>t DEF Offer
  <2>3. offer \subseteq doc.has /\ offer \in SUBSET Items /\ doc.gone \in SUBSET Items
    BY <1>t, RejectedTypes DEF TypeOK, Doc
  <2>4. CASE Accepted(offer)
    <3>1. server' \in Doc
      <4>1. [has |-> offer, gone |-> doc.gone] \in Doc BY <2>3 DEF Doc
      <4> QED BY <1>t, <2>4, <4>1, DocTypes DEF Accepted, TypeOK
    <3>2. accepted' \subseteq typed BY <1>t, <2>3, <2>4 DEF Accepted, TypeOK, OnlyTyped
    <3>3. UNCHANGED <<engineVars, gateVars, refusedVars, excused>> BY <2>4 DEF Accepted
    <3>4. TypeOK' BY <1>t, <2>2, <3>1, <3>2, <3>3 DEF TypeOK
    <3> QED BY <1>t, <2>2, <3>3, <3>4 DEF TypeInv, JobShape, JobFits, LiveJobs, Awaiting, Unloaded
  <2>5. CASE Rejected(offer)
    <3>1. PICK ours : ours = Own(account, Plain(offer)) OBVIOUS
    <3>2. PICK kept : kept = Removing(doc, ours) OBVIOUS
    <3>3. PICK texts : texts = RejectedDraftText(ours) OBVIOUS
    <3>4. PICK repaired \in BOOLEAN : repaired = (Plain(offer) \subseteq ours) OBVIOUS
    <3>5. /\ seen' = TRUE /\ sticky' = TRUE /\ claimed' = claimed \cup ours
          /\ IF repaired THEN Returned(texts) ELSE Unrecoverable(texts, kept)
          /\ UNCHANGED <<confirmed, server, accepted>>
      BY <2>5, <3>1, <3>2, <3>3, <3>4 DEF Rejected
    <3>6. kept \in Doc /\ ours \subseteq Msgs /\ texts \subseteq Msgs
      BY <3>1, <3>2, <3>3, RejectedTypes DEF RejectedDraftText, Fresh
    <3>7. /\ claimed' \subseteq Msgs /\ rejection' \subseteq Msgs /\ draft' \subseteq Msgs
          /\ times' \in [Msgs -> Nat] /\ stash' \in [Accounts -> SUBSET Msgs] /\ excused' \subseteq Msgs
      <4>1. CASE repaired
        BY <1>t, <3>5, <3>6, <4>1 DEF Returned, DraftAfterRestore, TypeOK
      <4>2. CASE ~ repaired
        <5>1. Own(account, kept.has) \subseteq Msgs BY DEF Own
        <5> QED BY <1>t, <3>5, <3>6, <4>2, <5>1 DEF Unrecoverable, TypeOK
      <4> QED BY <4>1, <4>2
    <3>8. CASE ~ seen
      <4>1. /\ cipher' = "waiting" /\ entry' = TRUE
            /\ Mount(TornDown(kept, repaired)
                       \o (IF repaired THEN <<>> ELSE <<Remove(FALSE)>>), "reading")
        BY <2>5, <3>1, <3>2, <3>4, <3>8 DEF Rejected, SetRoomCipher
      <4>2. jobs' \in Seq(Job) /\ JobShape' /\ \A i \in DOMAIN jobs' : ~ jobs'[i].awaited
        BY <2>2, <3>6, <4>1, RejectedQueue DEF Mount
      <4>3. TypeOK' BY <1>t, <2>2, <3>5, <3>7, <4>1, <4>2, DocTypes DEF Mount, TypeOK
      <4> QED BY <4>1, <4>2, <4>3 DEF Mount, TypeInv, LiveJobs, Awaiting, Unloaded
    <3>9. CASE seen
      <4>1. /\ doc' = kept /\ timer' = repaired
            /\ stage' = IF repaired THEN stage ELSE "refused"
            /\ jobs' = IF repaired THEN jobs ELSE Append(jobs, Remove(TRUE))
            /\ UNCHANGED <<conn, synced, cipher, entry>>
        BY <2>5, <3>1, <3>2, <3>4, <3>9 DEF Rejected
      <4>2. CASE repaired
        <5>1. jobs' = jobs BY <4>1, <4>2
        <5>2. TypeOK' BY <1>t, <2>2, <3>5, <3>6, <3>7, <4>1, <4>2, <5>1 DEF TypeOK
        <5> QED BY <1>t, <2>2, <4>1, <4>2, <5>1, <5>2
            DEF TypeInv, JobShape, JobFits, LiveJobs, Awaiting, Unloaded
      <4>3. CASE ~ repaired
        <5>1. Remove(TRUE) \in Job BY <2>2, <3>6, JobTypes
        <5>2. jobs' \in Seq(Job) /\ Extended(jobs', Remove(TRUE)) BY <1>t, <4>1, <4>3, <5>1, AppendIs
        <5>3. /\ Remove(TRUE).of = account /\ Remove(TRUE).op = "remove" /\ Remove(TRUE).doc = EmptyDoc
          BY DEF Remove
        <5>4. JobShape' BY <2>2, <5>2, <5>3, QueueShapes
        <5>5. TypeOK' BY <1>t, <2>2, <3>5, <3>6, <3>7, <4>1, <4>3, <5>2 DEF TypeOK
        <5>6. stage' = "refused" BY <4>1, <4>3
        <5> QED BY <1>t, <2>2, <4>1, <5>4, <5>5, <5>6 DEF TypeInv, LiveJobs, Awaiting, Unloaded
      <4> QED BY <4>2, <4>3
    <3>10. seen \in BOOLEAN BY <1>t DEF TypeOK
    <3> QED BY <3>8, <3>9, <3>10
  <2> QED BY <2>1, <2>4, <2>5
<1>19. CASE EnableEpoch
  <2>1. TypeOK' BY <1>19, <1>t DEF EnableEpoch, TypeOK
  <2> QED BY <1>19, <1>e, <2>1 DEF EnableEpoch
<1>20. CASE ServerLoses
  <2>1. PICK gap \in (SUBSET server.has) \ {{}} :
          /\ server' = [server EXCEPT !.has = @ \ gap]
          /\ excused' = excused \cup (gap \cap Msgs)
    BY <1>20 DEF ServerLoses
  <2>2. server' \in Doc
    <3>1. server \in Doc BY <1>t DEF TypeOK
    <3>2. server.has \ gap \in SUBSET Items BY <3>1 DEF Doc
    <3> QED BY <2>1, <3>1, <3>2 DEF Doc
  <2>3. excused' \subseteq Msgs BY <1>t, <2>1 DEF TypeOK
  <2>4. conn' \in BOOLEAN /\ faults' \in 0 .. MaxFaults BY <1>20, <1>t, <1>f DEF ServerLoses
  <2>5. UNCHANGED <<account, storeVars, jobs, stage, doc, timer, synced, gateVars, refusedVars,
                    epoch, accepted, sentVars, logouts>>
    BY <1>20 DEF ServerLoses
  <2>6. TypeOK' BY <1>t, <2>2, <2>3, <2>4, <2>5 DEF TypeOK
  <2>7. Unloaded' BY <1>20, <1>t DEF ServerLoses, Unloaded
  <2>8. UNCHANGED <<account, storeVars, jobs, stage>> BY <1>20 DEF ServerLoses
  <2> QED BY <1>k, <2>6, <2>7, <2>8 DEF TypeInv
<1>21. CASE Kill
  <2>1. jobs' = <<>> /\ stage' = "none" /\ doc' = EmptyDoc /\ timer' = FALSE /\ conn' = FALSE
        /\ synced' = FALSE
    BY <1>21 DEF Kill, Mount
  <2>2. jobs' \in Seq(Job) /\ DOMAIN jobs' = {} BY <2>1, EmptySeq
  <2>3. JobShape' /\ LiveJobs' /\ Awaiting' /\ Unloaded'
    BY <2>1, <2>2 DEF JobShape, LiveJobs, Awaiting, Unloaded
  <2>4. excused' \subseteq Msgs BY <1>21, <1>t DEF Kill, TypeOK
  <2>5. TypeOK' BY <1>21, <1>t, <1>f, <2>1, <2>2, <2>4, DocTypes DEF Kill, TypeOK
  <2> QED BY <2>3, <2>5 DEF TypeInv
<1>22. CASE UNCHANGED vars
  <2>1. TypeOK' BY <1>22, <1>t DEF vars, TypeOK
  <2> QED BY <1>22, <1>e, <2>1 DEF vars
<1> QED
  BY <1>1, <1>2, <1>3, <1>4, <1>5, <1>6, <1>7, <1>8, <1>9, <1>10, <1>11, <1>12, <1>13, <1>14, <1>15,
     <1>16, <1>17, <1>18, <1>19, <1>20, <1>21, <1>22 DEF Next

-----------------------------------------------------------------------------
(* Where the documents of the next state come from. *)

\* A storage call of the next state that is under way already.
Older(i) == \E j \in DOMAIN jobs :
              jobs'[i].op = jobs[j].op /\ jobs'[i].of = jobs[j].of /\ jobs'[i].doc = jobs[j].doc

\* The refusal of an offer, and the document without what it names.
Refuses(offer)  == Offer /\ offer \in Offers /\ epoch /\ Plain(offer) # {} /\ Rejected(offer)
Repaired(offer) == Removing(doc, Own(account, Plain(offer)))

\* A new storage call is one of the account's.
Newer(i) ==
  /\ stage # "none" /\ jobs'[i].of = account
  /\ \/ jobs'[i].op = "write" /\ stage = "live" /\ jobs'[i].doc = doc
     \/ jobs'[i].op = "adopt" /\ jobs'[i].doc = legacy /\ ShouldAdoptLegacyDoc(legacy.has)
     \/ jobs'[i].op = "write" /\ \E offer \in Offers : Refuses(offer) /\ jobs'[i].doc = Repaired(offer)
     \/ jobs'[i].op # "write" /\ jobs'[i].doc = EmptyDoc

LEMMA QueueComes ==
  ASSUME TypeInv, jobs' \in Seq(Job)
  PROVE  /\ Alike(jobs') => \A i \in DOMAIN jobs' : Older(i)
         /\ Shorter(jobs') => \A i \in DOMAIN jobs' : Older(i)
         /\ \A job : Extended(jobs', job) =>
              \A i \in DOMAIN jobs' : Older(i) \/ jobs'[i] = job
<1>1. /\ Len(jobs) \in Nat /\ DOMAIN jobs = 1 .. Len(jobs) /\ DOMAIN jobs' = 1 .. Len(jobs')
  BY QueueIndices DEF TypeInv, TypeOK
<1>2. ASSUME Alike(jobs'), NEW i \in DOMAIN jobs' PROVE Older(i)
  BY <1>1, <1>2 DEF Alike, Older
<1>3. ASSUME Shorter(jobs'), NEW i \in DOMAIN jobs' PROVE Older(i)
  <2>1. PICK n \in Nat : n = Len(jobs) BY <1>1
  <2>2. i \in 1 .. n - 1 /\ jobs'[i] = jobs[i + 1] BY <1>1, <1>3, <2>1 DEF Shorter
  <2>3. i + 1 \in DOMAIN jobs BY <1>1, <2>1, <2>2
  <2> QED BY <2>2, <2>3 DEF Older
<1>4. ASSUME NEW job, Extended(jobs', job), NEW i \in DOMAIN jobs' PROVE Older(i) \/ jobs'[i] = job
  <2>1. PICK n \in Nat : n = Len(jobs) BY <1>1
  <2>2. i \in 1 .. n + 1 BY <1>1, <1>4, <2>1 DEF Extended
  <2>3. CASE i \in 1 .. n BY <1>1, <1>4, <2>1, <2>3 DEF Extended, Older
  <2>4. CASE i = n + 1 BY <1>4, <2>1, <2>4 DEF Extended
  <2> QED BY <2>2, <2>3, <2>4
<1> QED BY <1>2, <1>3, <1>4

LEMMA JobsCome ==
  ASSUME TypeInv, TypeInv', [Next]_vars
  PROVE  \A i \in DOMAIN jobs' : Older(i) \/ Newer(i)
<1> USE DEF storeVars, engineVars, gateVars, refusedVars, serverVars, sentVars
<1>t. /\ jobs \in Seq(Job) /\ jobs' \in Seq(Job) /\ doc \in Doc
      /\ timer \in BOOLEAN /\ (timer => stage = "live") /\ seen \in BOOLEAN
      /\ (stage # "none" => account \in Accounts)
  BY DEF TypeInv, TypeOK
<1>w. \A d : Write(d).of = account /\ Write(d).op = "write" /\ Write(d).doc = d BY DEF Write
<1>s. ASSUME jobs' = jobs PROVE \A i \in DOMAIN jobs' : Older(i) BY <1>s DEF Older
<1>e. ASSUME jobs' = <<>> PROVE \A i \in DOMAIN jobs' : Older(i) BY <1>e, EmptySeq
<1>c. ASSUME stage # "none", jobs' = TornDown(doc, timer)
      PROVE  \A i \in DOMAIN jobs' : Older(i) \/ Newer(i)
  <2>1. (timer => Extended(jobs', Write(doc))) /\ (~ timer => Alike(jobs'))
    BY <1>c, <1>t, TornDownIs
  <2>2. CASE ~ timer BY <1>t, <2>1, <2>2, QueueComes
  <2>3. CASE timer
    <3>1. \A i \in DOMAIN jobs' : Older(i) \/ jobs'[i] = Write(doc) BY <1>t, <2>1, <2>3, QueueComes
    <3> QED BY <1>c, <1>t, <1>w, <2>3, <3>1 DEF Newer
  <2> QED BY <1>t, <2>2, <2>3
<1>1. CASE OpenRoom \/ ReadFails \/ ConfirmPlaintext \/ LoadKey \/ Connect \/ Disconnect \/ Receive
           \/ EnableEpoch \/ ServerLoses \/ (\E a \in Accounts : Login(a)) \/ (\E m \in Msgs : Send(m))
           \/ Migrated
  BY <1>1, <1>s DEF OpenRoom, Mount, ReadFails, ConfirmPlaintext, LoadKey, Connect, Disconnect, Receive,
                    EnableEpoch, ServerLoses, Login, Send, Migrated
<1>2. CASE CloseRoom BY <1>2, <1>c DEF CloseRoom, Closed, Mount
<1>3. CASE Logout
  <2>1. CASE stage = "none" BY <1>3, <1>s, <2>1 DEF Logout
  <2>2. CASE stage # "none" BY <1>3, <1>c, <2>2 DEF Logout, Closed, Mount
  <2> QED BY <2>1, <2>2
<1>4. CASE ReadRow
  <2>1. CASE row[account] = NoRow /\ legacy # NoRow
    <3>1. /\ jobs' = (IF ShouldAdoptLegacyDoc(legacy.has) THEN <<Adopt(legacy)>> ELSE <<>>)
                       \o <<DropLegacy>>
          /\ stage = "reading" /\ account \in Accounts
      BY <1>4, <1>t, <2>1 DEF ReadRow
    <3>2. legacy \in Doc BY <2>1 DEF TypeInv, TypeOK, Row
    <3>3. Adopt(legacy) \in Job /\ DropLegacy \in Job BY <3>1, <3>2, JobTypes
    <3>4. /\ Adopt(legacy).op = "adopt" /\ Adopt(legacy).of = account /\ Adopt(legacy).doc = legacy
          /\ DropLegacy.op = "drop" /\ DropLegacy.of = account /\ DropLegacy.doc = EmptyDoc
      BY DEF Adopt, DropLegacy
    <3>5. CASE ShouldAdoptLegacyDoc(legacy.has)
      <4>1. jobs' = <<Adopt(legacy)>> \o <<DropLegacy>> BY <3>1, <3>5
      <4>2. DOMAIN jobs' = 1 .. 2 /\ jobs'[1] = Adopt(legacy) /\ jobs'[2] = DropLegacy
        BY <3>3, <4>1, PairIs, QueueIndices
      <4>3. Newer(1) BY <3>1, <3>4, <3>5, <4>2 DEF Newer
      <4>4. Newer(2) BY <3>1, <3>4, <4>2 DEF Newer
      <4> QED BY <4>2, <4>3, <4>4
    <3>6. CASE ~ ShouldAdoptLegacyDoc(legacy.has)
      <4>1. jobs' = <<DropLegacy>> BY <3>1, <3>3, <3>6, ConcatEmptySeq
      <4>2. DOMAIN jobs' = 1 .. 1 /\ jobs'[1] = DropLegacy BY <4>1
      <4>3. Newer(1) BY <3>1, <3>4, <4>2 DEF Newer
      <4> QED BY <4>2, <4>3
    <3> QED BY <3>5, <3>6
  <2>2. CASE ~ (row[account] = NoRow /\ legacy # NoRow) BY <1>4, <1>s, <2>2 DEF ReadRow
  <2> QED BY <2>1, <2>2
<1>5. CASE PersistTimeout
  <2>1. stage = "live" /\ Write(doc) \in Job BY <1>5, <1>t, JobTypes DEF PersistTimeout
  <2>2. Extended(jobs', Write(doc)) BY <1>5, <1>t, <2>1, AppendIs DEF PersistTimeout
  <2>3. \A i \in DOMAIN jobs' : Older(i) \/ jobs'[i] = Write(doc) BY <1>t, <2>2, QueueComes
  <2> QED BY <1>w, <2>1, <2>3 DEF Newer
<1>6. CASE JobLands
  <2>1. jobs # <<>> /\ jobs' = Tail(jobs) BY <1>6 DEF JobLands, Mount
  <2> QED BY <1>t, <2>1, OneLess, QueueComes
<1>7. CASE JobFails
  <2>1. jobs # <<>> BY <1>7 DEF JobFails
  <2>2. CASE Head(jobs).op = "adopt"
    <3>1. jobs' = Tail(Tail(jobs)) BY <1>7, <2>2 DEF JobFails
    <3>2. Head(jobs) = jobs[1] /\ 1 \in DOMAIN jobs BY <1>t, <2>1, TailIs, QueueIndices
    <3>3. Len(jobs) = 2 BY <2>2, <3>2 DEF TypeInv, JobShape, JobFits
    <3>4. Len(jobs') = 0 BY <1>t, <3>1, <3>3, TwoLess
    <3>5. jobs' = <<>> BY <1>t, <3>4, QueueIndices
    <3> QED BY <1>e, <3>5
  <2>3. CASE Head(jobs).op # "adopt"
    <3>1. jobs' = Tail(jobs) BY <1>7, <2>3 DEF JobFails
    <3> QED BY <1>t, <2>1, <3>1, OneLess, QueueComes
  <2> QED BY <2>2, <2>3
<1>8. CASE LearnEpoch
  <2>1. CASE stage = "none" BY <1>8, <1>s, <2>1 DEF LearnEpoch
  <2>2. CASE stage # "none" BY <1>8, <1>c, <2>2 DEF LearnEpoch, Ciphered, Mount
  <2> QED BY <2>1, <2>2
<1>9. CASE Offer
  <2>1. PICK offer \in Offers : IF epoch /\ Plain(offer) # {} THEN Rejected(offer) ELSE Accepted(offer)
    BY <1>9 DEF Offer
  <2>2. stage = "live" /\ UNCHANGED <<row, legacy>> BY <1>9 DEF Offer
  <2>3. CASE ~ (epoch /\ Plain(offer) # {}) BY <1>s, <2>1, <2>3 DEF Accepted
  <2>4. CASE epoch /\ Plain(offer) # {}
    <3>1. Refuses(offer) BY <1>9, <2>1, <2>4 DEF Refuses
    <3>2. PICK kept : kept = Repaired(offer) OBVIOUS
    <3>3. PICK repaired \in BOOLEAN : repaired = (Plain(offer) \subseteq Own(account, Plain(offer)))
      OBVIOUS
    <3>4. kept \in Doc BY <3>2, RejectedTypes DEF Repaired
    <3>5. /\ Remove(TRUE).of = account /\ Remove(TRUE).op = "remove" /\ Remove(TRUE).doc = EmptyDoc
          /\ Remove(FALSE).of = account /\ Remove(FALSE).op = "remove" /\ Remove(FALSE).doc = EmptyDoc
      BY DEF Remove
    <3>6. CASE ~ seen
      <4>1. jobs' = TornDown(kept, repaired) \o (IF repaired THEN <<>> ELSE <<Remove(FALSE)>>)
        BY <3>1, <3>2, <3>3, <3>6 DEF Refuses, Rejected, Mount, Repaired
      <4>2. /\ repaired => Extended(jobs', Write(kept))
            /\ ~ repaired => Extended(jobs', Remove(FALSE))
        BY <2>2, <3>4, <4>1, RejectedQueue
      <4>3. \A i \in DOMAIN jobs' : Older(i) \/ jobs'[i] = Write(kept) \/ jobs'[i] = Remove(FALSE)
        BY <1>t, <4>2, QueueComes
      <4> QED BY <1>w, <2>2, <3>1, <3>2, <3>5, <4>3 DEF Newer
    <3>7. CASE seen
      <4>1. jobs' = IF repaired THEN jobs ELSE Append(jobs, Remove(TRUE))
        BY <3>1, <3>3, <3>7 DEF Refuses, Rejected
      <4>2. CASE repaired BY <1>s, <4>1, <4>2
      <4>3. CASE ~ repaired
        <5>1. Remove(TRUE) \in Job BY <1>t, <2>2, <3>4, JobTypes
        <5>2. Extended(jobs', Remove(TRUE)) BY <1>t, <4>1, <4>3, <5>1, AppendIs
        <5>3. \A i \in DOMAIN jobs' : Older(i) \/ jobs'[i] = Remove(TRUE) BY <1>t, <5>2, QueueComes
        <5> QED BY <2>2, <3>5, <5>3 DEF Newer
      <4> QED BY <4>2, <4>3
    <3> QED BY <1>t, <3>6, <3>7
  <2> QED BY <2>3, <2>4
<1>10. CASE Kill BY <1>10, <1>e DEF Kill, Mount
<1>11. CASE UNCHANGED vars BY <1>11, <1>s DEF vars
<1> QED
  BY <1>1, <1>2, <1>3, <1>4, <1>5, <1>6, <1>7, <1>8, <1>9, <1>10, <1>11 DEF Next

\* The rows: as they were, removed, or written by the first storage call.
RowComes(a) ==
  \/ row'[a] \in {row[a], NoRow}
  \/ /\ JobLands /\ 1 \in DOMAIN jobs /\ jobs[1].of = a
     /\ jobs[1].op \in {"write", "adopt"} /\ row'[a] = jobs[1].doc

LEMMA RowsCome ==
  ASSUME TypeInv, [Next]_vars
  PROVE  (\A a \in Accounts : RowComes(a)) /\ legacy' \in {legacy, NoRow}
<1> USE DEF storeVars
<1>t. jobs \in Seq(Job) /\ row \in [Accounts -> Row] BY DEF TypeInv, TypeOK
<1>s. ASSUME UNCHANGED storeVars PROVE (\A a \in Accounts : RowComes(a)) /\ legacy' \in {legacy, NoRow}
  BY <1>s DEF RowComes
<1>1. CASE JobLands
  <2>1. jobs # <<>> BY <1>1 DEF JobLands
  <2>2. Head(jobs) = jobs[1] /\ jobs[1] \in Job /\ 1 \in DOMAIN jobs BY <1>t, <2>1, TailIs, QueueIndices
  <2>3. PICK job \in Job : job = jobs[1] BY <2>2
  <2>4. /\ row' = CASE job.op \in {"write", "adopt"} -> [row EXCEPT ![job.of] = job.doc]
                    [] job.op = "remove"             -> [row EXCEPT ![job.of] = NoRow]
                    [] OTHER                         -> row
        /\ legacy' \in {legacy, NoRow}
    BY <1>1, <2>2, <2>3 DEF JobLands
  <2>5. ASSUME NEW a \in Accounts PROVE RowComes(a)
    <3>1. CASE job.op \in {"write", "adopt"} /\ job.of = a
      BY <1>1, <1>t, <2>2, <2>3, <2>4, <3>1 DEF RowComes
    <3>2. CASE ~ (job.op \in {"write", "adopt"} /\ job.of = a)
      <4>1. row'[a] \in {row[a], NoRow}
        <5>1. CASE job.op \in {"write", "adopt"} BY <1>t, <2>4, <3>2, <5>1
        <5>2. CASE job.op = "remove" BY <1>t, <2>4, <5>2
        <5>3. CASE job.op = "drop" BY <1>t, <2>4, <5>3
        <5> QED BY <5>1, <5>2, <5>3 DEF Job
      <4> QED BY <4>1 DEF RowComes
    <3> QED BY <3>1, <3>2
  <2> QED BY <2>4, <2>5
<1>2. CASE ~ JobLands
  <2>1. UNCHANGED storeVars
    BY <1>2 DEF vars, Next, OpenRoom, CloseRoom, Logout, Login, ReadRow, Migrated, ReadFails,
                PersistTimeout, JobFails, LearnEpoch, ConfirmPlaintext, LoadKey, Send, Connect,
                Disconnect, Receive, Offer, EnableEpoch, ServerLoses, Kill
  <2> QED BY <1>s, <2>1
<1> QED BY <1>1, <1>2

\* An offer the server takes, and one it refuses.
Takes(offer) ==
  /\ Offer /\ offer \in Offers /\ stage = "live"
  /\ ~ (epoch /\ Plain(offer) # {}) /\ Accepted(offer)

LEMMA OfferIs ==
  ASSUME Offer
  PROVE  /\ stage = "live"
         /\ UNCHANGED <<account, row, legacy, epoch, typed, envelope, logouts, faults>>
         /\ \E offer \in Offers : Takes(offer) \/ Refuses(offer)
BY DEF Offer, Takes, Refuses, storeVars, sentVars

\* The server's document: with what it takes, or without what it loses.
ServerComes ==
  \/ server' = server /\ accepted' = accepted
  \/ \E offer \in Offers :
       /\ Takes(offer)
       /\ server' = Merge(server, [has |-> offer, gone |-> doc.gone])
       /\ accepted' = accepted \cup (offer \cap Msgs)
  \/ \E gap \in SUBSET server.has :
       /\ server' = [server EXCEPT !.has = @ \ gap]
       /\ excused' = excused \cup (gap \cap Msgs) /\ accepted' = accepted

LEMMA ServersCome ==
  ASSUME [Next]_vars
  PROVE  ServerComes
<1>1. CASE Offer
  <2>1. PICK offer \in Offers : Takes(offer) \/ Refuses(offer) BY <1>1, OfferIs
  <2>2. CASE Takes(offer) BY <2>2 DEF Takes, Accepted, ServerComes
  <2>3. CASE Refuses(offer) BY <2>3 DEF Refuses, Rejected, ServerComes
  <2> QED BY <2>1, <2>2, <2>3
<1>2. CASE ServerLoses BY <1>2 DEF ServerLoses, ServerComes
<1>3. CASE ~ Offer /\ ~ ServerLoses
  BY <1>3 DEF ServerComes, serverVars, refusedVars, vars, Next, OpenRoom, CloseRoom, Logout, Login,
              ReadRow, Migrated, ReadFails, PersistTimeout, JobLands, JobFails, LearnEpoch,
              ConfirmPlaintext, LoadKey, Send, Connect, Disconnect, Receive, EnableEpoch, Kill
<1> QED BY <1>1, <1>2, <1>3

\* The engine's document: as it was, fresh, loaded, typed into, merged with what
\* the server has and the stash, or without what was refused.
Loads ==
  /\ stage \in {"reading", "migrating"} /\ account \in Accounts /\ row[account] # NoRow
  /\ stage' = "live" /\ doc' = Merge(doc, row[account])
Receives ==
  /\ Receive /\ account \in Accounts
  /\ doc' \in {Merge(doc, server), Adding(Merge(doc, server), stash[account])}
DocComes ==
  \/ doc' \in {doc, EmptyDoc}
  \/ Loads \/ Receives
  \/ \E m \in Msgs : Send(m) /\ doc' = Adding(doc, {m})
  \/ \E offer \in Offers : Refuses(offer) /\ doc' = Repaired(offer)

LEMMA DocsCome ==
  ASSUME TypeInv, [Next]_vars
  PROVE  DocComes /\ (account' = account \/ doc' = EmptyDoc)
<1> USE DEF engineVars, gateVars
<1>t. /\ stage = "none" => doc = EmptyDoc
      /\ stage # "none" => account \in Accounts
      /\ account = NoOne => stage = "none"
      /\ conn => stage # "none"
      /\ account \in Accounts \cup {NoOne}
  BY DEF TypeInv, TypeOK, Unloaded
<1>1. CASE ReadRow \/ Migrated
  <2>1. /\ stage \in {"reading", "migrating"} /\ account' = account
        /\ doc' # doc => /\ row[account] # NoRow /\ stage' = "live"
                         /\ doc' = Merge(doc, row[account])
    BY <1>1 DEF ReadRow, Migrated
  <2> QED BY <1>t, <2>1 DEF DocComes, Loads
<1>2. CASE Receive
  BY <1>2, <1>t DEF Receive, DocComes, Receives, ReinsertMessages
<1>3. ASSUME NEW m \in Msgs, Send(m) PROVE DocComes /\ account' = account
  BY <1>3 DEF Send, DocComes
<1>4. CASE Offer
  <2>1. PICK offer \in Offers : Takes(offer) \/ Refuses(offer) BY <1>4, OfferIs
  <2>2. CASE Takes(offer) BY <1>4, <2>2, OfferIs DEF Takes, Accepted, DocComes
  <2>3. CASE Refuses(offer)
    <3>1. doc' \in {EmptyDoc, Repaired(offer)}
      <4>1. CASE seen BY <2>3, <4>1 DEF Refuses, Rejected, Repaired
      <4>2. CASE ~ seen BY <2>3, <4>2 DEF Refuses, Rejected, Mount
      <4> QED BY <4>1, <4>2
    <3> QED BY <1>4, <2>3, <3>1, OfferIs DEF DocComes
  <2> QED BY <2>1, <2>2, <2>3
<1>5. CASE Logout
  <2>1. CASE stage = "none" BY <1>5, <1>t, <2>1 DEF Logout, DocComes
  <2>2. CASE stage # "none" BY <1>5, <2>2 DEF Logout, Closed, Mount, DocComes
  <2> QED BY <2>1, <2>2
<1>6. CASE LearnEpoch BY <1>6 DEF LearnEpoch, Ciphered, Mount, DocComes
<1>7. CASE JobLands BY <1>7 DEF JobLands, Mount, DocComes
<1>8. ASSUME NEW a \in Accounts, Login(a) PROVE DocComes /\ doc' = EmptyDoc
  BY <1>8, <1>t DEF Login, DocComes
<1>9. CASE OpenRoom \/ CloseRoom \/ ReadFails \/ PersistTimeout \/ JobFails \/ ConfirmPlaintext \/ LoadKey
           \/ Connect \/ Disconnect \/ EnableEpoch \/ ServerLoses \/ Kill
  BY <1>9 DEF OpenRoom, CloseRoom, Closed, Mount, ReadFails, PersistTimeout, JobFails, ConfirmPlaintext,
              LoadKey, Connect, Disconnect, EnableEpoch, ServerLoses, Kill, DocComes
<1>10. CASE UNCHANGED vars BY <1>10 DEF vars, DocComes
<1> QED BY <1>1, <1>2, <1>3, <1>4, <1>5, <1>6, <1>7, <1>8, <1>9, <1>10 DEF Next

\* The stash takes own envelopes of a refused document.
StashComes(a) ==
  \/ stash'[a] \subseteq stash[a]
  \/ \E offer \in Offers :
       /\ Refuses(offer) /\ a = account
       /\ stash'[a] = stash[a] \cup (Own(account, Repaired(offer).has) \cap envelope)

LEMMA StashesCome ==
  ASSUME TypeInv, [Next]_vars
  PROVE  \A a \in Accounts : StashComes(a)
<1> SUFFICES ASSUME NEW a \in Accounts PROVE StashComes(a) OBVIOUS
<1>t. stash \in [Accounts -> SUBSET Msgs] BY DEF TypeInv, TypeOK
<1>1. CASE Receive BY <1>1, <1>t DEF Receive, OnSynced, StashComes
<1>2. CASE Offer
  <2>1. PICK offer \in Offers : Takes(offer) \/ Refuses(offer) BY <1>2, OfferIs
  <2>2. CASE Takes(offer) BY <2>2 DEF Takes, Accepted, refusedVars, StashComes
  <2>3. CASE Refuses(offer)
    <3>1. \/ stash' = stash
          \/ stash' = [stash EXCEPT ![account] =
                         @ \cup (Own(account, Repaired(offer).has) \cap envelope)]
      <4>1. PICK texts : texts = RejectedDraftText(Own(account, Plain(offer))) OBVIOUS
      <4>2. Returned(texts) \/ Unrecoverable(texts, Repaired(offer))
        BY <2>3, <4>1 DEF Refuses, Rejected, Repaired
      <4> QED BY <4>2 DEF Returned, Unrecoverable
    <3> QED BY <1>t, <2>3, <3>1 DEF StashComes
  <2> QED BY <2>1, <2>2, <2>3
<1>3. CASE Kill BY <1>3 DEF Kill, StashComes
<1>4. CASE ~ Receive /\ ~ Offer /\ ~ Kill
  <2>1. stash' = stash
    BY <1>4 DEF refusedVars, vars, Next, OpenRoom, CloseRoom, Logout, Login, ReadRow, Migrated,
                ReadFails, PersistTimeout, JobLands, JobFails, LearnEpoch, ConfirmPlaintext, LoadKey,
                Send, Connect, Disconnect, EnableEpoch, ServerLoses
  <2> QED BY <2>1 DEF StashComes
<1> QED BY <1>1, <1>2, <1>3, <1>4

\* What is sent is sent as it is, what the server took it took; nothing stops
\* being encrypted or excused.
LEMMA OnlyGrows ==
  ASSUME [Next]_vars
  PROVE  /\ typed \subseteq typed' /\ accepted \subseteq accepted' /\ excused \subseteq excused'
         /\ envelope \subseteq envelope' /\ envelope' \cap typed \subseteq envelope
         /\ epoch => epoch'
         /\ typed' = typed \/ \E m \in Msgs : Send(m)
<1> USE DEF sentVars, serverVars, refusedVars
<1>1. ASSUME NEW m \in Msgs, Send(m)
      PROVE  /\ typed \subseteq typed' /\ accepted \subseteq accepted' /\ excused \subseteq excused'
             /\ envelope \subseteq envelope' /\ envelope' \cap typed \subseteq envelope
             /\ epoch => epoch'
  BY <1>1 DEF Send
<1>2. CASE Offer
  <2>1. PICK offer \in Offers : Takes(offer) \/ Refuses(offer) BY <1>2, OfferIs
  <2>2. CASE Takes(offer) BY <1>2, <2>2, OfferIs DEF Takes, Accepted
  <2>3. CASE Refuses(offer)
    <3>1. PICK texts : Returned(texts) \/ Unrecoverable(texts, Repaired(offer))
      BY <2>3 DEF Refuses, Rejected, Repaired
    <3>2. excused \subseteq excused' BY <3>1 DEF Returned, Unrecoverable
    <3>3. accepted' = accepted BY <2>3 DEF Refuses, Rejected
    <3> QED BY <1>2, <3>2, <3>3, OfferIs
  <2> QED BY <2>1, <2>2, <2>3
<1>3. CASE OpenRoom \/ CloseRoom \/ Logout \/ (\E a \in Accounts : Login(a)) \/ ReadRow \/ Migrated
           \/ ReadFails \/ PersistTimeout \/ JobLands \/ JobFails
  BY <1>3 DEF OpenRoom, CloseRoom, Logout, Login, ReadRow, Migrated, ReadFails, PersistTimeout, JobLands,
              JobFails
<1>4. CASE LearnEpoch \/ ConfirmPlaintext \/ LoadKey \/ Connect \/ Disconnect \/ Receive \/ EnableEpoch
           \/ ServerLoses \/ Kill
  BY <1>4 DEF LearnEpoch, ConfirmPlaintext, LoadKey, Connect, Disconnect, Receive, EnableEpoch,
              ServerLoses, Kill
<1>5. CASE UNCHANGED vars BY <1>5 DEF vars
<1> QED BY <1>1, <1>2, <1>3, <1>4, <1>5 DEF Next

\* What the operators on documents have and have deleted.
LEMMA DocParts ==
  /\ \A d, e : /\ Merge(d, e).has = (d.has \cup e.has) \ (d.gone \cup e.gone)
               /\ Merge(d, e).gone = d.gone \cup e.gone
  /\ \A d \in Doc, items \in SUBSET Items :
       /\ Adding(d, items).has = d.has \cup items /\ Adding(d, items).gone = d.gone
       /\ Removing(d, items).has = d.has \ items
       /\ Removing(d, items).gone = d.gone \cup (d.has \cap items)
BY DEF Merge, Adding, Removing, Doc

\* What the new document has, and what it has deleted, some document had, or
\* the account typed it.
LEMMA DocsHave ==
  ASSUME TypeInv, [Next]_vars
  PROVE  \/ doc'.has = {} /\ doc'.gone = {}
         \/ /\ account' = account
            /\ \/ doc'.has \subseteq doc.has /\ doc'.gone \subseteq doc.gone
               \/ /\ account \in Accounts
                  /\ doc'.has \subseteq doc.has \cup row[account].has
                  /\ doc'.gone \subseteq doc.gone \cup row[account].gone
               \/ /\ account \in Accounts
                  /\ doc'.has \subseteq doc.has \cup server.has \cup stash[account]
                  /\ doc'.gone \subseteq doc.gone \cup server.gone
               \/ \E m \in Msgs : Send(m) /\ doc'.has = doc.has \cup {m} /\ doc'.gone = doc.gone
               \/ \E offer \in Offers :
                    /\ Refuses(offer)
                    /\ doc'.has = doc.has \ Own(account, Plain(offer))
                    /\ doc'.gone = doc.gone \cup (doc.has \cap Own(account, Plain(offer)))
<1>1. DocComes /\ (account' = account \/ doc' = EmptyDoc) BY DocsCome
<1>2. doc \in Doc /\ server \in Doc /\ Msgs \subseteq Items /\ stash \in [Accounts -> SUBSET Msgs]
  BY DEF TypeInv, TypeOK, Items
<1>3. Merge(doc, server) \in Doc BY <1>2, DocTypes
<1>4. CASE doc' \in {doc, EmptyDoc} BY <1>1, <1>4, DocTypes
<1>5. CASE Loads
  <2>1. account \in Accounts /\ doc' = Merge(doc, row[account]) BY <1>5 DEF Loads
  <2>2. account' = account
    <3>1. doc' = EmptyDoc => doc'.has = {} /\ doc'.gone = {} BY DocTypes
    <3>2. CASE account' = account BY <3>2
    <3>3. CASE doc' = EmptyDoc
      <4>1. stage # "none" /\ stage' = "live" BY <1>5 DEF Loads
      <4>2. ReadRow \/ Migrated
        BY <4>1, <1>5
           DEF Loads, Next, vars, engineVars, OpenRoom, CloseRoom, Closed, Mount, Logout, Login, ReadFails,
               PersistTimeout, JobLands, JobFails, LearnEpoch, Ciphered, ConfirmPlaintext, LoadKey, Send,
               Connect, Disconnect, Receive, Offer, EnableEpoch, ServerLoses, Kill
      <4> QED BY <4>2 DEF ReadRow, Migrated
    <3> QED BY <1>1, <3>2, <3>3
  <2> QED BY <2>1, <2>2, DocParts
<1>6. CASE Receives
  <2>1. account \in Accounts /\ account' = account
        /\ doc' \in {Merge(doc, server), Adding(Merge(doc, server), stash[account])}
    BY <1>6 DEF Receives, Receive
  <2>2. stash[account] \in SUBSET Items BY <1>2, <2>1
  <2>3. doc'.has \subseteq doc.has \cup server.has \cup stash[account]
        /\ doc'.gone \subseteq doc.gone \cup server.gone
    BY <1>3, <2>1, <2>2, DocParts
  <2> QED BY <2>1, <2>3
<1>7. ASSUME NEW m \in Msgs, Send(m), doc' = Adding(doc, {m})
      PROVE  account' = account /\ doc'.has = doc.has \cup {m} /\ doc'.gone = doc.gone
  BY <1>2, <1>7, DocParts DEF Send
<1>8. ASSUME NEW offer \in Offers, Refuses(offer), doc' = Repaired(offer)
      PROVE  /\ account' = account
             /\ doc'.has = doc.has \ Own(account, Plain(offer))
             /\ doc'.gone = doc.gone \cup (doc.has \cap Own(account, Plain(offer)))
  <2>1. Own(account, Plain(offer)) \in SUBSET Items BY <1>2 DEF Own
  <2> QED BY <1>2, <1>8, <2>1, DocParts, OfferIs DEF Refuses, Repaired
<1> QED BY <1>1, <1>4, <1>5, <1>6, <1>7, <1>8 DEF DocComes

\* A storage call of the next state, and what its document has.
LEMMA JobsHave ==
  ASSUME TypeInv, TypeInv', [Next]_vars, NEW i \in DOMAIN jobs'
  PROVE  \/ Older(i)
         \/ /\ jobs'[i].of = account /\ account \in Accounts
            /\ \/ jobs'[i].doc.has \subseteq doc.has
               \/ /\ jobs'[i].op = "adopt" /\ jobs'[i].doc = legacy
                  /\ ShouldAdoptLegacyDoc(legacy.has)
<1>1. Older(i) \/ Newer(i) BY JobsCome
<1>2. stage # "none" => account \in Accounts BY DEF TypeInv, TypeOK
<1>3. ASSUME NEW offer \in Offers PROVE Repaired(offer).has \subseteq doc.has
  <2>1. Own(account, Plain(offer)) \in SUBSET Items BY DEF Own, Items
  <2> QED BY <2>1, DocParts DEF TypeInv, TypeOK, Repaired
<1> QED BY <1>1, <1>2, <1>3, DocTypes DEF Newer

LEMMA OnlyTypedInit == Init => OnlyTyped
<1> SUFFICES ASSUME Init PROVE OnlyTyped OBVIOUS
<1>1. jobs = <<>> /\ DOMAIN jobs = {} BY EmptySeq DEF Init
<1>2. Msgs \cap Foreign = {} BY DeviceAssumption
<1> QED BY <1>1, <1>2, DocTypes DEF Init, OnlyTyped

LEMMA OnlyTypedStep == TypeInv /\ TypeInv' /\ OnlyTyped /\ [Next]_vars => OnlyTyped'
<1> SUFFICES ASSUME TypeInv, TypeInv', OnlyTyped, [Next]_vars PROVE OnlyTyped' OBVIOUS
<1>g. typed \subseteq typed' BY OnlyGrows
<1>0. /\ stash \in [Accounts -> SUBSET Msgs] /\ doc \in Doc /\ server \in Doc
      /\ (stage # "none" => account \in Accounts)
  BY DEF TypeInv, TypeOK
<1>1. doc'.has \cap Msgs \subseteq typed'
  <2>1. ASSUME NEW m \in Msgs, Send(m) PROVE m \in typed' BY <2>1 DEF Send
  <2> QED BY <1>g, <2>1, DocsHave DEF OnlyTyped
<1>2. server'.has \cap Msgs \subseteq typed'
  <2>1. ServerComes BY ServersCome
  <2>2. ASSUME NEW offer \in Offers, server' = Merge(server, [has |-> offer, gone |-> doc.gone])
        PROVE  server'.has \subseteq server.has \cup doc.has
    BY <2>2, DocParts, RejectedTypes
  <2>3. ASSUME NEW gap \in SUBSET server.has, server' = [server EXCEPT !.has = @ \ gap]
        PROVE  server'.has \subseteq server.has
    BY <1>0, <2>3 DEF Doc
  <2> QED BY <1>g, <2>1, <2>2, <2>3 DEF ServerComes, OnlyTyped
<1>3. (\A a \in Accounts : RowComes(a)) /\ legacy' \in {legacy, NoRow} BY RowsCome
<1>4. legacy'.has \cap Msgs \subseteq typed' BY <1>3, <1>g, DocTypes DEF OnlyTyped
<1>5. ASSUME NEW a \in Accounts PROVE row'[a].has \cap Msgs \subseteq typed'
  BY <1>3, <1>g, DocTypes DEF RowComes, OnlyTyped
<1>6. ASSUME NEW a \in Accounts PROVE stash'[a] \subseteq typed'
  <2>1. StashComes(a) BY StashesCome
  <2>2. envelope \subseteq typed BY DEF TypeInv, TypeOK
  <2> QED BY <1>g, <2>1, <2>2 DEF StashComes, OnlyTyped
<1>7. ASSUME NEW i \in DOMAIN jobs' PROVE jobs'[i].doc.has \cap Msgs \subseteq typed'
  BY <1>g, JobsHave DEF Older, OnlyTyped
<1> QED BY <1>1, <1>2, <1>4, <1>5, <1>6, <1>7 DEF OnlyTyped

(***************************************************************************)
(* Every variable keeps its kind of value, through every interleaving of   *)
(* the engine's life with its storage calls, the epoch and the server: a   *)
(* timer or a connection outlives no engine, and only a loaded one writes. *)
(***************************************************************************)
THEOREM DeviceTypes == Spec => []TypeOK
<1>1. Init => TypeInv /\ OnlyTyped BY DeviceTypeInit, OnlyTypedInit
<1>2. TypeInv /\ OnlyTyped /\ [Next]_vars => TypeInv' /\ OnlyTyped'
  BY DeviceTypeStep, OnlyTypedStep
<1>3. TypeInv => TypeOK BY DEF TypeInv
<1> QED BY <1>1, <1>2, <1>3, PTL DEF Spec

-----------------------------------------------------------------------------
(* A text is put back only once. *)

LEMMA OnceStep == TypeInv /\ OnceInv /\ [Next]_vars => OnceInv'
<1> SUFFICES ASSUME TypeInv, OnceInv, [Next]_vars PROVE OnceInv' OBVIOUS
<1> USE DEF refusedVars
<1>t. times \in [Msgs -> Nat] BY DEF TypeInv, TypeOK
<1>s. ASSUME times' = times, claimed \subseteq claimed' PROVE OnceInv'
  BY <1>s DEF OnceInv, RestoredOnce
<1>z. ASSUME times' = [m \in Msgs |-> 0] PROVE OnceInv'
  BY <1>z DEF OnceInv, RestoredOnce
<1>1. CASE Offer
  <2>1. PICK offer \in Offers : Takes(offer) \/ Refuses(offer) BY <1>1, OfferIs
  <2>2. CASE Takes(offer) BY <1>s, <2>2 DEF Takes, Accepted
  <2>3. CASE Refuses(offer)
    <3>1. PICK ours : ours = Own(account, Plain(offer)) OBVIOUS
    <3>2. PICK texts : texts = ours \ claimed OBVIOUS
    <3>3. /\ claimed' = claimed \cup ours
          /\ Returned(texts) \/ Unrecoverable(texts, Removing(doc, ours))
      BY <2>3, <3>1, <3>2 DEF Refuses, Rejected, RejectedDraftText, Fresh
    <3>4. CASE Returned(texts)
      <4>1. times' = [m \in Msgs |-> IF m \in texts THEN times[m] + 1 ELSE times[m]]
        BY <3>4 DEF Returned
      <4>2. ASSUME NEW m \in Msgs PROVE times'[m] <= 1 /\ (times'[m] > 0 => m \in claimed')
        <5>1. CASE m \in texts
          <6>1. m \notin claimed /\ m \in claimed' BY <3>2, <3>3, <5>1
          <6>2. times[m] = 0 BY <1>t, <6>1 DEF OnceInv
          <6> QED BY <4>1, <5>1, <6>1, <6>2
        <5>2. CASE m \notin texts
          BY <3>3, <4>1, <5>2 DEF OnceInv, RestoredOnce
        <5> QED BY <5>1, <5>2
      <4> QED BY <4>2 DEF OnceInv, RestoredOnce
    <3>5. CASE Unrecoverable(texts, Removing(doc, ours)) BY <1>s, <3>3, <3>5 DEF Unrecoverable
    <3> QED BY <3>3, <3>4, <3>5
  <2> QED BY <2>1, <2>2, <2>3
<1>2. CASE Logout \/ Kill BY <1>2, <1>z DEF Logout, Kill
<1>3. CASE ~ Offer /\ ~ Logout /\ ~ Kill
  <2>1. times' = times /\ claimed' = claimed
    BY <1>3 DEF vars, Next, OpenRoom, CloseRoom, Login, ReadRow, Migrated, ReadFails, PersistTimeout,
                JobLands, JobFails, LearnEpoch, ConfirmPlaintext, LoadKey, Send, Connect, Disconnect,
                Receive, EnableEpoch, ServerLoses
  <2> QED BY <1>s, <2>1
<1> QED BY <1>1, <1>2, <1>3

(***************************************************************************)
(* The text of a refused message goes back to the composer once in a       *)
(* session at most, however often the message is refused: a text put back  *)
(* has been claimed, and what is claimed is not fresh.                     *)
(***************************************************************************)
THEOREM TextsReturnOnce == Spec => []RestoredOnce
<1>1. Init => TypeInv /\ OnlyTyped /\ OnceInv
  <2>1. Init => OnceInv BY DEF Init, OnceInv, RestoredOnce
  <2> QED BY <2>1, DeviceTypeInit, OnlyTypedInit
<1>2. TypeInv /\ OnlyTyped /\ OnceInv /\ [Next]_vars => (TypeInv /\ OnlyTyped /\ OnceInv)'
  BY DeviceTypeStep, OnlyTypedStep, OnceStep
<1>3. OnceInv => RestoredOnce BY DEF OnceInv
<1> QED BY <1>1, <1>2, <1>3, PTL DEF Spec

-----------------------------------------------------------------------------
(* Plaintext stays with its account. *)

\* A part of what is proper, and of what the server took, stays proper.
LEMMA StaysProper ==
  ASSUME [Next]_vars, server.has \cap Msgs \subseteq accepted, NEW a, NEW items, NEW old,
         items \subseteq old \cup server.has \cup {m \in Msgs : Author[m] = a}, Proper(a, old)
  PROVE  Proper(a, items)'
<1>1. accepted \subseteq accepted' /\ envelope \subseteq envelope' BY OnlyGrows
<1>2. SUFFICES ASSUME NEW m \in Msgs, m \in items, m \notin envelope' PROVE Author[m] = a \/ m \in accepted'
  BY DEF Proper, Plain
<1> QED BY <1>1, <1>2 DEF Proper, Plain

LEMMA OwnInit == Init => OwnInv
<1> SUFFICES ASSUME Init PROVE OwnInv OBVIOUS
<1>1. jobs = <<>> /\ DOMAIN jobs = {} BY EmptySeq DEF Init
<1>2. Msgs \cap Foreign = {} BY DeviceAssumption
<1> QED BY <1>1, <1>2, DocTypes DEF Init, OwnInv, Proper, Plain

LEMMA OwnStep == TypeInv /\ TypeInv' /\ OwnInv /\ [Next]_vars => OwnInv'
<1> SUFFICES ASSUME TypeInv, TypeInv', OwnInv, [Next]_vars PROVE OwnInv' OBVIOUS
<1>0. /\ stash \in [Accounts -> SUBSET Msgs] /\ doc \in Doc /\ server \in Doc
      /\ server.has \cap Msgs \subseteq accepted
  BY DEF TypeInv, TypeOK, OwnInv
<1>g. accepted \subseteq accepted' BY OnlyGrows
<1>e. \A a : Proper(a, {})' BY DEF Proper, Plain
<1>1. Proper(account, doc.has)'
  <2>1. CASE doc'.has = {} BY <1>e, <2>1
  <2>2. ASSUME account' = account, NEW old, Proper(account, old),
               doc'.has \subseteq old \cup server.has \cup {m \in Msgs : Author[m] = account}
        PROVE  Proper(account, doc.has)'
    <3>1. PICK items : items = doc'.has OBVIOUS
    <3>2. \A m \in Plain(items)' \cap Msgs : Author[m] = account \/ m \in accepted'
      BY <1>0, <2>2, <3>1, StaysProper DEF Proper
    <3> QED BY <2>2, <3>1, <3>2 DEF Proper, Plain
  <2>3. CASE account' = account /\ doc'.has \subseteq doc.has
    BY <2>2, <2>3 DEF OwnInv
  <2>4. CASE account' = account /\ account \in Accounts /\ doc'.has \subseteq doc.has \cup row[account].has
    <3>1. Proper(account, doc.has \cup row[account].has) BY <2>4 DEF OwnInv, Proper, Plain
    <3> QED BY <2>2, <2>4, <3>1
  <2>5. CASE /\ account' = account /\ account \in Accounts
             /\ doc'.has \subseteq doc.has \cup server.has \cup stash[account]
    <3>1. stash[account] \subseteq {m \in Msgs : Author[m] = account} BY <1>0, <2>5 DEF OwnInv
    <3> QED BY <2>2, <2>5, <3>1 DEF OwnInv
  <2>6. ASSUME account' = account, NEW m \in Msgs, Send(m), doc'.has = doc.has \cup {m}
        PROVE  Proper(account, doc.has)'
    <3>1. Author[m] = account BY <2>6 DEF Send
    <3> QED BY <2>2, <2>6, <3>1 DEF OwnInv
  <2> QED BY <2>1, <2>3, <2>4, <2>5, <2>6, DocsHave
<1>2. ASSUME NEW a \in Accounts PROVE Proper(a, row[a].has)'
  <2>1. PICK items : items = row'[a].has OBVIOUS
  <2>2. RowComes(a) BY RowsCome
  <2>3. \E old : Proper(a, old) /\ items \subseteq old
    <3>1. CASE row'[a] = NoRow BY <2>1, <3>1, DocTypes DEF Proper, Plain
    <3>2. CASE row'[a] = row[a] BY <2>1, <3>2 DEF OwnInv
    <3>3. CASE 1 \in DOMAIN jobs /\ jobs[1].of = a /\ row'[a] = jobs[1].doc
      BY <2>1, <3>3 DEF OwnInv
    <3> QED BY <2>2, <3>1, <3>2, <3>3 DEF RowComes
  <2>4. \A m \in Plain(items)' \cap Msgs : Author[m] = a \/ m \in accepted'
    BY <1>0, <2>3, StaysProper DEF Proper
  <2> QED BY <2>1, <2>4 DEF Proper, Plain
<1>3. ASSUME NEW a \in Accounts PROVE \A m \in stash'[a] : Author[m] = a
  BY StashesCome DEF StashComes, OwnInv, Own
<1>4. ASSUME NEW i \in DOMAIN jobs' PROVE Proper(jobs[i].of, jobs[i].doc.has)'
  <2>1. PICK items, a : items = jobs'[i].doc.has /\ a = jobs'[i].of OBVIOUS
  <2>2. \E old : Proper(a, old) /\ items \subseteq old
    <3>1. CASE Older(i) BY <2>1, <3>1 DEF Older, OwnInv
    <3>2. CASE a = account /\ items \subseteq doc.has BY <3>2 DEF OwnInv
    <3>3. CASE a = account /\ items = legacy.has /\ ShouldAdoptLegacyDoc(legacy.has)
      BY <3>3 DEF ShouldAdoptLegacyDoc, Proper, Plain
    <3> QED BY <2>1, <3>1, <3>2, <3>3, JobsHave
  <2>3. \A m \in Plain(items)' \cap Msgs : Author[m] = a \/ m \in accepted'
    BY <1>0, <2>2, StaysProper DEF Proper
  <2> QED BY <2>1, <2>3 DEF Proper, Plain
<1>5. server'.has \cap Msgs \subseteq accepted'
  <2>1. ServerComes BY ServersCome
  <2>2. ASSUME NEW offer \in Offers, server' = Merge(server, [has |-> offer, gone |-> doc.gone])
        PROVE  server'.has \subseteq server.has \cup offer
    BY <2>2, DocParts
  <2>3. ASSUME NEW gap \in SUBSET server.has, server' = [server EXCEPT !.has = @ \ gap]
        PROVE  server'.has \subseteq server.has
    BY <1>0, <2>3 DEF Doc
  <2> QED BY <1>0, <1>g, <2>1, <2>2, <2>3 DEF ServerComes
<1> QED BY <1>1, <1>2, <1>3, <1>4, <1>5 DEF OwnInv

(***************************************************************************)
(* The document an account syncs never holds another account's plaintext   *)
(* that the server has not accepted, whoever signs in after whom and       *)
(* whatever is left in a row, a storage call or the legacy document: what  *)
(* goes into a row comes from a document of its account.                   *)
(***************************************************************************)
THEOREM PlaintextStaysOwn == Spec => []NotAnothersUnsent
<1>1. Init => TypeInv /\ OnlyTyped /\ OwnInv BY DeviceTypeInit, OnlyTypedInit, OwnInit
<1>2. TypeInv /\ OnlyTyped /\ OwnInv /\ [Next]_vars => (TypeInv /\ OnlyTyped /\ OwnInv)'
  BY DeviceTypeStep, OnlyTypedStep, OwnStep
<1>3. OwnInv => NotAnothersUnsent BY DEF OwnInv, Proper, NotAnothersUnsent
<1> QED BY <1>1, <1>2, <1>3, PTL DEF Spec

-----------------------------------------------------------------------------
(* The promise: refused texts. *)

\* What a refusal names of the account's own.
NowRefused == {m \in Msgs : \E offer \in Offers : Refuses(offer) /\ m \in Own(account, Plain(offer))}

\* A text leaves the composer only for another or excused, and what is refused
\* goes there unless it has been there.
LEMMA TextsStay ==
  ASSUME TypeInv, Composing, [Next]_vars
  PROVE  /\ draft' \cup rejection' \subseteq draft \cup rejection \cup NowRefused
         /\ draft \cup rejection \subseteq draft' \cup rejection' \cup excused'
         /\ claimed' \subseteq claimed \cup NowRefused
         /\ NowRefused \subseteq claimed \cup draft' \cup excused'
         /\ Composing'
<1> USE DEF refusedVars, gateVars, engineVars
<1>r. ASSUME NEW offer \in Offers, Refuses(offer)
      PROVE  /\ draft' \cup rejection' \subseteq draft \cup rejection \cup Own(account, Plain(offer))
             /\ draft \cup rejection \subseteq draft' \cup rejection' \cup excused'
             /\ claimed' \subseteq claimed \cup Own(account, Plain(offer))
             /\ Own(account, Plain(offer)) \subseteq claimed \cup draft' \cup excused'
             /\ rejection' \subseteq draft' /\ stage' # "none"
  <2>1. PICK ours : ours = Own(account, Plain(offer)) OBVIOUS
  <2>2. PICK kept : kept = Removing(doc, ours) OBVIOUS
  <2>3. PICK texts : texts = ours \ claimed OBVIOUS
  <2>4. /\ claimed' = claimed \cup ours
        /\ Returned(texts) \/ Unrecoverable(texts, kept)
    BY <1>r, <2>1, <2>2, <2>3 DEF Refuses, Rejected, RejectedDraftText, Fresh
  <2>5. stage = "live" BY <1>r, OfferIs DEF Refuses
  <2>6. rejection \subseteq draft BY <2>5 DEF Composing
  <2>7. stage' # "none"
    <3>1. stage' \in {stage, "refused", "reading"}
      <4>1. CASE seen BY <1>r, <4>1 DEF Refuses, Rejected
      <4>2. CASE ~ seen BY <1>r, <4>2 DEF Refuses, Rejected, Mount
      <4> QED BY <4>1, <4>2
    <3> QED BY <2>5, <3>1
  <2>8. CASE Returned(texts)
    <3>1. draft' = draft \cup texts /\ excused' = excused
          /\ rejection' = IF texts = {} THEN rejection ELSE texts
      BY <2>8 DEF Returned, DraftAfterRestore
    <3> QED BY <2>1, <2>3, <2>4, <2>6, <2>7, <3>1
  <2>9. CASE Unrecoverable(texts, kept)
    <3>1. draft' = draft /\ rejection' = {} /\ texts \cup (rejection \ draft) \subseteq excused'
      BY <2>9 DEF Unrecoverable
    <3> QED BY <2>1, <2>3, <2>4, <2>6, <2>7, <3>1
  <2> QED BY <2>4, <2>8, <2>9
<1>0. NowRefused # {} => \E offer \in Offers : Refuses(offer) BY DEF NowRefused
<1>1. CASE \E offer \in Offers : Refuses(offer)
  <2>1. PICK offer \in Offers : Refuses(offer) BY <1>1
  <2>2. Own(account, Plain(offer)) \subseteq NowRefused BY <2>1 DEF NowRefused, Own
  <2>3. NowRefused \subseteq claimed \cup draft' \cup excused' BY <1>r DEF NowRefused
  <2>4. draft' \cup rejection' \subseteq draft \cup rejection \cup Own(account, Plain(offer))
        /\ claimed' \subseteq claimed \cup Own(account, Plain(offer))
        /\ rejection' \subseteq draft' /\ stage' # "none"
        /\ draft \cup rejection \subseteq draft' \cup rejection' \cup excused'
    BY <1>r, <2>1
  <2> QED BY <2>2, <2>3, <2>4 DEF Composing
<1>2. CASE ~ \E offer \in Offers : Refuses(offer)
  <2>0. NowRefused = {} BY <1>0, <1>2
  <2>s. ASSUME UNCHANGED <<draft, rejection, claimed>>, stage' = "none" <=> stage = "none"
        PROVE  /\ draft' \cup rejection' \subseteq draft \cup rejection
               /\ draft \cup rejection \subseteq draft' \cup rejection' \cup excused'
               /\ claimed' \subseteq claimed /\ Composing'
    BY <2>s DEF Composing
  <2>1. CASE OpenRoom BY <2>0, <2>1 DEF OpenRoom, Mount, Composing
  <2>2. CASE CloseRoom BY <2>0, <2>2 DEF CloseRoom, Closed, Mount, Composing
  <2>3. CASE Logout
    <3>1. CASE stage = "none" BY <2>0, <2>3, <3>1 DEF Logout, Composing
    <3>2. CASE stage # "none" BY <2>0, <2>3, <3>2 DEF Logout, Closed, Mount, Composing
    <3> QED BY <3>1, <3>2
  <2>4. CASE JobLands
    <3>1. stage' = "none" <=> stage = "none"
      <4>1. CASE Rebuilds(Head(jobs))
        <5>1. jobs # <<>> /\ jobs \in Seq(Job) BY <2>4 DEF JobLands, TypeInv, TypeOK
        <5>2. jobs[1].awaited /\ 1 \in DOMAIN jobs BY <4>1, <5>1, TailIs, QueueIndices DEF Rebuilds
        <5>3. stage \in {"migrating", "refused"} BY <5>2 DEF TypeInv, Awaiting
        <5> QED BY <2>4, <4>1, <5>3 DEF JobLands, Mount
      <4>2. CASE ~ Rebuilds(Head(jobs)) BY <2>4, <4>2 DEF JobLands
      <4> QED BY <4>1, <4>2
    <3> QED BY <2>0, <2>4, <2>s, <3>1 DEF JobLands
  <2>5. CASE JobFails
    <3>1. stage' = "none" <=> stage = "none"
      <4>1. jobs # <<>> /\ jobs \in Seq(Job) BY <2>5 DEF JobFails, TypeInv, TypeOK
      <4>2. Head(jobs) = jobs[1] /\ 1 \in DOMAIN jobs BY <4>1, TailIs, QueueIndices
      <4>3. Head(jobs).awaited => stage \in {"migrating", "refused"} BY <4>2 DEF TypeInv, Awaiting
      <4> QED BY <2>5, <4>3 DEF JobFails
    <3> QED BY <2>0, <2>5, <2>s, <3>1 DEF JobFails
  <2>6. CASE LearnEpoch
    <3>1. CASE stage = "none" BY <2>0, <2>6, <2>s, <3>1 DEF LearnEpoch
    <3>2. CASE stage # "none" BY <2>0, <2>6, <2>s, <3>2 DEF LearnEpoch, Ciphered, Mount
    <3> QED BY <3>1, <3>2
  <2>7. ASSUME NEW m \in Msgs, Send(m)
        PROVE  /\ draft' \cup rejection' \subseteq draft \cup rejection
               /\ draft \cup rejection \subseteq draft' \cup rejection' \cup excused'
               /\ claimed' \subseteq claimed /\ Composing'
    BY <2>7 DEF Send, SentOn, Composing
  <2>8. CASE Offer
    <3>1. PICK offer \in Offers : Takes(offer) BY <1>2, <2>8, OfferIs
    <3> QED BY <2>0, <2>s, <3>1 DEF Takes, Accepted
  <2>9. CASE Kill BY <2>0, <2>9 DEF Kill, Mount, Composing
  <2>10. CASE \/ \E a \in Accounts : Login(a)
              \/ ReadRow \/ Migrated \/ ReadFails \/ PersistTimeout \/ ConfirmPlaintext \/ LoadKey
              \/ Connect \/ Disconnect \/ Receive \/ EnableEpoch \/ ServerLoses
    <3>1. UNCHANGED <<draft, rejection, claimed>> /\ (stage' = "none" <=> stage = "none")
      BY <2>10 DEF Login, ReadRow, Migrated, ReadFails, PersistTimeout, ConfirmPlaintext, LoadKey,
                   Connect, Disconnect, Receive, OnSynced, EnableEpoch, ServerLoses
    <3> QED BY <2>0, <2>s, <3>1
  <2>11. CASE UNCHANGED vars BY <2>0, <2>s, <2>11 DEF vars
  <2> QED
    BY <2>0, <2>1, <2>2, <2>3, <2>4, <2>5, <2>6, <2>7, <2>8, <2>9, <2>10, <2>11 DEF Next
<1> QED BY <1>1, <1>2

\* Nothing is deleted but by a refusal.
LEMMA GoneComes ==
  ASSUME TypeInv, TypeInv', [Next]_vars
  PROVE  Gone' \subseteq Gone \cup NowRefused
<1>0. doc \in Doc /\ server \in Doc /\ legacy \in Row BY DEF TypeInv, TypeOK
<1>1. doc'.gone \subseteq Gone \cup NowRefused
  <2>1. ASSUME NEW offer \in Offers, Refuses(offer)
        PROVE  Own(account, Plain(offer)) \subseteq NowRefused
    BY <2>1 DEF NowRefused, Own
  <2>2. \A a \in Accounts : row[a].gone \subseteq Gone BY DEF Gone
  <2>3. doc.gone \subseteq Gone /\ server.gone \subseteq Gone BY DEF Gone
  <2> QED BY <2>1, <2>2, <2>3, DocsHave
<1>2. server'.gone \subseteq Gone
  <2>1. ServerComes BY ServersCome
  <2>2. ASSUME NEW offer \in Offers, server' = Merge(server, [has |-> offer, gone |-> doc.gone])
        PROVE  server'.gone \subseteq server.gone \cup doc.gone
    BY <2>2, DocParts
  <2>3. ASSUME NEW gap \in SUBSET server.has, server' = [server EXCEPT !.has = @ \ gap]
        PROVE  server'.gone = server.gone
    BY <1>0, <2>3 DEF Doc
  <2> QED BY <2>1, <2>2, <2>3 DEF ServerComes, Gone
<1>3. (\A a \in Accounts : RowComes(a)) /\ legacy' \in {legacy, NoRow} BY RowsCome
<1>4. legacy'.gone \subseteq Gone BY <1>3, DocTypes DEF Gone
<1>5. ASSUME NEW a \in Accounts PROVE row'[a].gone \subseteq Gone
  BY <1>3, DocTypes DEF RowComes, Gone
<1>6. ASSUME NEW i \in DOMAIN jobs' PROVE jobs'[i].doc.gone \subseteq Gone \cup NowRefused
  <2>1. Older(i) \/ Newer(i) BY JobsCome
  <2>2. ASSUME NEW offer \in Offers, Refuses(offer)
        PROVE  Repaired(offer).gone \subseteq doc.gone \cup NowRefused
    <3>1. Own(account, Plain(offer)) \in SUBSET Items /\ Own(account, Plain(offer)) \subseteq NowRefused
      BY <2>2 DEF Own, Items, NowRefused
    <3> QED BY <1>0, <3>1, DocParts DEF Repaired
  <2> QED BY <2>1, <2>2, DocTypes DEF Older, Newer, Gone
<1> QED BY <1>1, <1>2, <1>4, <1>5, <1>6 DEF Gone

LEMMA RefusedSteps ==
  ASSUME TypeInv, TypeInv', OnlyTyped, RefusedStay, GoneAreSettled, Composing, [Next]_vars
  PROVE  /\ RefusedStay' /\ GoneAreSettled' /\ Composing'
         /\ server.has \cap Msgs \subseteq server'.has \cup excused'
         /\ draft \cup rejection \subseteq draft' \cup rejection' \cup excused'
         /\ Settled \cap Msgs \subseteq Settled'
         /\ NowRefused \subseteq Settled'
<1>0. doc \in Doc /\ server \in Doc /\ typed \subseteq Msgs /\ envelope \subseteq typed BY DEF TypeInv, TypeOK
<1>g. /\ typed \subseteq typed' /\ excused \subseteq excused' /\ envelope' \cap typed \subseteq envelope
      /\ (epoch => epoch')
  BY OnlyGrows
<1>c. Gone' \subseteq Gone \cup NowRefused BY GoneComes
<1>t. /\ draft' \cup rejection' \subseteq draft \cup rejection \cup NowRefused
      /\ draft \cup rejection \subseteq draft' \cup rejection' \cup excused'
      /\ claimed' \subseteq claimed \cup NowRefused
      /\ NowRefused \subseteq claimed \cup draft' \cup excused'
      /\ Composing'
  BY TextsStay
<1>1. Refused' \subseteq Refused \cup NowRefused BY <1>c, <1>t DEF Refused
<1>2. NowRefused \subseteq typed \ envelope /\ NowRefused \cap server.has = {}
  <2> SUFFICES ASSUME NEW m \in NowRefused PROVE m \in typed /\ m \notin envelope /\ m \notin server.has
    OBVIOUS
  <2>1. PICK offer \in Offers : m \in Own(account, Plain(offer)) BY DEF NowRefused
  <2>2. m \in offer \cap Msgs /\ m \notin envelope BY <2>1 DEF Own, Plain
  <2>3. offer \subseteq doc.has /\ offer \cap server.has = {} BY RejectedTypes
  <2> QED BY <2>2, <2>3 DEF OnlyTyped
<1>3. NowRefused # {} => epoch /\ server' = server
  BY DEF NowRefused, Refuses, Rejected
<1>4. Refused' # {} => epoch
  <2>1. CASE NowRefused = {} BY <1>1, <2>1 DEF RefusedStay
  <2>2. CASE NowRefused # {} BY <1>3, <2>2
  <2> QED BY <2>1, <2>2
<1>s. Refused' # {} /\ server' # server =>
        \/ server'.has \subseteq server.has
        \/ \E offer \in Offers : offer \subseteq envelope /\ server'.has \subseteq server.has \cup offer
  <2> SUFFICES ASSUME Refused' # {}, server' # server
               PROVE  \/ server'.has \subseteq server.has
                      \/ \E offer \in Offers :
                           offer \subseteq envelope /\ server'.has \subseteq server.has \cup offer
    OBVIOUS
  <2>1. ServerComes BY ServersCome
  <2>2. ASSUME NEW offer \in Offers, Takes(offer),
               server' = Merge(server, [has |-> offer, gone |-> doc.gone])
        PROVE  offer \subseteq envelope /\ server'.has \subseteq server.has \cup offer
    <3>1. Plain(offer) = {} BY <1>4, <2>2 DEF Takes
    <3>2. server'.has \subseteq server.has \cup offer BY <2>2, DocParts
    <3> QED BY <3>1, <3>2 DEF Plain
  <2>3. ASSUME NEW gap \in SUBSET server.has, server' = [server EXCEPT !.has = @ \ gap]
        PROVE  server'.has \subseteq server.has
    BY <1>0, <2>3 DEF Doc
  <2> QED BY <2>1, <2>2, <2>3 DEF ServerComes
<1>5. Refused' \cap server'.has = {}
  <2>1. (Refused \cup NowRefused) \cap (server.has \cup envelope) = {} BY <1>2 DEF RefusedStay
  <2> QED BY <1>1, <1>s, <2>1
<1>6. RefusedStay'
  <2>1. Refused' \subseteq typed \ envelope BY <1>1, <1>2 DEF RefusedStay
  <2>2. Refused' \subseteq typed' \ envelope' BY <1>g, <2>1
  <2> QED BY <1>4, <1>5, <1>g, <2>2 DEF RefusedStay
<1>7. GoneAreSettled' BY <1>c, <1>g, <1>t DEF GoneAreSettled
<1>8. server.has \cap Msgs \subseteq server'.has \cup excused'
  <2>1. ServerComes BY ServersCome
  <2>2. ASSUME NEW offer \in Offers, server' = Merge(server, [has |-> offer, gone |-> doc.gone])
        PROVE  server.has \subseteq server'.has
    <3>1. (server.gone \cup doc.gone) \cap server.has = {} BY DEF RefusedStay, Refused, Gone
    <3> QED BY <2>2, <3>1, DocParts
  <2>3. ASSUME NEW gap \in SUBSET server.has, server' = [server EXCEPT !.has = @ \ gap],
               excused' = excused \cup (gap \cap Msgs)
        PROVE  server.has \cap Msgs \subseteq server'.has \cup excused'
    BY <1>0, <2>3 DEF Doc
  <2> QED BY <2>1, <2>2, <2>3 DEF ServerComes
<1>9. Settled \cap Msgs \subseteq Settled' BY <1>8, <1>g, <1>t DEF Settled
<1>10. NowRefused \subseteq Settled'
  <2>1. claimed \subseteq draft \cup rejection \cup excused BY DEF GoneAreSettled
  <2> QED BY <1>t, <1>g, <2>1 DEF Settled
<1> QED BY <1>6, <1>7, <1>8, <1>9, <1>10, <1>t

LEMMA EarlyStep ==
  ASSUME TypeInv, Early, [Next]_vars
  PROVE  Early'
<1> USE DEF engineVars
<1>g. excused \subseteq excused' BY OnlyGrows
<1>e. ASSUME doc' = EmptyDoc PROVE Early' BY <1>e, DocTypes DEF Early
<1>s. ASSUME doc' = doc, stage' \in {"reading", "migrating"} => stage \in {"reading", "migrating"}
      PROVE  Early'
  BY <1>s, <1>g DEF Early
<1>l. ASSUME stage' \notin {"reading", "migrating"} PROVE Early' BY <1>l DEF Early
<1>1. CASE OpenRoom \/ CloseRoom \/ Kill BY <1>1, <1>e DEF OpenRoom, CloseRoom, Kill, Closed, Mount
<1>2. CASE Logout
  <2>1. CASE stage = "none" BY <1>2, <1>s, <2>1 DEF Logout
  <2>2. CASE stage # "none" BY <1>2, <1>e, <2>2 DEF Logout, Closed, Mount
  <2> QED BY <2>1, <2>2
<1>3. CASE ReadRow
  <2>1. stage = "reading" /\ (stage' = "live" \/ doc' = doc) BY <1>3 DEF ReadRow
  <2> QED BY <1>l, <1>s, <2>1
<1>4. CASE Migrated \/ ReadFails BY <1>4, <1>l DEF Migrated, ReadFails
<1>5. CASE JobLands
  <2>1. CASE Rebuilds(Head(jobs)) BY <1>5, <1>e, <2>1 DEF JobLands, Mount
  <2>2. CASE ~ Rebuilds(Head(jobs)) BY <1>5, <1>s, <2>2 DEF JobLands
  <2> QED BY <2>1, <2>2
<1>6. CASE JobFails BY <1>6, <1>s DEF JobFails
<1>7. CASE LearnEpoch
  <2>1. CASE stage = "none" BY <1>7, <1>s, <2>1 DEF LearnEpoch
  <2>2. CASE stage # "none" BY <1>7, <1>e, <2>2 DEF LearnEpoch, Ciphered, Mount
  <2> QED BY <2>1, <2>2
<1>8. ASSUME NEW m \in Msgs, Send(m) PROVE Early'
  <2>1. doc'.has = doc.has \cup {m}
    BY <1>8, DocParts DEF Send, TypeInv, TypeOK, Items
  <2>2. stage' = stage /\ (stage = "live" \/ m \in excused') BY <1>8 DEF Send
  <2> QED BY <1>g, <2>1, <2>2 DEF Early
<1>9. CASE Receive
  <2>1. stage' = stage /\ conn BY <1>9 DEF Receive
  <2> QED BY <1>l, <2>1 DEF TypeInv, Unloaded
<1>10. CASE Offer
  <2>1. PICK offer \in Offers : Takes(offer) \/ Refuses(offer) BY <1>10, OfferIs
  <2>2. CASE Takes(offer) BY <1>s, <2>2 DEF Takes, Accepted
  <2>3. CASE Refuses(offer)
    <3>1. CASE seen
      <4>1. stage' \in {stage, "refused"} BY <2>3, <3>1 DEF Refuses, Rejected
      <4> QED BY <1>10, <1>l, <4>1, OfferIs
    <3>2. CASE ~ seen BY <1>e, <2>3, <3>2 DEF Refuses, Rejected, Mount
    <3> QED BY <3>1, <3>2
  <2> QED BY <2>1, <2>2, <2>3
<1>11. CASE \/ \E a \in Accounts : Login(a)
            \/ PersistTimeout \/ ConfirmPlaintext \/ LoadKey \/ Connect \/ Disconnect \/ EnableEpoch
            \/ ServerLoses
  BY <1>11, <1>s DEF Login, PersistTimeout, ConfirmPlaintext, LoadKey, Connect, Disconnect, EnableEpoch,
                     ServerLoses
<1>12. CASE UNCHANGED vars BY <1>12, <1>s DEF vars
<1> QED BY <1>1, <1>2, <1>3, <1>4, <1>5, <1>6, <1>7, <1>8, <1>9, <1>10, <1>11, <1>12 DEF Next

-----------------------------------------------------------------------------
(* The promise: what an account's newest document has. *)

LEMMA LatestAlike ==
  ASSUME TypeInv, jobs' \in Seq(Job), Alike(jobs'), row' = row, NEW a
  PROVE  Latest(a)' = Latest(a)
<1>1. /\ Len(jobs) \in Nat /\ Len(jobs') = Len(jobs)
      /\ (jobs = <<>> <=> Len(jobs) = 0) /\ (jobs' = <<>> <=> Len(jobs') = 0)
  BY QueueIndices DEF TypeInv, TypeOK, Alike
<1>2. CASE jobs = <<>> BY <1>1, <1>2 DEF Latest
<1>3. CASE jobs # <<>>
  <2>1. PICK n : n = Len(jobs) OBVIOUS
  <2>2. n \in 1 .. Len(jobs) /\ Len(jobs') = n /\ jobs' # <<>> BY <1>1, <1>3, <2>1
  <2>3. jobs'[n].op = jobs[n].op /\ jobs'[n].of = jobs[n].of /\ jobs'[n].doc = jobs[n].doc
    BY <2>2 DEF Alike
  <2> QED BY <1>3, <2>1, <2>2, <2>3 DEF Latest
<1> QED BY <1>2, <1>3

\* A live engine's storage calls are all of its account.
LEMMA LatestOfOthers ==
  ASSUME TypeInv, stage = "live", NEW a, a # account
  PROVE  Latest(a) = row[a].has
<1>1. Len(jobs) \in Nat /\ DOMAIN jobs = 1 .. Len(jobs) /\ (jobs = <<>> <=> Len(jobs) = 0)
  BY QueueIndices DEF TypeInv, TypeOK
<1>2. CASE jobs = <<>> BY <1>2 DEF Latest
<1>3. CASE jobs # <<>>
  <2>1. PICK n : n = Len(jobs) OBVIOUS
  <2>2. n \in DOMAIN jobs BY <1>1, <1>3, <2>1
  <2>3. jobs[n].of = account BY <2>2 DEF TypeInv, LiveJobs
  <2> QED BY <2>1, <2>3 DEF Latest
<1> QED BY <1>2, <1>3

LEMMA LatestExtended ==
  ASSUME TypeInv, jobs' \in Seq(Job), NEW job, Extended(jobs', job), job.op # "drop", row' = row, NEW a
  PROVE  Latest(a)' = IF job.of = a THEN job.doc.has ELSE row[a].has
<1>1. /\ Len(jobs) \in Nat /\ Len(jobs') = Len(jobs) + 1
      /\ (jobs' = <<>>) <=> (Len(jobs') = 0)
  BY QueueIndices DEF TypeInv, TypeOK, Extended
<1>2. jobs' # <<>> BY <1>1
<1>3. jobs'[Len(jobs')] = job BY DEF Extended
<1> QED BY <1>2, <1>3 DEF Latest

\* A storage call that ends leaves what the row will hold as it was, but for
\* what is excused, or to be removed anyhow.
LEMMA LatestShorter ==
  ASSUME TypeInv, jobs # <<>>, jobs' = Tail(jobs), NEW a \in Accounts,
         jobs[1].of # a => row'[a] = row[a],
         jobs[1].op = "drop" => row'[a] = row[a],
         jobs[1].op = "adopt" => row[jobs[1].of] = NoRow,
         /\ jobs[1].op # "drop" /\ jobs[1].of = a
            => jobs[1].doc.has \cap Msgs \subseteq row'[a].has \cup excused'
  PROVE  Latest(a) \cap Msgs \subseteq Latest(a)' \cup excused'
<1>1. /\ Len(jobs) \in Nat \ {0} /\ DOMAIN jobs = 1 .. Len(jobs) /\ Shorter(jobs')
      /\ jobs \in Seq(Job) /\ jobs' \in Seq(Job)
  BY OneLess DEF TypeInv, TypeOK
<1>2. PICK n \in Nat : n = Len(jobs) BY <1>1
<1>3. Len(jobs') = n - 1 /\ (jobs' = <<>> <=> n - 1 = 0)
  BY <1>1, <1>2, QueueIndices DEF Shorter
<1>4. CASE n = 1
  <2>1. jobs' = <<>> BY <1>3, <1>4
  <2>2. Latest(a)' = row'[a].has BY <2>1 DEF Latest
  <2>3. Latest(a) = IF jobs[1].of = a /\ jobs[1].op # "drop" THEN jobs[1].doc.has ELSE row[a].has
    BY <1>2, <1>4 DEF Latest
  <2>4. CASE jobs[1].of = a /\ jobs[1].op # "drop" BY <2>2, <2>3, <2>4
  <2>5. CASE ~ (jobs[1].of = a /\ jobs[1].op # "drop") BY <2>2, <2>3, <2>5
  <2> QED BY <2>4, <2>5
<1>5. CASE n # 1
  <2>1. jobs' # <<>> BY <1>1, <1>2, <1>3, <1>5
  <2>2. jobs'[n - 1] = jobs[n]
    <3>1. n - 1 \in 1 .. Len(jobs) - 1 BY <1>1, <1>2, <1>5
    <3>2. (n - 1) + 1 = n BY <1>2
    <3> QED BY <3>1, <3>2, <1>1 DEF Shorter
  <2>3. PICK last : last = jobs[n] OBVIOUS
  <2>4. Latest(a) = IF last.of = a /\ last.op # "drop" THEN last.doc.has ELSE row[a].has
    BY <1>2, <2>3 DEF Latest
  <2>5. Latest(a)' = IF last.of = a /\ last.op # "drop" THEN last.doc.has ELSE row'[a].has
    BY <1>3, <2>1, <2>2, <2>3 DEF Latest
  <2>6. n \in DOMAIN jobs /\ JobFits(n) BY <1>1, <1>2 DEF TypeInv, JobShape
  <2>7. last.of = jobs[1].of BY <2>3, <2>6 DEF JobFits
  <2>8. last.op = "drop" => jobs[1].op = "adopt" BY <1>5, <2>3, <2>6 DEF JobFits
  <2>9. CASE last.of = a /\ last.op # "drop" BY <2>4, <2>5, <2>9
  <2>10. CASE last.of # a BY <2>4, <2>5, <2>7, <2>10
  <2>11. CASE last.of = a /\ last.op = "drop"
    <3>1. row[a].has = {} BY <2>7, <2>8, <2>11, DocTypes
    <3> QED BY <2>4, <2>11, <3>1
  <2> QED BY <2>9, <2>10, <2>11
<1> QED BY <1>4, <1>5

LEMMA LatestStays ==
  ASSUME TypeInv, JobLands \/ JobFails, NEW a \in Accounts
  PROVE  Latest(a) \cap Msgs \subseteq Latest(a)' \cup excused'
<1>t. jobs \in Seq(Job) /\ row \in [Accounts -> Row] BY DEF TypeInv, TypeOK
<1>1. jobs # <<>> BY DEF JobLands, JobFails
<1>2. Head(jobs) = jobs[1] /\ jobs[1] \in Job /\ 1 \in DOMAIN jobs BY <1>t, <1>1, TailIs, QueueIndices
<1>3. JobFits(1) BY <1>2 DEF TypeInv, JobShape
<1>4. PICK job \in Job : job = jobs[1] BY <1>2
<1>5. (job.op = "adopt" => row[job.of] = NoRow) /\ (job.op = "remove" => job.doc = EmptyDoc)
  BY <1>3, <1>4 DEF JobFits
<1>6. job.of \in Accounts /\ job.op \in {"write", "adopt", "drop", "remove"} BY DEF Job
<1>7. CASE JobLands
  <2>1. jobs' = Tail(jobs) BY <1>7 DEF JobLands, Mount
  <2>2. row' = CASE job.op \in {"write", "adopt"} -> [row EXCEPT ![job.of] = job.doc]
                 [] job.op = "remove"             -> [row EXCEPT ![job.of] = NoRow]
                 [] OTHER                         -> row
    BY <1>7, <1>2, <1>4 DEF JobLands
  <2>3. /\ job.of # a => row'[a] = row[a]
        /\ job.op = "drop" => row'[a] = row[a]
        /\ job.op # "drop" /\ job.of = a => job.doc.has \subseteq row'[a].has
    <3>1. CASE job.op \in {"write", "adopt"} BY <1>t, <1>6, <2>2, <3>1
    <3>2. CASE job.op = "remove" BY <1>t, <1>5, <1>6, <2>2, <3>2, DocTypes
    <3>3. CASE job.op = "drop" BY <1>t, <2>2, <3>3
    <3> QED BY <1>6, <3>1, <3>2, <3>3
  <2> QED BY <1>1, <1>4, <1>5, <2>1, <2>3, LatestShorter
<1>8. CASE JobFails
  <2>1. row' = row BY <1>8 DEF JobFails, storeVars
  <2>2. job.op = "write" => (job.doc.has \cap Msgs) \ row[job.of].has \subseteq excused'
    BY <1>8, <1>2, <1>4 DEF JobFails
  <2>3. CASE job.op = "adopt"
    <3>1. jobs' = Tail(Tail(jobs)) BY <1>8, <1>2, <1>4, <2>3 DEF JobFails
    <3>2. Len(jobs) = 2 /\ jobs[2].op = "drop" BY <1>3, <1>4, <2>3 DEF JobFits
    <3>3. jobs' \in Seq(Job) /\ Len(jobs') = 0 BY <1>t, <3>1, <3>2, TwoLess
    <3>4. jobs' = <<>> BY <3>3, QueueIndices
    <3> QED BY <2>1, <3>2, <3>4 DEF Latest
  <2>4. CASE job.op # "adopt"
    <3>1. jobs' = Tail(jobs) BY <1>8, <1>2, <1>4, <2>4 DEF JobFails
    <3>2. job.op # "drop" /\ job.of = a => job.doc.has \cap Msgs \subseteq row'[a].has \cup excused'
      BY <1>5, <1>6, <2>1, <2>2, <2>4, DocTypes
    <3> QED BY <1>1, <1>4, <1>5, <2>1, <3>1, <3>2, LatestShorter
  <2> QED BY <2>3, <2>4
<1> QED BY <1>7, <1>8

\* Not repaired: another member's plaintext is among what is refused, so the
\* offer was all the server lacks, and what is kept of the account's is an
\* envelope or the server's.
LEMMA NotRepaired ==
  ASSUME TypeInv, NEW offer \in Offers, ~ (Plain(offer) \subseteq Own(account, Plain(offer)))
  PROVE  \A m \in Own(account, Repaired(offer).has) : m \in envelope \cup server.has \cup server.gone
<1> SUFFICES ASSUME NEW m \in Own(account, Repaired(offer).has), m \notin envelope
             PROVE  m \in server.has \cup server.gone
  OBVIOUS
<1>1. offer = Unserved
  <2>1. CASE offer \in {{n} : n \in Own(account, Unserved)}
    <3>1. offer \subseteq Own(account, offer) BY <2>1 DEF Own
    <3> QED BY <3>1 DEF Own, Plain
  <2> QED BY <2>1 DEF Offers
<1>2. Own(account, Plain(offer)) \in SUBSET Items /\ doc \in Doc BY DEF Own, Items, TypeInv, TypeOK
<1>3. Repaired(offer).has = doc.has \ Own(account, Plain(offer)) BY <1>2, DocParts DEF Repaired
<1>4. m \in doc.has /\ m \in Msgs /\ Author[m] = account /\ m \notin Own(account, Plain(offer))
  BY <1>3 DEF Own
<1>5. m \notin offer BY <1>4 DEF Own, Plain
<1> QED BY <1>1, <1>4, <1>5 DEF Unserved

\* A refusal leaves the rest of the newest document to its successors, the row,
\* or the stash.
LEMMA RefusalKeeps ==
  ASSUME TypeInv, TypeInv', OnlyTyped, RefusedStay, GoneAreSettled, Composing, [Next]_vars,
         NEW offer \in Offers, Refuses(offer), NEW a \in Accounts
  PROVE  (Newest(a) \cup stash[a]) \cap Msgs \subseteq Kept(a)'
<1> USE DEF engineVars
<1>0. /\ stage = "live" /\ account \in Accounts /\ account' = account /\ row' = row /\ legacy' = legacy
      /\ doc \in Doc /\ jobs \in Seq(Job) /\ jobs' \in Seq(Job) /\ stash \in [Accounts -> SUBSET Msgs]
      /\ seen \in BOOLEAN /\ server' = server
  <2>1. account # NoOne => account \in Accounts BY DEF TypeInv, TypeOK
  <2> QED BY <2>1, OfferIs DEF Refuses, Rejected, TypeInv, TypeOK
<1>k. Settled \cap Msgs \subseteq Settled' /\ NowRefused \subseteq Settled' BY RefusedSteps
<1>1. PICK ours : ours = Own(account, Plain(offer)) OBVIOUS
<1>2. PICK kept : kept = Repaired(offer) OBVIOUS
<1>3. PICK repaired \in BOOLEAN : repaired = (Plain(offer) \subseteq ours) OBVIOUS
<1>4. PICK texts : texts = RejectedDraftText(ours) OBVIOUS
<1>5. IF repaired THEN Returned(texts) ELSE Unrecoverable(texts, kept)
  BY <1>1, <1>2, <1>3, <1>4 DEF Refuses, Rejected, Repaired
<1>6. kept \in Doc /\ kept.has = doc.has \ ours /\ ours \subseteq NowRefused
  <2>1. ours \in SUBSET Items /\ ours \subseteq NowRefused BY <1>1 DEF Own, Items, NowRefused
  <2> QED BY <1>0, <1>1, <1>2, <2>1, DocParts, DocTypes DEF Repaired
<1>s. stash[a] \subseteq stash'[a] BY <1>0, <1>5 DEF Returned, Unrecoverable
\* the jobs of the next state end with one of the account's, or are those of this one
<1>7. CASE a # account
  <2>1. Newest(a) = row[a].has BY <1>0, <1>7, LatestOfOthers DEF Newest
  <2>2. Latest(a)' = row[a].has
    <3>1. CASE ~ seen
      <4>1. jobs' = TornDown(kept, repaired) \o (IF repaired THEN <<>> ELSE <<Remove(FALSE)>>)
        BY <1>1, <1>2, <1>3, <3>1 DEF Refuses, Rejected, Mount, Repaired
      <4>2. /\ repaired => Extended(jobs', Write(kept))
            /\ ~ repaired => Extended(jobs', Remove(FALSE))
        BY <1>0, <1>6, <4>1, RejectedQueue
      <4>3. Write(kept).of = account /\ Write(kept).op = "write" BY DEF Write
      <4>4. Remove(FALSE).of = account /\ Remove(FALSE).op = "remove" BY DEF Remove
      <4>5. CASE repaired BY <1>0, <1>7, <4>2, <4>3, <4>5, LatestExtended
      <4>6. CASE ~ repaired BY <1>0, <1>7, <4>2, <4>4, <4>6, LatestExtended
      <4> QED BY <4>5, <4>6
    <3>2. CASE seen
      <4>1. jobs' = IF repaired THEN jobs ELSE Append(jobs, Remove(TRUE))
        BY <1>1, <1>3, <3>2 DEF Refuses, Rejected
      <4>2. CASE repaired
        <5>1. Latest(a)' = Latest(a) BY <1>0, <4>1, <4>2 DEF Latest
        <5> QED BY <1>0, <1>7, <5>1, LatestOfOthers
      <4>3. CASE ~ repaired
        <5>1. Remove(TRUE) \in Job BY <1>0, <1>6, JobTypes
        <5>2. Extended(jobs', Remove(TRUE)) BY <1>0, <4>1, <4>3, <5>1, AppendIs
        <5>3. Remove(TRUE).of = account /\ Remove(TRUE).op = "remove" BY DEF Remove
        <5> QED BY <1>0, <1>7, <5>2, <5>3, LatestExtended
      <4> QED BY <4>2, <4>3
    <3> QED BY <1>0, <3>1, <3>2
  <2>3. Newest(a)' = Latest(a)' BY <1>0, <1>7 DEF Newest
  <2> QED BY <1>s, <2>1, <2>2, <2>3 DEF Kept
<1>8. CASE a = account
  <2>1. Newest(a) = doc.has BY <1>0, <1>8 DEF Newest
  <2>2. ours \subseteq Kept(a)' BY <1>6, <1>k DEF Kept
  <2>3. kept.has \cap Msgs \subseteq Kept(a)'
    <3>1. CASE repaired /\ ~ seen
      <4>1. jobs' = TornDown(kept, repaired) \o (IF repaired THEN <<>> ELSE <<Remove(FALSE)>>)
            /\ stage' = "reading"
        BY <1>1, <1>2, <1>3, <3>1 DEF Refuses, Rejected, Mount, Repaired
      <4>2. Extended(jobs', Write(kept)) BY <1>0, <1>6, <3>1, <4>1, RejectedQueue
      <4>3. Write(kept).of = account /\ Write(kept).op = "write" /\ Write(kept).doc = kept BY DEF Write
      <4>4. Latest(a)' = kept.has BY <1>0, <1>8, <4>2, <4>3, LatestExtended
      <4> QED BY <4>1, <4>4 DEF Newest, Kept
    <3>2. CASE repaired /\ seen
      <4>1. doc' = kept /\ stage' = stage BY <1>1, <1>2, <1>3, <3>2 DEF Refuses, Rejected, Repaired
      <4> QED BY <1>0, <1>8, <4>1 DEF Newest, Kept
    <3>3. CASE ~ repaired
      <4>1. /\ Own(account, kept.has) \cap envelope \subseteq stash'[account]
            /\ (kept.has \cap Msgs) \ Own(account, kept.has) \subseteq excused'
        BY <1>0, <1>5, <3>3 DEF Unrecoverable
      <4>2. \A m \in Own(account, kept.has) : m \in envelope \cup server.has \cup server.gone
        BY <1>1, <1>2, <1>3, <3>3, NotRepaired
      <4>3. (server.has \cup server.gone) \cap Msgs \subseteq Settled'
        <5>1. server.gone \subseteq draft \cup rejection \cup excused BY DEF GoneAreSettled, Gone
        <5> QED BY <1>k, <5>1 DEF Settled
      <4>4. excused' \subseteq Settled' BY DEF Settled
      <4>5. Own(account, kept.has) \subseteq Msgs BY DEF Own
      <4> QED BY <1>8, <4>1, <4>2, <4>3, <4>4, <4>5 DEF Kept
    <3> QED BY <1>0, <3>1, <3>2, <3>3
  <2> QED BY <1>s, <1>6, <2>1, <2>2, <2>3 DEF Kept
<1> QED BY <1>7, <1>8

\* But for a kill, what an account's newest document or stash has is kept.
LEMMA NewestStays ==
  ASSUME TypeInv, TypeInv', OnlyTyped, RefusedStay, GoneAreSettled, Composing, Clean, [Next]_vars,
         ~ Kill, NEW a \in Accounts
  PROVE  (Newest(a) \cup stash[a]) \cap Msgs \subseteq Kept(a)'
<1> USE DEF storeVars, engineVars, refusedVars
<1>0. /\ doc \in Doc /\ server \in Doc /\ jobs \in Seq(Job) /\ jobs' \in Seq(Job)
      /\ stash \in [Accounts -> SUBSET Msgs] /\ timer \in BOOLEAN /\ (timer => stage = "live")
      /\ (stage # "none" => account \in Accounts)
  BY DEF TypeInv, TypeOK
<1>k. Settled \cap Msgs \subseteq Settled' /\ excused' \subseteq Settled'
  BY RefusedSteps DEF Settled
<1>d. Gone \cap Msgs \subseteq Settled' /\ doc.gone \subseteq Gone /\ server.gone \subseteq Gone
      /\ \A b \in Accounts : row[b].gone \subseteq Gone
  <2>1. Gone \subseteq Settled BY DEF GoneAreSettled, Settled
  <2> QED BY <1>k, <2>1 DEF Gone
\* the newest document, when nothing but the document changes
<1>s. ASSUME UNCHANGED <<jobs, row, stage, account>>, stash[a] \subseteq stash'[a],
             stage = "live" /\ account = a => doc.has \cap Msgs \subseteq doc'.has \cup Settled'
      PROVE  (Newest(a) \cup stash[a]) \cap Msgs \subseteq Kept(a)'
  <2>1. Latest(a)' = Latest(a) BY <1>s DEF Latest
  <2> QED BY <1>s, <2>1 DEF Newest, Kept
\* when the engine is not live before and after
<1>l. ASSUME stage # "live", stage' # "live", stash[a] \subseteq stash'[a],
             Latest(a) \cap Msgs \subseteq Latest(a)' \cup Settled'
      PROVE  (Newest(a) \cup stash[a]) \cap Msgs \subseteq Kept(a)'
  BY <1>l DEF Newest, Kept
\* when it is torn down
<1>c. ASSUME stage # "none", jobs' = TornDown(doc, timer), row' = row, stage' # "live",
             stash[a] \subseteq stash'[a]
      PROVE  (Newest(a) \cup stash[a]) \cap Msgs \subseteq Kept(a)'
  <2>1. (timer => Extended(jobs', Write(doc))) /\ (~ timer => Alike(jobs'))
    BY <1>0, <1>c, TornDownIs
  <2>2. CASE timer
    <3>1. Write(doc).of = account /\ Write(doc).op = "write" /\ Write(doc).doc = doc BY DEF Write
    <3>2. Latest(a)' = IF account = a THEN doc.has ELSE row[a].has
      BY <1>0, <1>c, <2>1, <2>2, <3>1, LatestExtended
    <3>3. account # a => Latest(a) = row[a].has BY <1>0, <2>2, LatestOfOthers
    <3> QED BY <1>0, <1>c, <2>2, <3>2, <3>3 DEF Newest, Kept
  <2>3. CASE ~ timer
    <3>1. Latest(a)' = Latest(a) BY <1>0, <1>c, <2>1, <2>3, LatestAlike
    <3>2. stage = "live" /\ account = a => doc.has \cap Msgs \subseteq Latest(a) \cup Settled
      BY <2>3 DEF Clean
    <3> QED BY <1>c, <1>k, <3>1, <3>2 DEF Newest, Kept
  <2> QED BY <1>0, <2>2, <2>3
<1>1. CASE OpenRoom
  <2>1. Latest(a)' = Latest(a) BY <1>1 DEF OpenRoom, Mount, Latest
  <2> QED BY <1>1, <1>l, <2>1 DEF OpenRoom, Mount
<1>2. CASE CloseRoom BY <1>2, <1>c DEF CloseRoom, Closed, Mount
<1>3. CASE Logout
  <2>1. CASE stage = "none"
    <3>1. UNCHANGED <<jobs, row, stage, stash>> BY <1>3, <2>1 DEF Logout
    <3>2. Latest(a)' = Latest(a) BY <3>1 DEF Latest
    <3> QED BY <1>l, <2>1, <3>1, <3>2
  <2>2. CASE stage # "none" BY <1>3, <1>c, <2>2 DEF Logout, Closed, Mount
  <2> QED BY <2>1, <2>2
<1>4. ASSUME NEW b \in Accounts, Login(b)
      PROVE  (Newest(a) \cup stash[a]) \cap Msgs \subseteq Kept(a)'
  <2>1. stage = "none" BY <1>4 DEF Login, TypeInv, TypeOK
  <2>2. Latest(a)' = Latest(a) BY <1>4 DEF Login, Latest
  <2> QED BY <1>4, <1>l, <2>1, <2>2 DEF Login
\* the load: what the row has is in the document, but for what is deleted
<1>r. ASSUME stage \in {"reading", "migrating"}, jobs = <<>>, UNCHANGED <<row, jobs, stash, account>>,
             stage' = "live", doc' = IF row[account] = NoRow THEN doc ELSE Merge(doc, row[account])
      PROVE  (Newest(a) \cup stash[a]) \cap Msgs \subseteq Kept(a)'
  <2>1. Newest(a) = row[a].has /\ Latest(a)' = row[a].has BY <1>r DEF Newest, Latest
  <2>2. CASE account # a BY <1>r, <2>1, <2>2 DEF Newest, Kept
  <2>3. CASE account = a
    <3>1. CASE row[a] = NoRow BY <1>r, <2>1, <3>1, DocTypes DEF Kept
    <3>2. CASE row[a] # NoRow
      <4>1. doc'.has = (doc.has \cup row[a].has) \ (doc.gone \cup row[a].gone)
        BY <1>r, <2>3, <3>2, DocParts
      <4>2. row[a].has \cap Msgs \subseteq doc'.has \cup Settled' BY <1>d, <4>1
      <4> QED BY <1>r, <2>1, <2>3, <4>2 DEF Newest, Kept
    <3> QED BY <3>1, <3>2
  <2> QED BY <2>2, <2>3
<1>5. CASE ReadRow
  <2>1. CASE row[account] = NoRow /\ legacy # NoRow
    <3>1. /\ jobs' = (IF ShouldAdoptLegacyDoc(legacy.has) THEN <<Adopt(legacy)>> ELSE <<>>)
                       \o <<DropLegacy>>
          /\ stage = "reading" /\ stage' = "migrating" /\ jobs = <<>> /\ UNCHANGED <<row, stash>>
          /\ account \in Accounts
      BY <1>5, <1>0, <2>1 DEF ReadRow
    <3>2. legacy \in Doc BY <2>1 DEF TypeInv, TypeOK, Row
    <3>3. Adopt(legacy) \in Job /\ DropLegacy \in Job /\ DropLegacy.op = "drop"
      BY <3>1, <3>2, JobTypes DEF DropLegacy
    <3>4. jobs'[Len(jobs')] = DropLegacy
      <4>1. CASE ShouldAdoptLegacyDoc(legacy.has)
        <5>1. jobs' = <<Adopt(legacy)>> \o <<DropLegacy>> BY <3>1, <4>1
        <5> QED BY <3>3, <5>1, PairIs
      <4>2. CASE ~ ShouldAdoptLegacyDoc(legacy.has)
        <5>1. jobs' = <<DropLegacy>> BY <3>1, <3>3, <4>2, ConcatEmptySeq
        <5> QED BY <5>1
      <4> QED BY <4>1, <4>2
    <3>5. Latest(a)' = row[a].has BY <3>1, <3>3, <3>4 DEF Latest
    <3>6. Latest(a) = row[a].has BY <3>1 DEF Latest
    <3> QED BY <1>l, <3>1, <3>5, <3>6
  <2>2. CASE ~ (row[account] = NoRow /\ legacy # NoRow) BY <1>5, <1>r, <2>2 DEF ReadRow
  <2> QED BY <2>1, <2>2
<1>6. CASE Migrated BY <1>6, <1>r DEF Migrated
<1>7. CASE ReadFails
  <2>1. Latest(a)' = Latest(a) BY <1>7 DEF ReadFails, Latest
  <2> QED BY <1>7, <1>l, <2>1 DEF ReadFails
<1>8. CASE PersistTimeout
  <2>1. stage = "live" /\ account \in Accounts /\ Write(doc) \in Job
    BY <1>0, <1>8, JobTypes DEF PersistTimeout
  <2>2. Extended(jobs', Write(doc)) BY <1>0, <1>8, <2>1, AppendIs DEF PersistTimeout
  <2>3. Write(doc).of = account /\ Write(doc).op = "write" BY DEF Write
  <2>4. UNCHANGED <<row, stage, account, doc, stash>> BY <1>8 DEF PersistTimeout
  <2>5. a # account => Latest(a)' = row[a].has BY <1>0, <2>2, <2>3, <2>4, LatestExtended
  <2>6. a # account => Latest(a) = row[a].has BY <2>1, LatestOfOthers
  <2> QED BY <2>1, <2>4, <2>5, <2>6 DEF Newest, Kept
<1>9. CASE JobLands \/ JobFails
  <2>1. Latest(a) \cap Msgs \subseteq Latest(a)' \cup excused' BY <1>9, LatestStays
  <2>2. stash' = stash /\ account' = account BY <1>9 DEF JobLands, JobFails
  <2>3. jobs # <<>> BY <1>9 DEF JobLands, JobFails
  <2>4. Head(jobs) = jobs[1] /\ 1 \in DOMAIN jobs BY <1>0, <2>3, TailIs, QueueIndices
  <2>5. CASE stage = "live"
    <3>1. ~ Rebuilds(Head(jobs)) /\ ~ Head(jobs).awaited
      BY <2>4, <2>5 DEF TypeInv, LiveJobs, Rebuilds, Awaiting
    <3>2. stage' = stage /\ doc' = doc BY <1>9, <3>1 DEF JobLands, JobFails
    <3> QED BY <1>k, <2>1, <2>2, <3>2 DEF Newest, Kept
  <2>6. CASE stage # "live"
    <3>1. stage' # "live"
      <4>1. CASE JobFails BY <2>6, <4>1 DEF JobFails
      <4>2. CASE JobLands
        <5>1. CASE Rebuilds(Head(jobs)) BY <4>2, <5>1 DEF JobLands, Mount
        <5>2. CASE ~ Rebuilds(Head(jobs)) BY <2>6, <4>2, <5>2 DEF JobLands
        <5> QED BY <5>1, <5>2
      <4> QED BY <1>9, <4>1, <4>2
    <3> QED BY <1>k, <1>l, <2>1, <2>2, <2>6, <3>1
  <2> QED BY <2>5, <2>6
<1>10. CASE LearnEpoch
  <2>1. CASE stage = "none" BY <1>10, <1>s, <2>1 DEF LearnEpoch
  <2>2. CASE stage # "none" BY <1>10, <1>c, <2>2 DEF LearnEpoch, Ciphered, Mount
  <2> QED BY <2>1, <2>2
<1>11. ASSUME NEW m \in Msgs, Send(m)
       PROVE  (Newest(a) \cup stash[a]) \cap Msgs \subseteq Kept(a)'
  <2>1. doc'.has = doc.has \cup {m} BY <1>0, <1>11, DocParts DEF Send, Items
  <2> QED BY <1>11, <1>s, <2>1 DEF Send
<1>12. CASE Receive
  <2>1. account \in Accounts BY <1>0, <1>12 DEF Receive, TypeInv, Unloaded
  <2>2. PICK merged : merged = Merge(doc, server) OBVIOUS
  <2>3. merged \in Doc /\ merged.has = (doc.has \cup server.has) \ (doc.gone \cup server.gone)
    BY <1>0, <2>2, DocTypes, DocParts
  <2>4. stash[account] \in SUBSET Items BY <1>0, <2>1 DEF Items
  <2>5. doc' = IF synced THEN merged ELSE Adding(merged, stash[account])
    BY <1>12, <2>2 DEF Receive, ReinsertMessages
  <2>6. UNCHANGED <<account, row, jobs, stage>> BY <1>12 DEF Receive
  <2>7. doc.has \cap Msgs \subseteq doc'.has \cup Settled'
    <3>1. (doc.gone \cup server.gone) \cap Msgs \subseteq Settled' BY <1>d
    <3>2. merged.has \subseteq doc'.has BY <2>3, <2>4, <2>5, DocParts
    <3> QED BY <2>3, <3>1, <3>2
  <2>8. CASE synced
    <3>1. stash' = stash BY <1>12, <2>8 DEF Receive, OnSynced
    <3> QED BY <1>s, <2>6, <2>7, <3>1
  <2>9. CASE ~ synced
    <3>1. stash' = [stash EXCEPT ![account] = {}] BY <1>12, <2>9 DEF Receive, OnSynced
    <3>2. CASE a # account BY <1>0, <1>s, <2>6, <2>7, <3>1, <3>2
    <3>3. CASE a = account
      <4>1. stash[a] \subseteq doc'.has BY <2>3, <2>4, <2>5, <2>9, <3>3, DocParts
      <4>2. stage # "live" => stash[a] \subseteq Settled'
        BY <1>12, <1>k, <2>9, <3>3 DEF Receive
      <4>3. Latest(a)' = Latest(a) BY <2>6 DEF Latest
      <4> QED BY <2>6, <2>7, <3>3, <4>1, <4>2, <4>3 DEF Newest, Kept
    <3> QED BY <3>2, <3>3
  <2> QED BY <2>8, <2>9
<1>13. CASE Offer
  <2>1. PICK offer \in Offers : Takes(offer) \/ Refuses(offer) BY <1>13, OfferIs
  <2>2. CASE Takes(offer)
    <3>1. UNCHANGED <<jobs, row, stage, account, stash, doc>>
      BY <1>13, <2>2, OfferIs DEF Takes, Accepted
    <3> QED BY <1>s, <3>1
  <2>3. CASE Refuses(offer) BY <2>3, RefusalKeeps
  <2> QED BY <2>1, <2>2, <2>3
<1>14. CASE ConfirmPlaintext \/ LoadKey \/ Connect \/ Disconnect \/ EnableEpoch \/ ServerLoses
            \/ UNCHANGED vars
  <2>1. UNCHANGED <<jobs, row, stage, account, stash, doc>>
    BY <1>14 DEF ConfirmPlaintext, LoadKey, Connect, Disconnect, EnableEpoch, ServerLoses, vars
  <2> QED BY <1>s, <2>1
<1> QED
  BY <1>1, <1>2, <1>3, <1>4, <1>5, <1>6, <1>7, <1>8, <1>9, <1>10, <1>11, <1>12, <1>13, <1>14 DEF Next

\* What the rows and the writes have was kept, or is now.
LEMMA OldIsKept ==
  ASSUME TypeInv, TypeInv', NewestHasAll, [Next]_vars, NEW a \in Accounts
  PROVE  /\ row'[a].has \cap Msgs \subseteq Kept(a) \cup Kept(a)'
         /\ \A i \in DOMAIN jobs' : jobs'[i].op = "write" /\ jobs'[i].of = a =>
              jobs'[i].doc.has \cap Msgs \subseteq Kept(a)
<1>0. jobs \in Seq(Job) /\ jobs' \in Seq(Job) BY DEF TypeInv, TypeOK
<1>1. row'[a].has \cap Msgs \subseteq Kept(a) \cup Kept(a)'
  <2>1. RowComes(a) BY RowsCome
  <2>2. CASE row'[a] = row[a] BY <2>2 DEF NewestHasAll
  <2>3. CASE row'[a] = NoRow BY <2>3, DocTypes
  <2>4. CASE JobLands /\ 1 \in DOMAIN jobs /\ jobs[1].of = a /\ jobs[1].op = "write" /\ row'[a] = jobs[1].doc
    BY <2>4 DEF NewestHasAll
  <2>5. CASE JobLands /\ 1 \in DOMAIN jobs /\ jobs[1].of = a /\ jobs[1].op = "adopt" /\ row'[a] = jobs[1].doc
    <3>1. jobs # <<>> /\ jobs' = Tail(jobs) BY <2>5 DEF JobLands, Mount
    <3>2. JobFits(1) BY <2>5 DEF TypeInv, JobShape
    <3>3. Len(jobs) = 2 /\ jobs[2].op = "drop" BY <2>5, <3>2 DEF JobFits
    <3>4. stage # "live" BY <2>5 DEF TypeInv, LiveJobs
    <3>5. stage' # "live"
      <4>1. CASE Rebuilds(Head(jobs)) BY <2>5, <4>1 DEF JobLands, Mount
      <4>2. CASE ~ Rebuilds(Head(jobs)) BY <2>5, <3>4, <4>2 DEF JobLands, engineVars
      <4> QED BY <4>1, <4>2
    <3>6. Len(jobs') = 1 /\ jobs'[1] = jobs[2]
      <4>1. Shorter(jobs') BY <3>1, OneLess
      <4>2. 1 \in 1 .. Len(jobs) - 1 BY <3>3
      <4> QED BY <3>3, <4>1, <4>2 DEF Shorter
    <3>7. Latest(a)' = row'[a].has
      <4>1. jobs'[Len(jobs')].op = "drop" BY <3>3, <3>6
      <4> QED BY <4>1 DEF Latest
    <3> QED BY <3>5, <3>7 DEF Newest, Kept
  <2> QED BY <2>1, <2>2, <2>3, <2>4, <2>5 DEF RowComes
<1>2. ASSUME NEW i \in DOMAIN jobs', jobs'[i].op = "write", jobs'[i].of = a
      PROVE  jobs'[i].doc.has \cap Msgs \subseteq Kept(a)
  <2>1. CASE Older(i) BY <1>2, <2>1 DEF Older, NewestHasAll
  <2>2. CASE Newer(i)
    <3>1. a = account BY <1>2, <2>2 DEF Newer
    <3>2. CASE stage = "live" /\ jobs'[i].doc = doc BY <3>1, <3>2 DEF Newest, Kept
    <3>3. ASSUME NEW offer \in Offers, Refuses(offer), jobs'[i].doc = Repaired(offer)
          PROVE  jobs'[i].doc.has \cap Msgs \subseteq Kept(a)
      <4>1. stage = "live" BY <3>3, OfferIs DEF Refuses
      <4>2. Own(account, Plain(offer)) \in SUBSET Items /\ doc \in Doc
        BY DEF Own, Items, TypeInv, TypeOK
      <4>3. Repaired(offer).has \subseteq doc.has BY <4>2, DocParts DEF Repaired
      <4> QED BY <3>1, <3>3, <4>1, <4>3 DEF Newest, Kept
    <3> QED BY <1>2, <2>2, <3>2, <3>3 DEF Newer
  <2> QED BY <2>1, <2>2, JobsCome
<1> QED BY <1>1, <1>2

LEMMA KeptStep ==
  ASSUME TypeInv, TypeInv', FateInv, [Next]_vars
  PROVE  NewestHasAll' /\ Safe'
<1> USE DEF engineVars
<1>0. /\ doc \in Doc /\ typed \subseteq Msgs /\ excused' \subseteq Settled'
      /\ jobs \in Seq(Job) /\ jobs' \in Seq(Job)
  BY DEF TypeInv, TypeOK, Settled
<1>k. Settled \cap Msgs \subseteq Settled' BY RefusedSteps DEF FateInv
<1>1. CASE Kill
  <2>1. stage' = "none" /\ jobs' = <<>> /\ DOMAIN jobs' = {} /\ row' = row /\ legacy' = legacy
    BY <1>1, EmptySeq DEF Kill, Mount, storeVars
  <2>2. \A a \in Accounts : Newest(a)' = row[a].has BY <2>1 DEF Newest, Latest
  <2>3. NewestHasAll' BY <2>1, <2>2 DEF NewestHasAll, Kept
  <2>4. typed' = typed /\ typed \ Stored \subseteq excused' BY <1>1 DEF Kill, sentVars
  <2>5. Stored \subseteq legacy'.has \cup (UNION {Newest(a)' : a \in Accounts})
    BY <2>1, <2>2 DEF Stored
  <2>6. \A a \in Accounts : Newest(a)' \subseteq (UNION {Newest(b) \cup stash[b] : b \in Accounts})'
    OBVIOUS
  <2>7. Safe' BY <1>0, <2>4, <2>5, <2>6 DEF Safe
  <2> QED BY <2>3, <2>7
<1>2. CASE ~ Kill
  <2>1. ASSUME NEW a \in Accounts PROVE Kept(a) \cap Msgs \subseteq Kept(a)'
    <3>1. (Newest(a) \cup stash[a]) \cap Msgs \subseteq Kept(a)' BY <1>2, NewestStays DEF FateInv
    <3> QED BY <1>k, <3>1 DEF Kept
  <2>2. NewestHasAll'
    <3>1. ASSUME NEW a \in Accounts PROVE (row[a].has \cap Msgs \subseteq Kept(a))'
      BY <2>1, OldIsKept DEF FateInv
    <3>2. ASSUME NEW i \in DOMAIN jobs', jobs'[i].op = "write"
          PROVE  (jobs[i].doc.has \cap Msgs \subseteq Kept(jobs[i].of))'
      <4>1. PICK a : a = jobs'[i].of OBVIOUS
      <4>2. a \in Accounts BY <1>0, <4>1, QueueIndices DEF Job
      <4>3. jobs'[i].doc.has \cap Msgs \subseteq Kept(a) BY <3>2, <4>1, <4>2, OldIsKept DEF FateInv
      <4>4. jobs'[i].doc.has \cap Msgs \subseteq Kept(a)' BY <2>1, <4>2, <4>3
      <4> QED BY <4>1, <4>4
    <3> QED BY <3>1, <3>2 DEF NewestHasAll
  <2>3. Safe'
    <3> DEFINE Rest == UNION {Newest(a) \cup stash[a] : a \in Accounts}
    <3>1. \A a \in Accounts : Kept(a)' \subseteq Settled' \cup Rest' BY DEF Kept
    <3> HIDE DEF Rest
    <3>2. \A a \in Accounts : Kept(a) \cap Msgs \subseteq Settled' \cup Rest' BY <2>1, <3>1
    <3>3. Rest \cap Msgs \subseteq Settled' \cup Rest'
      <4> SUFFICES ASSUME NEW m \in Rest \cap Msgs PROVE m \in Settled' \cup Rest' OBVIOUS
      <4>1. PICK a \in Accounts : m \in Newest(a) \cup stash[a] BY DEF Rest
      <4> QED BY <3>2, <4>1 DEF Kept
    <3>4. legacy.has \cap Msgs \subseteq legacy'.has \cup Settled' \cup Rest'
      <4>1. CASE legacy' = legacy BY <4>1
      <4>2. CASE legacy' # legacy
        <5>1. JobLands
          BY <4>2 DEF storeVars, vars, Next, OpenRoom, CloseRoom, Logout, Login, ReadRow, Migrated,
                      ReadFails, PersistTimeout, JobFails, LearnEpoch, ConfirmPlaintext, LoadKey, Send,
                      Connect, Disconnect, Receive, Offer, EnableEpoch, ServerLoses, Kill
        <5>2. Head(jobs).op = "drop" BY <4>2, <5>1 DEF JobLands
        <5>3. (legacy.has \cap Msgs) \ (UNION {row[a].has : a \in Accounts}) \subseteq excused'
          BY <5>1, <5>2 DEF JobLands
        <5>4. \A a \in Accounts : row[a].has \cap Msgs \subseteq Settled' \cup Rest'
          BY <3>2 DEF FateInv, NewestHasAll
        <5> QED BY <1>0, <5>3, <5>4
      <4> QED BY <4>1, <4>2
    <3>5. typed \subseteq Settled' \cup legacy'.has \cup Rest'
      <4>1. typed \subseteq Settled \cup legacy.has \cup Rest BY DEF FateInv, Safe, Rest
      <4> QED BY <1>0, <1>k, <3>3, <3>4, <4>1
    <3>6. ASSUME NEW m \in Msgs, Send(m) PROVE typed' \subseteq Settled' \cup legacy'.has \cup Rest'
      <4>1. typed' = typed \cup {m} /\ stage' = stage /\ account' = account BY <3>6 DEF Send
      <4>2. CASE stage # "live" BY <1>0, <3>5, <3>6, <4>1, <4>2 DEF Send
      <4>3. CASE stage = "live"
        <5>1. m \in doc'.has BY <1>0, <3>6, DocParts DEF Send, Items
        <5>2. account \in Accounts BY <3>6, DeviceAssumption DEF Send
        <5>3. m \in Newest(account)' BY <4>1, <4>3, <5>1 DEF Newest
        <5>4. m \in Rest'
          <6>1. PICK a \in Accounts : a = account BY <5>2
          <6>2. m \in Newest(a)' BY <4>1, <4>3, <5>1, <6>1 DEF Newest
          <6> QED BY <6>2 DEF Rest
        <5> QED BY <3>5, <4>1, <5>4
      <4> QED BY <4>2, <4>3
    <3> QED BY <3>5, <3>6, OnlyGrows DEF Safe, Rest
  <2> QED BY <2>2, <2>3
<1> QED BY <1>1, <1>2

LEMMA CleanStep ==
  ASSUME TypeInv, TypeInv', FateInv, [Next]_vars
  PROVE  Clean'
<1> USE DEF storeVars, engineVars, refusedVars
<1>0. /\ doc \in Doc /\ jobs \in Seq(Job) /\ jobs' \in Seq(Job) /\ (timer => stage = "live")
      /\ (stage # "none" => account \in Accounts) /\ (account' = NoOne => stage' = "none")
      /\ Early /\ Clean
  BY DEF TypeInv, TypeOK, FateInv
<1>k. Settled \cap Msgs \subseteq Settled' /\ excused' \subseteq Settled' /\ excused \subseteq excused'
  BY RefusedSteps, OnlyGrows DEF FateInv, Settled
<1>l. ASSUME stage' # "live" \/ timer' = TRUE PROVE Clean' BY <1>l DEF Clean
<1>s. ASSUME UNCHANGED <<jobs, row, stage, account, doc>>, timer' = timer PROVE Clean'
  <2>1. \A a : Latest(a)' = Latest(a) BY <1>s DEF Latest
  <2> QED BY <1>0, <1>k, <1>s, <2>1 DEF Clean
\* the load: what is not the row's is excused
<1>r. ASSUME stage \in {"reading", "migrating"}, jobs = <<>>, UNCHANGED <<row, jobs, account, timer>>,
             doc' = IF row[account] = NoRow THEN doc ELSE Merge(doc, row[account])
      PROVE  Clean'
  <2>1. Latest(account)' = row[account].has BY <1>r DEF Latest
  <2>2. doc'.has \subseteq doc.has \cup row[account].has BY <1>r, DocParts
  <2>3. doc.has \cap Msgs \subseteq Settled' BY <1>0, <1>k, <1>r DEF Early
  <2> QED BY <1>r, <2>1, <2>2, <2>3 DEF Clean
<1>1. CASE OpenRoom \/ CloseRoom \/ Kill \/ ReadFails
  BY <1>1, <1>l DEF OpenRoom, CloseRoom, Closed, Mount, Kill, ReadFails
<1>2. CASE Logout
  <2>1. stage' = "none"
    <3>1. CASE stage = "none" BY <1>2, <3>1 DEF Logout
    <3>2. CASE stage # "none" BY <1>2, <3>2 DEF Logout, Closed, Mount
    <3> QED BY <3>1, <3>2
  <2> QED BY <1>l, <2>1
<1>3. ASSUME NEW a \in Accounts, Login(a) PROVE Clean'
  <2>1. stage = "none" BY <1>3 DEF Login, TypeInv, TypeOK
  <2> QED BY <1>3, <1>l, <2>1 DEF Login
<1>4. CASE ReadRow
  <2>1. CASE row[account] = NoRow /\ legacy # NoRow BY <1>4, <1>l, <2>1 DEF ReadRow
  <2>2. CASE ~ (row[account] = NoRow /\ legacy # NoRow) BY <1>4, <1>r, <2>2 DEF ReadRow
  <2> QED BY <2>1, <2>2
<1>5. CASE Migrated BY <1>5, <1>r DEF Migrated
<1>6. CASE PersistTimeout
  <2>1. stage = "live" /\ account \in Accounts /\ Write(doc) \in Job
    BY <1>0, <1>6, JobTypes DEF PersistTimeout
  <2>2. Extended(jobs', Write(doc)) BY <1>0, <1>6, <2>1, AppendIs DEF PersistTimeout
  <2>3. Write(doc).of = account /\ Write(doc).op = "write" /\ Write(doc).doc = doc BY DEF Write
  <2>4. row' = row /\ account' = account /\ doc' = doc BY <1>6 DEF PersistTimeout
  <2>5. PICK a \in Accounts : a = account BY <2>1
  <2>6. Latest(a)' = doc.has BY <1>0, <2>2, <2>3, <2>4, <2>5, LatestExtended
  <2> QED BY <2>4, <2>5, <2>6 DEF Clean
<1>7. CASE JobLands \/ JobFails
  <2>1. CASE stage # "live"
    <3>1. stage' # "live"
      <4>1. CASE JobFails BY <2>1, <4>1 DEF JobFails
      <4>2. CASE JobLands
        <5>1. CASE Rebuilds(Head(jobs)) BY <4>2, <5>1 DEF JobLands, Mount
        <5>2. CASE ~ Rebuilds(Head(jobs)) BY <2>1, <4>2, <5>2 DEF JobLands
        <5> QED BY <5>1, <5>2
      <4> QED BY <1>7, <4>1, <4>2
    <3> QED BY <1>l, <3>1
  <2>2. CASE stage = "live"
    <3>0. jobs # <<>> BY <1>7 DEF JobLands, JobFails
    <3>1. Head(jobs) = jobs[1] /\ 1 \in DOMAIN jobs BY <1>0, <3>0, TailIs, QueueIndices
    <3>2. ~ Rebuilds(Head(jobs)) /\ ~ Head(jobs).awaited
      BY <2>2, <3>1 DEF TypeInv, LiveJobs, Rebuilds, Awaiting
    <3>3. UNCHANGED <<stage, doc, timer, account>> BY <1>7, <3>2 DEF JobLands, JobFails
    <3>4. PICK a \in Accounts : a = account BY <1>0, <2>2
    <3>5. Latest(a) \cap Msgs \subseteq Latest(a)' \cup excused' BY <1>7, LatestStays
    <3> QED BY <1>0, <1>k, <3>3, <3>4, <3>5 DEF Clean
  <2> QED BY <2>1, <2>2
<1>8. CASE LearnEpoch
  <2>1. CASE stage = "none" BY <1>8, <1>s, <2>1 DEF LearnEpoch
  <2>2. CASE stage # "none" BY <1>8, <1>l, <2>2 DEF LearnEpoch, Ciphered, Mount
  <2> QED BY <2>1, <2>2
<1>9. ASSUME NEW m \in Msgs, Send(m) PROVE Clean'
  <2>1. stage' # "live" \/ timer' = TRUE BY <1>9 DEF Send, Persists
  <2> QED BY <1>l, <2>1
<1>10. CASE Receive
  <2>1. UNCHANGED <<jobs, row, stage, account>> /\ timer' = (timer \/ (doc' # doc /\ stage = "live"))
    BY <1>10 DEF Receive, Persists
  <2>2. CASE doc' = doc
    <3>1. timer' = timer BY <2>1, <2>2 DEF TypeInv, TypeOK
    <3> QED BY <1>s, <2>1, <2>2, <3>1
  <2>3. CASE doc' # doc
    <3>1. stage' # "live" \/ timer' = TRUE BY <2>1, <2>3
    <3> QED BY <1>l, <3>1
  <2> QED BY <2>2, <2>3
<1>11. CASE Offer
  <2>1. PICK offer \in Offers : Takes(offer) \/ Refuses(offer) BY <1>11, OfferIs
  <2>2. CASE Takes(offer) BY <1>11, <1>s, <2>2, OfferIs DEF Takes, Accepted
  <2>3. CASE Refuses(offer)
    <3>1. stage' # "live" \/ timer' = TRUE
      <4>1. CASE seen BY <2>3, <4>1 DEF Refuses, Rejected
      <4>2. CASE ~ seen BY <2>3, <4>2 DEF Refuses, Rejected, Mount
      <4> QED BY <4>1, <4>2
    <3> QED BY <1>l, <3>1
  <2> QED BY <2>1, <2>2, <2>3
<1>12. CASE ConfirmPlaintext \/ LoadKey \/ Connect \/ Disconnect \/ EnableEpoch \/ ServerLoses
            \/ UNCHANGED vars
  BY <1>12, <1>s DEF ConfirmPlaintext, LoadKey, Connect, Disconnect, EnableEpoch, ServerLoses, vars
<1> QED BY <1>1, <1>2, <1>3, <1>4, <1>5, <1>6, <1>7, <1>8, <1>9, <1>10, <1>11, <1>12 DEF Next

LEMMA FateInit == Init => FateInv
<1> SUFFICES ASSUME Init PROVE FateInv OBVIOUS
<1>1. jobs = <<>> /\ DOMAIN jobs = {} BY EmptySeq DEF Init
<1>2. /\ row = [a \in Accounts |-> NoRow] /\ stash = [a \in Accounts |-> {}]
      /\ legacy.gone = {} /\ typed = legacy.has \cap Msgs /\ stage = "none" /\ doc = EmptyDoc
      /\ server.gone = {} /\ draft = {} /\ rejection = {} /\ claimed = {} /\ excused = {}
  BY DocTypes DEF Init
<1>3. Gone = {} BY <1>1, <1>2, DocTypes DEF Gone
<1>4. RefusedStay /\ GoneAreSettled /\ Composing
  BY <1>2, <1>3 DEF Refused, RefusedStay, GoneAreSettled, Composing
<1>5. Early /\ Clean BY <1>2 DEF Early, Clean
<1>6. NewestHasAll BY <1>1, <1>2, DocTypes DEF NewestHasAll
<1>7. Safe BY <1>2 DEF Safe
<1> QED BY <1>4, <1>5, <1>6, <1>7, OnlyTypedInit DEF FateInv

LEMMA FateStep == TypeInv /\ TypeInv' /\ FateInv /\ [Next]_vars => FateInv'
<1> SUFFICES ASSUME TypeInv, TypeInv', FateInv, [Next]_vars PROVE FateInv' OBVIOUS
<1> USE DEF FateInv
<1>1. OnlyTyped' BY OnlyTypedStep
<1>2. RefusedStay' /\ GoneAreSettled' /\ Composing' BY RefusedSteps
<1>3. Early' BY EarlyStep
<1>4. NewestHasAll' /\ Safe' BY KeptStep
<1>5. Clean' BY CleanStep
<1> QED BY <1>1, <1>2, <1>3, <1>4, <1>5

-----------------------------------------------------------------------------
(* The promise: the device implements MessageFate. *)

\* What becomes of a message, read off the state; only an excused one is lost.
FateIs(m) ==
  /\ Fate(m) = "unsent" <=> m \notin typed
  /\ Fate(m) = "served" <=> m \in server.has
  /\ Fate(m) = "returned" <=> m \in draft \cup rejection
  /\ Fate(m) \in {"unsent", "served", "returned", "held", "lost"}
  /\ Fate(m) = "lost" => m \in excused

LEMMA FatesAre == TypeInv /\ FateInv => \A m \in Msgs : FateIs(m)
<1> SUFFICES ASSUME TypeInv, FateInv, NEW m \in Msgs PROVE FateIs(m) OBVIOUS
<1>1. /\ server.has \cap Msgs \subseteq typed
      /\ draft \cup rejection \subseteq typed /\ (draft \cup rejection) \cap server.has = {}
  BY DEF FateInv, OnlyTyped, RefusedStay, Refused
<1>2. CASE m \notin typed
  <2>1. Fate(m) = "unsent" BY <1>1, <1>2 DEF Fate
  <2> QED BY <1>1, <1>2, <2>1 DEF FateIs
<1>3. CASE m \in server.has
  <2>1. Fate(m) = "served" BY <1>1, <1>3 DEF Fate
  <2> QED BY <1>1, <1>3, <2>1 DEF FateIs
<1>4. CASE m \in draft \cup rejection
  <2>1. Fate(m) = "returned" BY <1>1, <1>4 DEF Fate
  <2> QED BY <1>1, <1>4, <2>1 DEF FateIs
<1>5. CASE m \in typed \ (server.has \cup draft \cup rejection)
  <2>1. Fate(m) = IF Held(m) THEN "held" ELSE "lost" BY <1>5 DEF Fate
  <2>2. m \notin excused => Held(m)
    <3> SUFFICES ASSUME m \notin excused PROVE Held(m) OBVIOUS
    <3>1. m \in legacy.has \cup (UNION {Newest(a) \cup stash[a] : a \in Accounts})
      BY <1>5 DEF FateInv, Safe, Settled
    <3>2. CASE m \in legacy.has BY <3>2 DEF Held, Stored
    <3>3. ASSUME NEW a \in Accounts, m \in stash[a] PROVE Held(m) BY <3>3 DEF Held
    <3>4. ASSUME NEW a \in Accounts, m \in Latest(a) PROVE Held(m)
      <4>1. CASE m \in row[a].has BY <4>1 DEF Held, Stored
      <4>2. CASE jobs # <<>> /\ m \in jobs[Len(jobs)].doc.has
        <5>1. Len(jobs) \in DOMAIN jobs BY <4>2, QueueIndices DEF TypeInv, TypeOK
        <5> QED BY <4>2, <5>1 DEF Held
      <4> QED BY <3>4, <4>1, <4>2 DEF Latest
    <3>5. ASSUME NEW a \in Accounts, m \in Newest(a) PROVE Held(m)
      BY <3>4, <3>5 DEF Newest, Held
    <3> QED BY <3>1, <3>2, <3>3, <3>5
  <2> QED BY <1>5, <2>1, <2>2 DEF FateIs
<1> QED BY <1>2, <1>3, <1>4, <1>5

LEMMA PromiseInit == Init => Promise!Init
<1> SUFFICES ASSUME Init PROVE Promise!Init OBVIOUS
<1>1. excused = {} /\ server.has \cap Msgs = {} /\ draft = {} /\ rejection = {}
      /\ typed = legacy.has \cap Msgs
  BY DeviceAssumption DEF Init
<1>2. ASSUME NEW m \in Msgs PROVE Fate(m) \in {"unsent", "held"}
  <2>1. CASE m \notin typed BY <1>1, <2>1 DEF Fate
  <2>2. CASE m \in typed
    <3>1. Held(m) BY <1>1, <2>2 DEF Held, Stored
    <3>2. m \in typed \ (server.has \cup draft \cup rejection) BY <1>1, <2>2
    <3> QED BY <3>1, <3>2 DEF Fate
  <2> QED BY <2>1, <2>2
<1> QED BY <1>1, <1>2 DEF Promise!Init

LEMMA PromiseStep ==
  TypeInv /\ TypeInv' /\ FateInv /\ FateInv' /\ (\A m \in Msgs : FateIs(m)) /\ (\A m \in Msgs : FateIs(m))'
    /\ [Next]_vars => Promise!Next
<1> SUFFICES ASSUME TypeInv, TypeInv', FateInv, FateInv', \A m \in Msgs : FateIs(m),
                    (\A m \in Msgs : FateIs(m))', [Next]_vars
             PROVE  Promise!Next
  OBVIOUS
<1>0. typed \subseteq typed' /\ excused \subseteq excused' /\ excused' \subseteq Msgs
  BY OnlyGrows DEF TypeInv, TypeOK
<1>1. /\ server.has \cap Msgs \subseteq server'.has \cup excused'
      /\ draft \cup rejection \subseteq draft' \cup rejection' \cup excused'
  BY RefusedSteps DEF FateInv
<1>2. ASSUME NEW m \in Msgs
      PROVE  /\ Fate(m)' \in Promise!Fates
             /\ \/ Fate(m)' = Fate(m)
                \/ <<Fate(m), Fate(m)'>> \in Promise!Onwards
                \/ m \in excused'
  <2>1. FateIs(m) /\ FateIs(m)' OBVIOUS
  <2>2. Fate(m)' \in Promise!Fates BY <2>1 DEF FateIs, Promise!Fates
  <2>3. CASE m \notin typed
    <3>1. Fate(m) = "unsent" BY <2>1, <2>3 DEF FateIs
    <3>2. CASE m \notin typed' BY <2>1, <2>2, <3>1, <3>2 DEF FateIs
    <3>3. CASE m \in typed'
      <4>1. \E n \in Msgs : Send(n) BY <2>3, <3>3, OnlyGrows
      <4>2. server' = server /\ draft' = {} /\ rejection' = {}
        BY <4>1 DEF Send, SentOn, serverVars
      <4>3. m \notin server'.has \cup draft' \cup rejection' BY <2>3, <4>2 DEF FateInv, OnlyTyped
      <4>4. Fate(m)' \in {"held", "lost"} BY <2>1, <3>3, <4>3 DEF FateIs
      <4> QED BY <2>1, <2>2, <3>1, <4>4 DEF FateIs, Promise!Onwards
    <3> QED BY <2>2, <3>2, <3>3
  <2>4. CASE m \in server.has
    <3>1. Fate(m) = "served" BY <2>1, <2>4 DEF FateIs
    <3>2. m \in server'.has \/ m \in excused' BY <1>1, <2>4
    <3> QED BY <2>1, <2>2, <3>1, <3>2 DEF FateIs
  <2>5. CASE m \in draft \cup rejection
    <3>1. Fate(m) = "returned" BY <2>1, <2>5 DEF FateIs
    <3>2. m \in draft' \cup rejection' \/ m \in excused' BY <1>1, <2>5
    <3> QED BY <2>1, <2>2, <3>1, <3>2 DEF FateIs
  <2>6. CASE m \in typed \ (server.has \cup draft \cup rejection)
    <3>1. Fate(m) \in {"held", "lost"} BY <2>1, <2>6 DEF FateIs
    <3>2. Fate(m)' # "unsent" BY <1>0, <2>1, <2>6 DEF FateIs
    <3>3. Fate(m)' = "lost" => m \in excused' BY <2>1 DEF FateIs
    <3>4. Fate(m) = "lost" => m \in excused' BY <1>0, <2>1 DEF FateIs
    <3>5. Fate(m)' \in {"served", "returned", "held", "lost"} BY <2>1, <3>2 DEF FateIs
    <3> QED BY <2>2, <3>1, <3>3, <3>4, <3>5 DEF Promise!Onwards
  <2> QED BY <2>3, <2>4, <2>5, <2>6
<1> QED BY <1>0, <1>2 DEF Promise!Next, Promise!Moves

(***************************************************************************)
(* No message the user has sent is lost, but for what the comment at       *)
(* KeepsItsPromise excuses: DeviceStore implements MessageFate for any     *)
(* accounts, messages and bounds, however storage calls, the teardown and  *)
(* rebuilding of engines, refusals, sign-outs and kills interleave.        *)
(***************************************************************************)
THEOREM PromiseIsKept == Spec => KeepsItsPromise
<1>1. Init => TypeInv /\ FateInv BY DeviceTypeInit, FateInit
<1>2. TypeInv /\ FateInv /\ [Next]_vars => TypeInv' /\ FateInv'
  BY DeviceTypeStep, FateStep DEF FateInv
<1>3. Spec => [](TypeInv /\ FateInv) BY <1>1, <1>2, PTL DEF Spec
<1>4. TypeInv /\ FateInv => \A m \in Msgs : FateIs(m) BY FatesAre
<1>5. Init => Promise!Init BY PromiseInit
<1>6. TypeInv /\ TypeInv' /\ FateInv /\ FateInv' /\ (\A m \in Msgs : FateIs(m))
        /\ (\A m \in Msgs : FateIs(m))' /\ [Next]_vars
        => [Promise!Next]_<<[m \in Msgs |-> Fate(m)], excused>>
  BY PromiseStep
<1>7. Spec => Promise!Spec BY <1>3, <1>4, <1>5, <1>6, PTL DEF Spec, Promise!Spec
<1> QED BY <1>7 DEF KeepsItsPromise
=============================================================================

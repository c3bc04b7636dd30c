----------------------------- MODULE DeviceStore -----------------------------
(***************************************************************************)
(* One device and one room: the engine useSync mounts, the document's row  *)
(* in SQLite (SQLitePersistence), the server's refusals and what becomes   *)
(* of the refused text (chat store, Composer).                             *)
(*                                                                         *)
(* Accounts take turns on the device.  The rows are per account; a row     *)
(* from before accounts were told apart, the legacy one, may be left over. *)
(* SQLite runs the calls it is given one after another, so a read waits    *)
(* for all writes issued before it.  Sync is RoomSync's subject: here an   *)
(* update is accepted or refused in one step, and the rejection is handled *)
(* in it.  A message is plaintext or an envelope, and only plaintext is    *)
(* refused, once the room is encrypted.  The room is not 'default'.        *)
(***************************************************************************)
EXTENDS Naturals, Sequences

CONSTANTS
  Accounts,     \* who signs in on this device
  Msgs,         \* the messages they may send
  Author,       \* the account that may send each
  Foreign,      \* plaintext of members on other devices, sent before the epoch
  MaxLogouts, \* bound: times the user signs out
  MaxFaults,  \* bound: storage calls that fail, kills, and losses of the server
  MaxJobs     \* bound: storage calls under way when a timer fires

ASSUME DeviceAssumption ==
  /\ Author \in [Msgs -> Accounts]
  /\ Msgs \cap Foreign = {}
  /\ {MaxLogouts, MaxFaults, MaxJobs} \subseteq Nat

VARIABLES
  account,    \* who is signed in, or NoOne
  row,        \* the stored document of each account, or NoRow
  legacy,     \* the one under the key without an account
  jobs,       \* the storage calls under way
  stage,      \* of the mounted engine, "none" without one
  doc,        \* its document
  timer,      \* persistTimer is armed
  conn,       \* its provider is connected
  synced,     \* its provider has had a step2
  seen,       \* the cached summary has an epoch
  sticky,     \* the persisted sign that the room was ever encrypted
  confirmed,  \* this visit's refresh says plaintext
  cipher,     \* of useE2eeCipher: "none", "waiting" for its key, or "keyed"
  entry,      \* roomCryptoByRoom has the room
  stash,      \* reinsertStash of each account
  claimed,    \* restoredMessageIds
  rejection,  \* the texts in e2eeRejectionByRoom
  draft,      \* the refused texts in the composer
  server,     \* the server's document
  epoch,      \* the server's room is encrypted
  \* history
  typed, envelope,            \* the messages sent, and those encrypted
  accepted,                   \* the messages the server ever had
  times,                      \* how often a text was put back in this session
  excused,                    \* see MessageFate
  logouts, faults             \* bounded by the Max constants

storeVars   == <<row, legacy>>
engineVars  == <<jobs, stage, doc, timer, conn, synced>>
gateVars    == <<seen, sticky, confirmed, cipher, entry>>
refusedVars == <<stash, claimed, rejection, draft, times>>
serverVars  == <<server, epoch, accepted>>
sentVars    == <<typed, envelope>>
vars == <<account, storeVars, engineVars, gateVars, refusedVars, serverVars,
          sentVars, excused, logouts, faults>>

NoOne == "no one"
Items == Msgs \cup Foreign

\* A document: the items it shows and those it has deleted.
Doc      == [has : SUBSET Items, gone : SUBSET Items]
EmptyDoc == [has |-> {}, gone |-> {}]
NoRow    == [has |-> {}, gone |-> {}, none |-> TRUE]
Row      == Doc \cup {NoRow}

Merge(d, e) == [has  |-> (d.has \cup e.has) \ (d.gone \cup e.gone),
                gone |-> d.gone \cup e.gone]
Adding(d, items)   == [d EXCEPT !.has = @ \cup items]
Removing(d, items) == [has |-> d.has \ items, gone |-> d.gone \cup (d.has \cap items)]

\* What useSync would put back into a fresh document.
Own(who, items) == {m \in items \cap Msgs : Author[m] = who}
Plain(items)    == items \ envelope

\* A storage call; awaited tells whether its engine still waits for it.
Job == [op : {"write", "adopt", "drop", "remove"}, of : Accounts, doc : Doc, awaited : BOOLEAN]
Write(d)     == [op |-> "write", of |-> account, doc |-> d, awaited |-> FALSE]
Adopt(d)     == [op |-> "adopt", of |-> account, doc |-> d, awaited |-> TRUE]
DropLegacy   == [op |-> "drop", of |-> account, doc |-> EmptyDoc, awaited |-> TRUE]
Remove(wait) == [op |-> "remove", of |-> account, doc |-> EmptyDoc, awaited |-> wait]

Init ==
  /\ account \in Accounts
  /\ row = [a \in Accounts |-> NoRow]
  /\ epoch \in BOOLEAN
  /\ legacy \in {NoRow} \cup [has : SUBSET Items, gone : {{}}]
  /\ typed = legacy.has \cap Msgs
  /\ envelope \in IF epoch THEN SUBSET typed ELSE {{}}
  /\ jobs = <<>> /\ stage = "none" /\ doc = EmptyDoc
  /\ timer = FALSE /\ conn = FALSE /\ synced = FALSE
  /\ seen = FALSE /\ sticky = FALSE /\ confirmed = FALSE /\ cipher = "none" /\ entry = FALSE
  /\ stash = [a \in Accounts |-> {}] /\ claimed = {} /\ rejection = {} /\ draft = {}
  /\ server = [has |-> Foreign, gone |-> {}] /\ accepted = {}
  /\ times = [m \in Msgs |-> 0] /\ excused = {}
  /\ logouts = 0 /\ faults = 0

-----------------------------------------------------------------------------
(* The effect of useSync: an engine is mounted and torn down.               *)

\* Mutant: a torn-down engine does not flush its timer.
NotFlushed(d, armed) == <<>>

\* persistence.destroy(): a pending write is issued at once.
Flush(d, armed) == IF armed THEN <<Write(d)>> ELSE <<>>

\* `cancelled`: nothing waits for what the old engine began.
Disowned(js) == [i \in DOMAIN js |-> [js[i] EXCEPT !.awaited = FALSE]]

\* The calls under way once an engine with document d is torn down.
TornDown(d, armed) == Disowned(jobs) \o Flush(d, armed)

Mount(js, st) ==
  /\ jobs' = js /\ stage' = st
  /\ doc' = EmptyDoc /\ timer' = FALSE /\ conn' = FALSE /\ synced' = FALSE

\* The room screen opens; the composer takes the refused text that is noted.
OpenRoom ==
  /\ account # NoOne /\ stage = "none"
  /\ Mount(jobs, "reading")
  /\ confirmed' = FALSE
  /\ cipher' = IF seen THEN "waiting" ELSE "none"
  /\ entry' = seen
  /\ draft' = rejection
  /\ UNCHANGED <<account, storeVars, seen, sticky, stash, claimed, rejection, times,
                 serverVars, sentVars, excused, logouts, faults>>

Closed ==
  /\ Mount(TornDown(doc, timer), "none")
  /\ confirmed' = FALSE /\ cipher' = "none" /\ entry' = FALSE
  /\ draft' = {}

\* It closes: the draft goes, a noted rejection stays.
CloseRoom ==
  /\ stage # "none"
  /\ Closed
  /\ excused' = excused \cup (draft \ rejection)
  /\ UNCHANGED <<account, storeVars, seen, sticky, stash, claimed, rejection, times,
                 serverVars, sentVars, logouts, faults>>

\* Every room closes and clearAllE2eeRejections forgets the refused texts.
Logout ==
  /\ account # NoOne /\ logouts < MaxLogouts
  /\ logouts' = logouts + 1
  /\ account' = NoOne
  /\ IF stage = "none" THEN UNCHANGED <<engineVars, confirmed, cipher, entry, draft>> ELSE Closed
  /\ claimed' = {} /\ rejection' = {} /\ times' = [m \in Msgs |-> 0]
  /\ excused' = excused \cup draft \cup rejection
  /\ UNCHANGED <<storeVars, seen, sticky, stash, serverVars, sentVars, faults>>

Login(a) ==
  /\ account = NoOne
  /\ account' = a
  /\ UNCHANGED <<storeVars, engineVars, gateVars, refusedVars, serverVars, sentVars,
                 excused, logouts, faults>>

-----------------------------------------------------------------------------
(* SQLitePersistence: load, debounced writes, discard.                      *)

\* Mutant: whatever the legacy document holds.
AnyLegacy(items) == TRUE

\* shouldAdoptLegacyDoc.
ShouldAdoptLegacyDoc(items) ==
  \A m \in items : m \in envelope \/ (m \in Msgs /\ Author[m] = account)

\* load(): the row is applied, or a legacy document is looked at first.
ReadRow ==
  /\ stage = "reading" /\ jobs = <<>>
  /\ IF row[account] = NoRow /\ legacy # NoRow
     THEN /\ jobs' = (IF ShouldAdoptLegacyDoc(legacy.has) THEN <<Adopt(legacy)>> ELSE <<>>)
                       \o <<DropLegacy>>
          /\ stage' = "migrating"
          /\ doc' = doc
     ELSE /\ jobs' = jobs
          /\ stage' = "live"
          /\ doc' = IF row[account] = NoRow THEN doc ELSE Merge(doc, row[account])
  /\ UNCHANGED <<account, storeVars, timer, conn, synced, gateVars, refusedVars, serverVars,
                 sentVars, excused, logouts, faults>>

\* migrateLegacy() has returned.
Migrated ==
  /\ stage = "migrating" /\ jobs = <<>>
  /\ stage' = "live"
  /\ doc' = IF row[account] = NoRow THEN doc ELSE Merge(doc, row[account])
  /\ UNCHANGED <<account, storeVars, jobs, timer, conn, synced, gateVars, refusedVars,
                 serverVars, sentVars, excused, logouts, faults>>

\* getItem throws: load() is never tried again by this engine.
ReadFails ==
  /\ stage = "reading" /\ jobs = <<>> /\ faults < MaxFaults
  /\ faults' = faults + 1
  /\ stage' = "stuck"
  /\ UNCHANGED <<account, storeVars, jobs, doc, timer, conn, synced, gateVars, refusedVars,
                 serverVars, sentVars, excused, logouts>>

\* Mutant: the document is listened to from the start.
FromTheStart == TRUE

\* The update listener is attached after the load, and taken off by discard().
Persists == stage = "live"

PersistTimeout ==
  /\ timer /\ Len(jobs) < MaxJobs
  /\ timer' = FALSE
  /\ jobs' = Append(jobs, Write(doc))
  /\ UNCHANGED <<account, storeVars, stage, doc, conn, synced, gateVars, refusedVars,
                 serverVars, sentVars, excused, logouts, faults>>

\* Mutant: the engine is not rebuilt once its document is gone.
NeverRebuilds(job) == FALSE

\* The discard is through and its engine still mounted: docGeneration.
Rebuilds(job) == job.op = "remove" /\ job.awaited

\* The first storage call lands.  A rebuild for a new docGeneration tears the
\* engine down, and with it the entry in roomCryptoByRoom, which nothing puts
\* back: the cipher has not changed.
JobLands ==
  /\ jobs # <<>>
  /\ LET job == Head(jobs) IN
     /\ row' = CASE job.op \in {"write", "adopt"} -> [row EXCEPT ![job.of] = job.doc]
                 [] job.op = "remove"             -> [row EXCEPT ![job.of] = NoRow]
                 [] OTHER                         -> row
     /\ legacy' = IF job.op = "drop" THEN NoRow ELSE legacy
     /\ excused' = IF job.op = "drop"
                   THEN excused \cup ((legacy.has \cap Msgs) \ (UNION {row[a].has : a \in Accounts}))
                   ELSE excused
     /\ IF Rebuilds(job)
        THEN Mount(Tail(jobs), "reading") /\ entry' = FALSE
        ELSE /\ jobs' = Tail(jobs)
             /\ UNCHANGED <<stage, doc, timer, conn, synced, entry>>
  /\ UNCHANGED <<account, seen, sticky, confirmed, cipher, refusedVars, serverVars, sentVars,
                 logouts, faults>>

\* It fails.  A write is left to the next one; a failed adoption is not followed
\* by the removal; an engine waiting for any other call waits for ever.
JobFails ==
  /\ jobs # <<>> /\ faults < MaxFaults
  /\ faults' = faults + 1
  /\ LET job == Head(jobs) IN
     /\ jobs' = IF job.op = "adopt" THEN Tail(Tail(jobs)) ELSE Tail(jobs)
     /\ stage' = IF job.awaited THEN "stuck" ELSE stage
     /\ excused' = IF job.op = "write"
                   THEN excused \cup ((job.doc.has \cap Msgs) \ row[job.of].has)
                   ELSE excused
  /\ UNCHANGED <<account, storeVars, doc, timer, conn, synced, gateVars, refusedVars,
                 serverVars, sentVars, logouts>>

-----------------------------------------------------------------------------
(* What the device knows of the room's encryption (RoomRefresh in short).   *)

\* setRoomCipher: the room's entry in the chat store is made anew.
SetRoomCipher == entry' = TRUE

\* useE2eeCipher has a new cipher: the engine is rebuilt with it, from the row
\* its predecessor's document d is flushed to.
Ciphered(d, armed) ==
  /\ cipher' = "waiting" /\ SetRoomCipher
  /\ Mount(TornDown(d, armed), "reading")

\* A list, a refresh or a frame has the epoch.
LearnEpoch ==
  /\ epoch /\ ~seen
  /\ seen' = TRUE /\ sticky' = TRUE
  /\ IF stage = "none" THEN UNCHANGED <<engineVars, cipher, entry>> ELSE Ciphered(doc, timer)
  /\ UNCHANGED <<account, storeVars, confirmed, refusedVars, serverVars, sentVars, excused,
                 logouts, faults>>

\* The refresh says so, or the device is offline and knows no better.
ConfirmPlaintext ==
  /\ stage # "none" /\ ~confirmed /\ ~seen /\ ~sticky
  /\ epoch => ~conn
  /\ confirmed' = TRUE
  /\ UNCHANGED <<account, storeVars, engineVars, seen, sticky, cipher, entry, refusedVars,
                 serverVars, sentVars, excused, logouts, faults>>

\* fetchAndLoadMyGrants has the epoch's key.
LoadKey ==
  /\ cipher = "waiting"
  /\ cipher' = "keyed"
  /\ UNCHANGED <<account, storeVars, engineVars, seen, sticky, confirmed, entry, refusedVars,
                 serverVars, sentVars, excused, logouts, faults>>

\* useRoomE2eeState.
RoomE2eeState == IF seen \/ sticky THEN "e2ee" ELSE IF confirmed THEN "plaintext" ELSE "unknown"

\* isComposerReady.
ComposerReady == \/ RoomE2eeState = "plaintext"
                 \/ RoomE2eeState = "e2ee" /\ entry /\ cipher = "keyed"

-----------------------------------------------------------------------------
(* Sending and syncing.                                                     *)

\* Composer.handleSend: all that is in the composer is sent.
SentOn == draft' = {}

\* LibsodiumContentCipher.encrypt throws while it holds no key of the epoch.
Encrypts == cipher = "keyed"

\* ChatScreen.handleSend: the noted rejection is cleared.  An engine that has
\* not loaded, or that is refused, neither stores nor sends what is typed.
Send(m) ==
  /\ stage # "none" /\ m \notin typed /\ Author[m] = account
  /\ ComposerReady /\ (cipher = "none" \/ Encrypts)
  /\ typed' = typed \cup {m}
  /\ envelope' = IF Encrypts THEN envelope \cup {m} ELSE envelope
  /\ doc' = Adding(doc, {m})
  /\ timer' = (timer \/ Persists)
  /\ SentOn
  /\ rejection' = {}
  /\ excused' = excused \cup draft \cup rejection
                  \cup (IF stage = "live" THEN {} ELSE {m})
  /\ UNCHANGED <<account, storeVars, jobs, stage, conn, synced, gateVars, stash, claimed,
                 times, serverVars, logouts, faults>>

\* The provider is there once the document is loaded.
Connect ==
  /\ stage \in {"live", "refused"} /\ ~conn
  /\ conn' = TRUE
  /\ UNCHANGED <<account, storeVars, jobs, stage, doc, timer, synced, gateVars, refusedVars,
                 serverVars, sentVars, excused, logouts, faults>>

Disconnect ==
  /\ conn
  /\ conn' = FALSE
  /\ UNCHANGED <<account, storeVars, jobs, stage, doc, timer, synced, gateVars, refusedVars,
                 serverVars, sentVars, excused, logouts, faults>>

\* Mutant: what was stashed is not put back.
ForgetsStash(d, items) == d

\* reinsertMessages: the messages whose id the document does not have.
ReinsertMessages(d, items) == Adding(d, items)

\* onSynced, once for each provider.
OnSynced ==
  /\ synced' = TRUE
  /\ stash' = IF synced THEN stash ELSE [stash EXCEPT ![account] = {}]

\* The server's state arrives.  A refused document
\* takes the stash like any other, and is then thrown away.
Receive ==
  /\ conn
  /\ LET merged == Merge(doc, server)
         got == IF synced THEN merged ELSE ReinsertMessages(merged, stash[account])
     IN  /\ got # doc \/ ~synced
         /\ doc' = got
         /\ timer' = (timer \/ (got # doc /\ Persists))
  /\ OnSynced
  /\ excused' = IF synced \/ stage = "live" THEN excused ELSE excused \cup stash[account]
  /\ UNCHANGED <<account, storeVars, jobs, stage, conn, gateVars, claimed, rejection, draft,
                 times, serverVars, sentVars, logouts, faults>>

Unserved == doc.has \ (server.has \cup server.gone)

\* A step2 with all the server lacks, or one message's own update.
Offers == {Unserved} \cup {{m} : m \in Own(account, Unserved)}

Accepted(offer) ==
  /\ server' = Merge(server, [has |-> offer, gone |-> doc.gone])
  /\ accepted' = accepted \cup (offer \cap Msgs)
  /\ UNCHANGED <<engineVars, gateVars, refusedVars, excused>>

\* Mutant: every refused message is fresh.
AlwaysFresh(ours) == ours

\* claimRestoredMessages: those not restored before.
Fresh(ours) == ours \ claimed

\* rejectedDraftText: only plaintext is refused, so all of it can be shown.
RejectedDraftText(ours) == Fresh(ours)

\* draftAfterRestore: appended to what is there.
DraftAfterRestore(texts) == draft \cup texts

\* onE2eeRejected: the text noted, if any of it is fresh, goes to the composer.
Returned(texts) ==
  /\ rejection' = IF texts = {} THEN rejection ELSE texts
  /\ draft' = DraftAfterRestore(texts)
  /\ times' = [m \in Msgs |-> IF m \in texts THEN times[m] + 1 ELSE times[m]]
  /\ UNCHANGED <<stash, excused>>

\* onUnrecoverableE2eeRejection: own envelopes of the document are stashed.  The
\* note it leaves, without a text, replaces that of onE2eeRejected for the same
\* frame before the composer has seen it.
Unrecoverable(texts, kept) ==
  /\ stash' = [stash EXCEPT ![account] = @ \cup (Own(account, kept.has) \cap envelope)]
  /\ rejection' = {}
  /\ excused' = excused \cup texts \cup (rejection \ draft)
                  \cup ((kept.has \cap Msgs) \ Own(account, kept.has))
  /\ UNCHANGED <<draft, times>>

\* The provider retracts what the server named; the refusal is repaired if all
\* of that was ours.  If not, the row is removed, to be built anew.  A room now
\* known to be encrypted has its engine rebuilt anyhow, for the cipher.
Rejected(offer) ==
  LET named    == Plain(offer)
      ours     == Own(account, named)
      repaired == named \subseteq ours
      texts    == RejectedDraftText(ours)
      kept     == Removing(doc, ours)
  IN  /\ seen' = TRUE /\ sticky' = TRUE
      /\ claimed' = claimed \cup ours
      /\ IF repaired THEN Returned(texts) ELSE Unrecoverable(texts, kept)
      /\ IF ~seen
         THEN /\ cipher' = "waiting" /\ SetRoomCipher
              /\ Mount(TornDown(kept, repaired)
                         \o (IF repaired THEN <<>> ELSE <<Remove(FALSE)>>), "reading")
         ELSE /\ doc' = kept
              /\ timer' = repaired
              /\ stage' = IF repaired THEN stage ELSE "refused"
              /\ jobs' = IF repaired THEN jobs ELSE Append(jobs, Remove(TRUE))
              /\ UNCHANGED <<conn, synced, cipher, entry>>
      /\ UNCHANGED <<confirmed, server, accepted>>

\* The gate refuses an update that holds plaintext.
Offer ==
  /\ stage = "live" /\ conn
  /\ \E offer \in Offers :
       /\ offer # {} \/ ~(doc.gone \subseteq server.gone)
       /\ IF epoch /\ Plain(offer) # {} THEN Rejected(offer) ELSE Accepted(offer)
  /\ UNCHANGED <<account, storeVars, epoch, sentVars, logouts, faults>>

-----------------------------------------------------------------------------
(* The rest of the world.                                                   *)

EnableEpoch ==
  /\ ~epoch
  /\ epoch' = TRUE
  /\ UNCHANGED <<account, storeVars, engineVars, gateVars, refusedVars, server, accepted,
                 sentVars, excused, logouts, faults>>

\* The server restarts from a snapshot older than what it had accepted.
ServerLoses ==
  /\ faults < MaxFaults
  /\ faults' = faults + 1
  /\ \E gap \in (SUBSET server.has) \ {{}} :
       /\ server' = [server EXCEPT !.has = @ \ gap]
       /\ excused' = excused \cup (gap \cap Msgs)
  /\ conn' = FALSE
  /\ UNCHANGED <<account, storeVars, jobs, stage, doc, timer, synced, gateVars, refusedVars,
                 epoch, accepted, sentVars, logouts>>

\* What the device has stored: what a killed app comes back with.
Stored == (UNION {row[a].has : a \in Accounts}) \cup legacy.has

\* The app is killed.  The token, the rows and the sign are what is left.
Kill ==
  /\ faults < MaxFaults
  /\ faults' = faults + 1
  /\ Mount(<<>>, "none")
  /\ seen' = FALSE /\ confirmed' = FALSE /\ cipher' = "none" /\ entry' = FALSE
  /\ stash' = [a \in Accounts |-> {}]
  /\ claimed' = {} /\ rejection' = {} /\ draft' = {} /\ times' = [m \in Msgs |-> 0]
  /\ excused' = excused \cup (typed \ Stored) \cup draft \cup rejection
  /\ UNCHANGED <<account, storeVars, sticky, serverVars, sentVars, logouts>>

-----------------------------------------------------------------------------
Next ==
  \/ OpenRoom \/ CloseRoom \/ Logout
  \/ \E a \in Accounts : Login(a)
  \/ ReadRow \/ Migrated \/ ReadFails
  \/ PersistTimeout \/ JobLands \/ JobFails
  \/ LearnEpoch \/ ConfirmPlaintext \/ LoadKey
  \/ \E m \in Msgs : Send(m)
  \/ Connect \/ Disconnect \/ Receive \/ Offer
  \/ EnableEpoch \/ ServerLoses \/ Kill

Spec == Init /\ [][Next]_vars

(***************************************************************************)
(* Fairness: storage calls end, and an engine goes on when they have; the  *)
(* server answers what it is asked about keys and epochs.                  *)
(***************************************************************************)
Fairness ==
  /\ WF_vars(JobLands) /\ WF_vars(ReadRow) /\ WF_vars(Migrated)
  /\ WF_vars(LearnEpoch) /\ WF_vars(LoadKey)

FairSpec == Spec /\ Fairness

-----------------------------------------------------------------------------
(* Properties.                                                              *)

\* Every variable holds the kind of value the code gives it, and only a loaded
\* engine has a timer, a connection or anything to rebuild.
TypeOK ==
  /\ account \in Accounts \cup {NoOne}
  /\ row \in [Accounts -> Row] /\ legacy \in Row
  /\ jobs \in Seq(Job)
  /\ stage \in {"none", "reading", "migrating", "live", "refused", "stuck"}
  /\ doc \in Doc /\ timer \in BOOLEAN /\ conn \in BOOLEAN /\ synced \in BOOLEAN
  /\ seen \in BOOLEAN /\ sticky \in BOOLEAN /\ confirmed \in BOOLEAN
  /\ cipher \in {"none", "waiting", "keyed"} /\ entry \in BOOLEAN
  /\ stash \in [Accounts -> SUBSET Msgs]
  /\ claimed \subseteq Msgs /\ rejection \subseteq Msgs /\ draft \subseteq Msgs
  /\ server \in Doc /\ epoch \in BOOLEAN
  /\ typed \subseteq Msgs /\ envelope \subseteq typed /\ accepted \subseteq typed
  /\ times \in [Msgs -> Nat] /\ excused \subseteq Msgs
  /\ logouts \in 0 .. MaxLogouts /\ faults \in 0 .. MaxFaults
  /\ timer => stage = "live"
  /\ (stage # "none" => account # NoOne) /\ (cipher # "none" => stage # "none")

-----------------------------------------------------------------------------
(* The promise about messages.                                              *)

Held(m) ==
  \/ m \in Stored \cup doc.has
  \/ \E a \in Accounts : m \in stash[a]
  \/ \E i \in DOMAIN jobs : m \in jobs[i].doc.has

Fate(m) ==
  CASE m \notin typed                                    -> "unsent"
    [] m \in server.has                                  -> "served"
    [] m \in (draft \cup rejection) \ server.has         -> "returned"
    [] m \in typed \ (server.has \cup draft \cup rejection) ->
         IF Held(m) THEN "held" ELSE "lost"

Promise == INSTANCE MessageFate WITH fate <- [m \in Msgs |-> Fate(m)]

(***************************************************************************)
(* No message is lost: through engines torn down and rebuilt, the adoption *)
(* of the legacy row, refusals, discarded documents and sign-outs, a       *)
(* message is in a document, a row, a storage call or the stash until the  *)
(* server has it or its text is back in the composer.  Excused are: what   *)
(* was not stored when the app was killed; what a failed write left out;   *)
(* what the server lost; what another account had in a legacy row that is  *)
(* dropped, or is adopted and then discarded; what was typed while the     *)
(* engine had not loaded or was refused; what was in the composer when the *)
(* user left, signed out or sent it on; and own text refused together with *)
(* another's (see RefusedTextReturns).                                     *)
(***************************************************************************)
KeepsItsPromise == Promise!Spec

(***************************************************************************)
(* chat.store.ts: "its text must go back only once", even if the message   *)
(* is refused again by way of a row an engine could not write.             *)
(***************************************************************************)
RestoredOnce == \A m \in Msgs : times[m] <= 1

(***************************************************************************)
(* The document an account syncs never holds plaintext another account has *)
(* typed here and the server has not accepted: the account cannot send it  *)
(* for the other, and a refusal of it could not be repaired.               *)
(***************************************************************************)
NotAnothersUnsent ==
  \A m \in Plain(doc.has) \cap Msgs : Author[m] = account \/ m \in accepted

(***************************************************************************)
(* A room that is opened gets a working document: it is loaded, and after  *)
(* an unrecoverable refusal discarded and loaded again, unless a storage   *)
(* call has failed or the room is closed.                                  *)
(***************************************************************************)
Recovers == stage # "none" ~> stage \in {"live", "none", "stuck"}

-----------------------------------------------------------------------------
(* What comments and documents say of the program, and the program does     *)
(* not always do.                                                           *)

(***************************************************************************)
(* [roomId].tsx:146: the composer's gate "recomputes live as grants load": *)
(* in an open room known to be encrypted, whose cipher has the key, the    *)
(* composer opens in the end.                                              *)
(***************************************************************************)
ComposerOpens == seen /\ cipher = "keyed" ~> ComposerReady \/ cipher # "keyed"

(***************************************************************************)
(* chat.store.ts:136: "Each rejection carries only its own text; the       *)
(* composer appends it to whatever draft is already there, so nothing      *)
(* typed is lost": refused text that is marked as restored was put back.   *)
(***************************************************************************)
RefusedTextReturns == \A m \in claimed : times[m] > 0
=============================================================================

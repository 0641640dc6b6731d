---------------------------- MODULE Submission ----------------------------
(***************************************************************************)
(* Drafts and their submission: what internal/calls (sendDraft, saveDraft, *)
(* openDrafts, resumeDraft, handleAttachmentEdit) does with the drafts     *)
(* table, the attachment generations on disk, the outbound_submissions     *)
(* journal, the SMTP server (internal/mailer) and the remote Drafts        *)
(* folder, for the calls one user has open at the same time.               *)
(*                                                                         *)
(* A handler is a sequence of steps between which the other calls run and  *)
(* the process may stop: work[c] says where call c is.  A text stands for  *)
(* one composed message and for the draft id its first save gives it.  An  *)
(* attachment generation is named by the number of its save.               *)
(***************************************************************************)
EXTENDS Integers, Sequences, FiniteSets, SequencesExt

CONSTANTS
    Calls,        \* the calls of one user (MAX_CALLS allows several at once)
    Texts,        \* messages that are composed, one draft id each
    Items,        \* attachments that can be recorded
    None,         \* no draft
    MaxSaves,     \* bound: saves that reach the disk
    MaxSends,     \* bound: journalled send attempts
    MaxFaults,    \* bound: failures of the database, the disk or the network
    MaxCrashes    \* bound: stops of the process

ASSUME BoundsAssumption ==
    {MaxSaves, MaxSends, MaxFaults, MaxCrashes} \subseteq Nat

VARIABLES
    rows,         \* drafts table: of each text no row or one, [gen, items]
    files,        \* attachment files <<text, generation, item>> on disk
    sess,         \* sess.Draft of a call: [text, saved, items], or None
    shelf,        \* sess.Drafts of a call: the rows its draft list shows
    work,         \* the handler a call is in, and how far it has come
    journal,      \* outbound_submissions: [text, status] per attempt
    delivered,    \* attempts whose message the SMTP server has accepted
    appended,     \* copies of a text in the remote Drafts folder
    composed,     \* texts that exist
    saves,        \* generations made so far
    faults,       \* failures so far
    crashes,      \* stops so far
    excused,      \* texts a second delivery of which the code cannot exclude
    crossed,      \* texts two calls saved or sent at the same time
    spoiled       \* texts whose files a fault or a stop may have left behind

vars == <<rows, files, sess, shelf, work, journal, delivered, appended,
          composed, saves, faults, crashes, excused, crossed, spoiled>>

disk   == <<rows, files>>
outbox == <<journal, delivered>>
counts == <<saves, faults, crashes>>
ghosts == <<excused, crossed, spoiled>>

Idle == [at |-> "idle", gen |-> 0, attempt |-> 0, outcome |-> "none",
         first |-> FALSE]

Places   == {"idle", "stage", "row", "tidy", "append",
             "submit", "record", "drop", "wipe"}
Statuses == {"pending", "accepted", "rejected", "uncertain"}

-----------------------------------------------------------------------------

Holds(c, t)   == sess[c] # None /\ sess[c].text = t
Busy(c, t)    == Holds(c, t) /\ work[c].at # "idle"
Sending(c, t) == Busy(c, t) /\ work[c].at \in {"submit", "record", "drop"}
Others(c)     == Calls \ {c}

\* The files a row names.
FilesOf(t) == UNION {{<<t, r.gen, i>> : i \in ToSet(r.items)} : r \in rows[t]}
OnDisk(t)  == {f \in files : f[1] = t}

Ready(c) == work[c].at = "idle"
InDraft(c) == Ready(c) /\ sess[c] # None

\* A save or a send that starts while another call's has not ended.
Crossing(c, t) == \E o \in Others(c) : Busy(o, t)
MeetsOther(c) ==
    crossed' = IF Crossing(c, sess[c].text)
               THEN crossed \cup {sess[c].text} ELSE crossed

Fault == faults < MaxFaults /\ faults' = faults + 1

At(c, place) == work[c].at = place
Goto(c, place) == work' = [work EXCEPT ![c].at = place]

\* The handler ends in the main menu: the draft and the list are left behind.
ToMain(c) ==
    /\ sess' = [sess EXCEPT ![c] = None]
    /\ shelf' = [shelf EXCEPT ![c] = {}]
    /\ work' = [work EXCEPT ![c] = Idle]

\* The handler ends and the caller is still in the draft.
ToReview(c) ==
    /\ work' = [work EXCEPT ![c] = Idle]
    /\ UNCHANGED <<sess, shelf>>

-----------------------------------------------------------------------------
(* The draft a call holds.                                                 *)

\* startComposeLocked, with the recipients, subject and body that follow.  A
\* forwarded message comes with its original as an attachment.
Compose(c, t, seed) ==
    /\ Ready(c) /\ sess[c] = None /\ shelf[c] = {}
    /\ t \notin composed
    /\ composed' = composed \cup {t}
    /\ sess' = [sess EXCEPT ![c] = [text |-> t, saved |-> FALSE, items |-> seed]]
    /\ UNCHANGED <<disk, shelf, work, outbox, appended, counts, ghosts>>

\* startAudioAttachment: a recording that heard something is added.
Attach(c, i) ==
    /\ InDraft(c)
    /\ i \notin ToSet(sess[c].items)
    /\ sess' = [sess EXCEPT ![c].items = Append(@, i)]
    /\ UNCHANGED <<disk, shelf, work, outbox, appended, composed, counts, ghosts>>

\* handleAttachmentEdit: the second press of 2 removes the last attachment.
Detach(c) ==
    /\ InDraft(c)
    /\ sess[c].items # <<>>
    /\ sess' = [sess EXCEPT ![c].items = Front(@)]
    /\ UNCHANGED <<disk, shelf, work, outbox, appended, composed, counts, ghosts>>

\* openDrafts: the list is a snapshot of the rows, read before it is shown.
OpenDrafts(c) ==
    LET listed == {t \in Texts : rows[t] # {}} IN
    /\ Ready(c) /\ sess[c] = None /\ shelf[c] = {}
    /\ listed # {}
    /\ shelf' = [shelf EXCEPT ![c] =
          UNION {{[text |-> t, row |-> r] : r \in rows[t]} : t \in listed}]
    /\ excused' = excused \cup
          {t \in listed : \E o \in Others(c) : Sending(o, t)}
    /\ UNCHANGED <<disk, sess, work, outbox, appended, composed, counts,
                   crossed, spoiled>>

\* Mutant: a resumed draft forgets that it has an id.
ResumeUnmarked(c) ==
    \E d \in shelf[c] :
        /\ Ready(c) /\ sess[c] = None
        /\ sess' = [sess EXCEPT ![c] =
              [text |-> d.text, saved |-> FALSE, items |-> d.row.items]]
        /\ UNCHANGED <<disk, shelf, work, outbox, appended, composed, counts, ghosts>>

\* resumeDraft: the listed record is taken as it is, its attachments are read
\* from disk, and those that cannot be read are left out (the caller is told).
\* A fault is a file that is there and cannot be read.
Readable(d, lost) ==
    LET items == d.row.items
        kept == {n \in DOMAIN items : /\ items[n] \notin lost
                                      /\ <<d.text, d.row.gen, items[n]>> \in files}
    IN [k \in 1..Cardinality(kept) |->
            items[CHOOSE n \in kept : Cardinality(kept \cap 1..n) = k]]
Resume(c) ==
    \E d \in shelf[c] : \E lost \in {{}} \cup {{i} : i \in ToSet(d.row.items)} :
        /\ Ready(c) /\ sess[c] = None
        /\ sess' = [sess EXCEPT ![c] =
              [text |-> d.text, saved |-> TRUE, items |-> Readable(d, lost)]]
        /\ IF lost = {} THEN UNCHANGED counts ELSE Fault /\ UNCHANGED <<saves, crashes>>
        /\ UNCHANGED <<disk, shelf, work, outbox, appended, composed, ghosts>>

\* Mutant: hanging up drops the draft under a handler that still uses it.
LeaveAtOnce(c) ==
    /\ sess[c] # None
    /\ sess' = [sess EXCEPT ![c] = None]
    /\ shelf' = [shelf EXCEPT ![c] = {}]
    /\ UNCHANGED <<disk, work, outbox, appended, composed, counts, ghosts>>

\* The caller hangs up, goes back to the list, or starts something else: the
\* session's draft is dropped.  Hanging up inside a handler changes nothing
\* before its end: its requests run under the service's context, not the call's.
Leave(c) ==
    /\ InDraft(c) \/ (Ready(c) /\ shelf[c] # {})
    /\ sess' = [sess EXCEPT ![c] = None]
    /\ \/ UNCHANGED shelf
       \/ shelf' = [shelf EXCEPT ![c] = {}]
    /\ UNCHANGED <<disk, work, outbox, appended, composed, counts, ghosts>>

-----------------------------------------------------------------------------
(* saveDraft.                                                              *)

\* The accounts are read, and whether this save is the draft's first is
\* settled by the id the session has.
SaveStart(c) ==
    /\ InDraft(c)
    /\ saves < MaxSaves
    /\ saves' = saves + 1
    /\ work' = [work EXCEPT ![c] =
          [Idle EXCEPT !.at = "stage", !.gen = saves + 1, !.first = ~sess[c].saved]]
    /\ MeetsOther(c)
    /\ UNCHANGED <<disk, sess, shelf, outbox, appended, composed,
                   faults, crashes, excused, spoiled>>

NewRow(c) == [gen |-> work[c].gen, items |-> sess[c].items]
Generation(c) == {<<sess[c].text, work[c].gen, i>> : i \in ToSet(sess[c].items)}
NewGeneration(c) == {f \in files : f[1] = sess[c].text /\ f[2] = work[c].gen}

\* Mutant: the new generation takes the place of the old one at once.
SaveStageEager(c) ==
    LET t == sess[c].text IN
    /\ At(c, "stage")
    /\ \/ /\ files' = (files \ OnDisk(t)) \cup Generation(c)
          /\ Goto(c, "row")
          /\ UNCHANGED <<sess, shelf, counts>>
       \/ /\ Fault
          /\ ToReview(c)
          /\ UNCHANGED <<files, saves, crashes>>
    /\ UNCHANGED <<rows, outbox, appended, composed, ghosts>>

\* The attachments are written to a staging directory, which is renamed to the
\* new generation; on a failure the staging directory is removed.
SaveStage(c) ==
    /\ At(c, "stage")
    /\ \/ /\ files' = files \cup Generation(c)
          /\ Goto(c, "row")
          /\ UNCHANGED <<sess, shelf, counts>>
       \/ /\ Fault
          /\ ToReview(c)
          /\ UNCHANGED <<files, saves, crashes>>
    /\ UNCHANGED <<rows, outbox, appended, composed, ghosts>>

\* Store.SaveDraft: one transaction that inserts the row or replaces it.  When
\* it fails the new generation is removed.
SaveRow(c) ==
    LET t == sess[c].text IN
    /\ At(c, "row")
    /\ \/ /\ rows' = [rows EXCEPT ![t] = {NewRow(c)}]
          /\ Goto(c, "tidy")
          /\ UNCHANGED <<files, sess, shelf, counts>>
       \/ /\ Fault
          /\ files' = files \ NewGeneration(c)
          /\ ToReview(c)
          /\ UNCHANGED <<rows, saves, crashes>>
    /\ UNCHANGED <<outbox, appended, composed, ghosts>>

\* cleanupDraftGenerations keeps the new generation only; a failure is logged
\* and leaves files behind.
SaveTidy(c) ==
    LET t == sess[c].text IN
    /\ At(c, "tidy")
    /\ \/ /\ files' = files \ (OnDisk(t) \ NewGeneration(c))
          /\ UNCHANGED <<counts, spoiled>>
       \/ /\ Fault
          /\ spoiled' = spoiled \cup {t}
          /\ UNCHANGED <<files, saves, crashes>>
    /\ Goto(c, "append")
    /\ UNCHANGED <<rows, sess, shelf, outbox, appended, composed, excused, crossed>>

\* The first save appends a copy to the remote Drafts folder, if one is mapped.
\* The server may refuse it, or do it and fail to say so: the save succeeds all
\* the same.
SaveAppend(c) ==
    LET t == sess[c].text IN
    /\ At(c, "append")
    /\ \/ /\ work[c].first
          /\ appended' = [appended EXCEPT ![t] = @ + 1]
       \/ UNCHANGED appended
    /\ ToMain(c)
    /\ UNCHANGED <<disk, outbox, composed, counts, ghosts>>

-----------------------------------------------------------------------------
(* sendDraft.                                                              *)

\* The recipients, the account and the message are checked, then the attempt is
\* journalled as pending before any byte leaves.  If that fails nothing is sent.
SendStart(c) ==
    /\ InDraft(c)
    /\ Len(journal) < MaxSends
    /\ \/ /\ journal' = Append(journal, [text |-> sess[c].text, status |-> "pending"])
          /\ work' = [work EXCEPT ![c] =
                [Idle EXCEPT !.at = "submit", !.attempt = Len(journal) + 1]]
          /\ MeetsOther(c)
          /\ UNCHANGED counts
       \/ /\ Fault
          /\ UNCHANGED <<journal, work, crossed, saves, crashes>>
    /\ UNCHANGED <<disk, sess, shelf, delivered, appended, composed,
                   excused, spoiled>>

Outcome(c, o) == work' = [work EXCEPT ![c].at = "record", ![c].outcome = o]

\* Mutant: an error after the message was written counts as a rejection.
SubmitOptimist(c) ==
    /\ At(c, "submit")
    /\ \/ /\ Outcome(c, "accepted")
          /\ delivered' = delivered \cup {work[c].attempt}
          /\ UNCHANGED counts
       \/ /\ Fault
          /\ Outcome(c, "rejected")
          /\ \/ delivered' = delivered \cup {work[c].attempt}
             \/ UNCHANGED delivered
          /\ UNCHANGED <<saves, crashes>>
    /\ UNCHANGED <<disk, sess, shelf, journal, appended, composed, ghosts>>

\* SendWithOutcome: a failure before the message is written is a rejection, one
\* while it is written or acknowledged is uncertain (it may have arrived or
\* not), and a failing QUIT changes nothing.  An uncertain attempt, and one that
\* succeeds while another call holds the same draft, may be followed by another.
Submit(c) ==
    LET t == sess[c].text
        shared == \E o \in Others(c) :
                     Holds(o, t) \/ (\E d \in shelf[o] : d.text = t)
    IN
    /\ At(c, "submit")
    /\ \/ /\ Outcome(c, "accepted")
          /\ delivered' = delivered \cup {work[c].attempt}
          /\ excused' = IF shared THEN excused \cup {t} ELSE excused
          /\ UNCHANGED counts
       \/ /\ Fault
          /\ Outcome(c, "rejected")
          /\ UNCHANGED <<delivered, excused, saves, crashes>>
       \/ /\ Fault
          /\ Outcome(c, "uncertain")
          /\ \/ delivered' = delivered \cup {work[c].attempt}
             \/ UNCHANGED delivered
          /\ excused' = excused \cup {t}
          /\ UNCHANGED <<saves, crashes>>
    /\ UNCHANGED <<disk, sess, shelf, journal, appended, composed,
                   crossed, spoiled>>

\* UpdateOutboundSubmission; a failure is logged and the row stays pending.
\* Only an accepted message lets the handler go on to the draft.
Record(c) ==
    LET w == work[c] IN
    /\ At(c, "record")
    /\ \/ /\ journal' = [journal EXCEPT ![w.attempt].status = w.outcome]
          /\ UNCHANGED counts
       \/ /\ Fault
          /\ UNCHANGED <<journal, saves, crashes>>
    /\ CASE w.outcome # "accepted"              -> ToReview(c)
         [] w.outcome = "accepted" /\ sess[c].saved ->
               Goto(c, "drop") /\ UNCHANGED <<sess, shelf>>
         [] OTHER                               -> ToMain(c)
    /\ UNCHANGED <<disk, delivered, appended, composed, ghosts>>

\* Mutant: the draft of a sent message is kept.
DropNothing(c) ==
    /\ At(c, "drop")
    /\ ToMain(c)
    /\ UNCHANGED <<disk, outbox, appended, composed, counts, ghosts>>

\* DeleteDraft removes the row of the sent draft; a row that is already gone,
\* or a failure, leaves the files alone.
Drop(c) ==
    LET t == sess[c].text IN
    /\ At(c, "drop")
    /\ \/ /\ rows[t] # {}
          /\ rows' = [rows EXCEPT ![t] = {}]
          /\ Goto(c, "wipe")
          /\ UNCHANGED <<sess, shelf, counts, excused>>
       \/ /\ rows[t] = {}
          /\ ToMain(c)
          /\ UNCHANGED <<rows, counts, excused>>
       \/ /\ Fault
          /\ excused' = excused \cup {t}
          /\ ToMain(c)
          /\ UNCHANGED <<rows, saves, crashes>>
    /\ UNCHANGED <<files, outbox, appended, composed, crossed, spoiled>>

\* Mutant: the files of a sent draft are kept.
WipeNothing(c) ==
    /\ At(c, "wipe")
    /\ ToMain(c)
    /\ UNCHANGED <<disk, outbox, appended, composed, counts, ghosts>>

\* removeDraftAttachments: the whole directory of the draft goes.
Wipe(c) ==
    /\ At(c, "wipe")
    /\ files' = files \ OnDisk(sess[c].text)
    /\ ToMain(c)
    /\ UNCHANGED <<rows, outbox, appended, composed, counts, ghosts>>

-----------------------------------------------------------------------------

\* The process stops: the calls and what their handlers had left to do are lost,
\* the database, the files and the servers keep what they have.  Nothing reads
\* the journal when the process starts again.
Crash ==
    /\ crashes < MaxCrashes
    /\ crashes' = crashes + 1
    /\ excused' = excused \cup {t \in Texts : \E c \in Calls : Sending(c, t)}
    /\ spoiled' = spoiled \cup {t \in Texts : \E c \in Calls : Busy(c, t)}
    /\ sess' = [c \in Calls |-> None]
    /\ shelf' = [c \in Calls |-> {}]
    /\ work' = [c \in Calls |-> Idle]
    /\ UNCHANGED <<disk, outbox, appended, composed, saves, faults, crossed>>

Init ==
    /\ rows = [t \in Texts |-> {}]
    /\ files = {}
    /\ sess = [c \in Calls |-> None]
    /\ shelf = [c \in Calls |-> {}]
    /\ work = [c \in Calls |-> Idle]
    /\ journal = <<>>
    /\ delivered = {}
    /\ appended = [t \in Texts |-> 0]
    /\ composed = {}
    /\ saves = 0 /\ faults = 0 /\ crashes = 0
    /\ excused = {} /\ crossed = {} /\ spoiled = {}

Saving(c) == SaveStart(c) \/ SaveStage(c) \/ SaveRow(c) \/ SaveTidy(c) \/ SaveAppend(c)
Send(c)   == SendStart(c) \/ Submit(c) \/ Record(c) \/ Drop(c) \/ Wipe(c)

Next ==
    \/ \E c \in Calls :
          \/ \E t \in Texts :
                \/ Compose(c, t, <<>>)
                \/ \E i \in Items : Compose(c, t, <<i>>)
          \/ \E i \in Items : Attach(c, i)
          \/ Detach(c)
          \/ OpenDrafts(c)
          \/ Resume(c)
          \/ Leave(c)
          \/ Saving(c)
          \/ Send(c)
    \/ Crash

Spec == Init /\ [][Next]_vars

-----------------------------------------------------------------------------

TypeOK ==
    /\ \A t \in Texts : /\ Cardinality(rows[t]) <= 1
                        /\ \A r \in rows[t] : /\ r.gen \in 1..MaxSaves
                                              /\ ToSet(r.items) \subseteq Items
    /\ files \subseteq Texts \X (1..MaxSaves) \X Items
    /\ \A c \in Calls : sess[c] = None
          \/ /\ sess[c].text \in composed
             /\ sess[c].saved \in BOOLEAN
             /\ ToSet(sess[c].items) \subseteq Items
    /\ \A c \in Calls : \A d \in shelf[c] : d.text \in composed
    /\ \A c \in Calls : /\ work[c].at \in Places
                        /\ work[c].at # "idle" => sess[c] # None
    /\ \A n \in 1..Len(journal) : /\ journal[n].text \in composed
                                  /\ journal[n].status \in Statuses
    /\ delivered \subseteq 1..Len(journal)
    /\ appended \in [Texts -> Nat]
    /\ composed \subseteq Texts
    /\ saves \in 0..MaxSaves /\ faults \in 0..MaxFaults /\ crashes \in 0..MaxCrashes
    /\ excused \subseteq Texts /\ crossed \subseteq Texts /\ spoiled \subseteq Texts

\* The journal never says the opposite of what the SMTP server did, whatever
\* failed or stopped in between: a message that was taken is recorded as
\* accepted, uncertain or still pending, and accepted means it was taken
\* (CreateOutboundSubmission before the submission, SendWithOutcome's statuses).
JournalHonest ==
    \A n \in 1..Len(journal) :
        /\ journal[n].status = "accepted" => n \in delivered
        /\ journal[n].status = "rejected" => n \notin delivered

\* The same message is taken by the server twice only in the cases the code
\* cannot tell apart: the first result was uncertain, the process stopped or the
\* draft could not be deleted after it, or another call had the draft open.
SentOnce ==
    \A t \in Texts \ excused :
        Cardinality({n \in delivered : journal[n].text = t}) <= 1

\* A draft that was saved is listed until its message has been taken, and every
\* attachment its row names is on disk whatever step a save, a fault or a stop
\* ended in, unless two calls saved or sent that draft at the same time.
DraftWhole ==
    /\ \A t \in Texts \ crossed : FilesOf(t) \subseteq files
    /\ \A t \in Texts :
          appended[t] > 0 /\ rows[t] = {}
             => \E n \in delivered : journal[n].text = t

\* Between handlers the files of a draft are those its row names and no others:
\* a save removes the obsolete generations and a send removes them all, unless a
\* clean-up failed, the process stopped in the middle, or two calls crossed.
NoOrphans ==
    \A t \in Texts \ (crossed \cup spoiled) :
        (\A c \in Calls : ~Busy(c, t)) => OnDisk(t) = FilesOf(t)

\* A draft has at most one copy in the remote Drafts folder, however often it is
\* saved, resumed and saved again, and whatever became of the first append.
AppendedOnce == \A t \in Texts : appended[t] <= 1

(* SentTruly: the journal tells the outcome of a submission, a text is
   submitted once unless its outcome is unknown, and its draft is copied to
   the remote Drafts folder once. *)
SentTruly == JournalHonest /\ SentOnce /\ AppendedOnce

(* DraftsKept: a draft's row and its files are of one generation, and no
   files stay without a row. *)
DraftsKept == DraftWhole /\ NoOrphans
============================================================================

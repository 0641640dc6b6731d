------------------------ MODULE SubmissionProofs ------------------------
(***************************************************************************)
(* Proofs about the submission of drafts, for any number of calls,         *)
(* messages, saves, attempts, failures and stops of the process.           *)
(***************************************************************************)
EXTENDS Submission, FiniteSetTheorems, WellFoundedInduction, TLAPS

-----------------------------------------------------------------------------
(* What the proof knows of the state. *)

Outcomes == {"accepted", "rejected", "uncertain"}
WorkType == [at : Places, gen : Int, attempt : Int, outcome : Outcomes \cup {"none"},
             first : BOOLEAN]
EntryType == [text : Texts, status : Statuses]

\* A draft has three fields.
Drafted(s) == /\ s = [text |-> s.text, saved |-> s.saved, items |-> s.items]
              /\ s.text \in Texts /\ s.saved \in BOOLEAN

Form ==
    /\ sess = [c \in Calls |-> sess[c]] /\ \A c \in Calls : sess[c] = None \/ Drafted(sess[c])
    /\ shelf = [c \in Calls |-> shelf[c]]
    /\ rows = [t \in Texts |-> rows[t]]
    /\ work \in [Calls -> WorkType]
    /\ journal \in Seq(EntryType)
    /\ appended \in [Texts -> Nat]
    /\ saves \in Int
    /\ \A c \in Calls : work[c].at # "idle" => sess[c] # None

\* A session's draft is of text t, a list shows t.
Has(s, t) == s # None /\ s.text = t
Lists(ds, t) == \E d \in ds : d.text = t

\* Whatever speaks of a text speaks of one that was composed.
Origins ==
    /\ composed \subseteq Texts
    /\ \A c \in Calls : \A d \in shelf[c] : d.text \in composed
    /\ \A c \in Calls, t \in Texts : Has(sess[c], t) => t \in composed
    /\ \A t \in Texts : rows[t] # {} \/ appended[t] # 0 => t \in composed
    /\ \A n \in 1..Len(journal) : journal[n].text \in composed

\* A draft that was never saved is one call's own until its first row is written,
\* and has no copy on the server until that save ends.
New(s, t) == Has(s, t) /\ ~s.saved
Own ==
    /\ \A t \in Texts : appended[t] <= 1
    /\ \A c \in Calls : work[c].first /\ work[c].at # "idle" => ~sess[c].saved
    /\ \A c \in Calls, t \in Texts : New(sess[c], t) =>
          /\ appended[t] = 0
          /\ \A o \in Calls : New(sess[o], t) => o = c
          /\ work[c].at \notin {"tidy", "append"} =>
                rows[t] = {} /\ \A o \in Calls : ~Lists(shelf[o], t) /\ (Has(sess[o], t) => o = c)

\* Every attempt under way has an entry of its own, which does not speak yet.
Tries(w) == w.at \in {"submit", "record"}
Attempts ==
    /\ delivered \subseteq 1..Len(journal)
    /\ \A c \in Calls : Tries(work[c]) =>
          /\ work[c].attempt \in 1..Len(journal)
          /\ journal[work[c].attempt] = [text |-> sess[c].text, status |-> "pending"]
          /\ \A o \in Calls : Tries(work[o]) /\ work[o].attempt = work[c].attempt => o = c
    /\ \A c \in Calls :
          /\ work[c].at = "submit" => work[c].attempt \notin delivered
          /\ work[c].at = "record" => work[c].outcome \in Outcomes
          /\ work[c].at = "record" /\ work[c].outcome = "accepted" => work[c].attempt \in delivered
          /\ work[c].at = "record" /\ work[c].outcome = "rejected" => work[c].attempt \notin delivered

\* A handler whose message was taken only cleans up after it.
Settles(w) == (w.at = "record" /\ w.outcome = "accepted") \/ w.at \in {"drop", "wipe"}
\* Of these, the one that will delete the draft.
Deletes(w, s) == (w.at = "record" /\ w.outcome = "accepted" /\ s.saved) \/ w.at = "drop"

Taken(t) == \E n \in delivered : journal[n].text = t

\* Nobody can send a message again that was taken, but for the excused: no list
\* shows it, no call holds it but the one that settles it, and that call will
\* delete the row.
Settled ==
    \A t \in Texts \ excused : Taken(t) =>
        /\ \A c \in Calls : Lists(shelf[c], t) => Has(sess[c], t)
        /\ \A c \in Calls : Has(sess[c], t) => Settles(work[c]) /\ \A o \in Calls : Has(sess[o], t) => o = c
        /\ rows[t] # {} => \E c \in Calls : Has(sess[c], t) /\ Deletes(work[c], sess[c])

\* It was taken once.
Once == \A t \in Texts \ excused : \A m, n \in delivered :
            journal[m].text = t /\ journal[n].text = t => m = n

SInv == Form /\ Origins /\ Own /\ Attempts /\ JournalHonest /\ Settled /\ Once

-----------------------------------------------------------------------------
(* What a step does to the calls. *)

\* Only the call c has changed.
Local(c) ==
    /\ sess' = [o \in Calls |-> sess'[o]] /\ shelf' = [o \in Calls |-> shelf'[o]]
    /\ work' \in [Calls -> WorkType]
    /\ \A o \in Calls : o # c =>
          sess'[o] = sess[o] /\ shelf'[o] = shelf[o] /\ work'[o] = work[o]

Same(c) == sess'[c] = sess[c] /\ shelf'[c] = shelf[c]

\* A call without a handler is at no place of one.
LEMMA IdleType == Idle \in WorkType /\ Idle.at = "idle"
BY DEF Idle, WorkType, Places

\* A handler that ends in the main menu drops the draft and the list.
LEMMA MainEnds ==
    ASSUME Form, NEW c \in Calls, ToMain(c)
    PROVE  Local(c) /\ sess'[c] = None /\ shelf'[c] = {} /\ work'[c] = Idle
BY IdleType DEF Form, ToMain, Local

\* One that ends in the review keeps both.
LEMMA ReviewEnds ==
    ASSUME Form, NEW c \in Calls, ToReview(c)
    PROVE  Local(c) /\ Same(c) /\ work'[c] = Idle
BY IdleType DEF Form, ToReview, Local, Same

\* One that goes on keeps what it knows.
LEMMA GoesOn ==
    ASSUME Form, NEW c \in Calls, NEW place \in Places, Goto(c, place), UNCHANGED <<sess, shelf>>
    PROVE  /\ Local(c) /\ Same(c) /\ work'[c].at = place
           /\ work'[c].attempt = work[c].attempt /\ work'[c].outcome = work[c].outcome
           /\ work'[c].first = work[c].first
<1>1. work'[c] = [work[c] EXCEPT !.at = place] /\ work[c] \in WorkType
  BY DEF Form, Goto
<1>2. work'[c] \in WorkType
  BY <1>1 DEF WorkType
<1>3. work' \in [Calls -> WorkType]
  BY <1>2 DEF Form, Goto
<1> QED BY <1>1, <1>3 DEF Form, Goto, Local, Same, WorkType

-----------------------------------------------------------------------------
(* Steps that neither send nor deliver keep what is known of the attempts. *)

\* Nobody enters, leaves or changes an attempt under way.
LEMMA AttemptsStay ==
    ASSUME Form, Attempts, JournalHonest, UNCHANGED outbox,
           \A o \in Calls : Tries(work'[o]) =>
              /\ work'[o] = work[o] /\ sess'[o].text = sess[o].text
    PROVE  Attempts' /\ JournalHonest'
<1>1. \A o \in Calls : Tries(work'[o]) => Tries(work[o])
  BY DEF Tries
<1>2. JournalHonest'
  BY DEF JournalHonest, outbox
<1> QED BY <1>1, <1>2 DEF Attempts, Tries, outbox

\* A message that was taken stays so.
LEMMA OnceStays ==
    ASSUME Once, excused \subseteq excused',
           \A n \in delivered' : n \in delivered /\ journal'[n].text = journal[n].text
    PROVE  Once'
BY DEF Once

\* The texts the journal and the copies speak of stay composed.
LEMMA OriginsStay ==
    ASSUME Origins, UNCHANGED <<journal, composed>>,
           \A c \in Calls : \A d \in shelf'[c] : d.text \in composed,
           \A c \in Calls, t \in Texts : Has(sess'[c], t) => t \in composed,
           \A t \in Texts : rows'[t] # {} \/ appended'[t] # 0 => t \in composed
    PROVE  Origins'
BY DEF Origins

\* No draft becomes one that was never saved.
LEMMA OwnStays ==
    ASSUME Own, \A t \in Texts : appended'[t] <= 1,
           \A o \in Calls : work'[o].first /\ work'[o].at # "idle" => ~sess'[o].saved,
           \A o \in Calls, u \in Texts : New(sess'[o], u) =>
              /\ New(sess[o], u) /\ appended'[u] = 0
              /\ work'[o].at \notin {"tidy", "append"} =>
                    rows'[u] = {} /\ \A q \in Calls : ~Lists(shelf'[q], u) /\ (Has(sess'[q], u) => q = o)
    PROVE  Own'
BY DEF Own

\* Nobody who did not hold it comes to hold a message that was taken.
LEMMA SettledStays ==
    ASSUME Settled, excused \subseteq excused',
           \A n \in delivered' : n \in delivered /\ journal'[n].text = journal[n].text,
           \A u \in Texts \ excused' : Taken(u) =>
              /\ \A o \in Calls : Lists(shelf'[o], u) => Has(sess'[o], u)
              /\ \A o \in Calls : Has(sess'[o], u) => Has(sess[o], u) /\ Settles(work'[o])
              /\ rows'[u] # {} => \E o \in Calls : Has(sess'[o], u) /\ Deletes(work'[o], sess'[o])
    PROVE  Settled'
<1>1. ASSUME NEW u \in Texts, \E n \in delivered' : journal'[n].text = u PROVE Taken(u)
  BY <1>1 DEF Taken
<1> QED BY <1>1 DEF Settled, Taken

\* A step that changes nothing the proof speaks of.
LEMMA NothingHappens ==
    ASSUME SInv,
           UNCHANGED <<rows, sess, shelf, work, journal, delivered, appended, composed, saves, excused>>
    PROVE  SInv'
<1>1. Form'
  BY DEF SInv, Form
<1>2. Origins'
  BY DEF SInv, Origins, Has
<1>3. Own'
  BY DEF SInv, Own, New, Has, Lists
<1>4. Attempts' /\ JournalHonest'
  BY DEF SInv, Attempts, JournalHonest, Tries
<1>5. Settled' /\ Once'
  BY DEF SInv, Settled, Once, Taken, Has, Lists, Settles, Deletes
<1> QED BY <1>1, <1>2, <1>3, <1>4, <1>5 DEF SInv

-----------------------------------------------------------------------------
(* The caller. *)

\* Composing a message: its text is new.
LEMMA ComposeKeeps ==
    ASSUME SInv, NEW c \in Calls, NEW t \in Texts, NEW seed, Compose(c, t, seed)
    PROVE  SInv'
<1> DEFINE draft == [text |-> t, saved |-> FALSE, items |-> seed]
<1>1. /\ sess[c] = None /\ shelf[c] = {} /\ work[c].at = "idle" /\ t \notin composed
      /\ composed' = composed \cup {t} /\ sess' = [sess EXCEPT ![c] = draft]
      /\ UNCHANGED <<rows, shelf, work, journal, delivered, appended, saves, excused>>
  BY DEF Compose, Ready, disk, outbox, counts, ghosts
<1>2. Local(c) /\ sess'[c] = draft
  BY <1>1 DEF SInv, Form, Local
<1>3. Drafted(draft) /\ draft.text = t /\ ~draft.saved
  BY DEF Drafted
<1> HIDE DEF draft
<1>4. Form'
  BY <1>1, <1>2, <1>3 DEF SInv, Form, Local
<1>5. \A o \in Calls, u \in Texts : Has(sess'[o], u) => (o # c /\ Has(sess[o], u)) \/ (o = c /\ u = t)
  BY <1>1, <1>2, <1>3 DEF Has, Local
<1>6. Origins'
  BY <1>1, <1>2, <1>5 DEF SInv, Origins
<1>7. Own'
  <2>1. appended[t] = 0 /\ rows[t] = {} /\ \A o \in Calls : ~Lists(shelf[o], t) /\ ~Has(sess[o], t)
    BY <1>1 DEF SInv, Origins, Lists
  <2>2. \A o \in Calls, u \in Texts : New(sess'[o], u) => (o # c /\ New(sess[o], u) /\ u # t) \/ (o = c /\ u = t)
    BY <1>2, <1>5, <2>1 DEF New, Local
  <2>3. \A o \in Calls, u \in Texts : Lists(shelf'[o], u) <=> Lists(shelf[o], u)
    BY <1>1 DEF Lists
  <2> QED BY <1>1, <1>2, <1>5, <2>1, <2>2, <2>3 DEF SInv, Own, Local
<1>8. Attempts' /\ JournalHonest'
  BY <1>1, <1>2, AttemptsStay DEF SInv, Tries, outbox, Local
<1>9. Once'
  BY <1>1, OnceStays DEF SInv
<1>10. Settled'
  <2>1. \A n \in delivered : journal[n].text # t
    BY <1>1 DEF SInv, Origins, Attempts
  <2> QED BY <1>1, <1>2, <1>5, <2>1 DEF SInv, Settled, Taken, Has, Lists, Settles, Deletes, Local
<1> QED BY <1>4, <1>6, <1>7, <1>8, <1>9, <1>10 DEF SInv

\* Attachments come and go, and the caller hangs up or goes elsewhere: the draft
\* keeps its text, or nobody holds it any more.
LEMMA CallerKeeps ==
    ASSUME SInv, NEW c \in Calls, Leave(c) \/ Detach(c) \/ (\E i \in Items : Attach(c, i))
    PROVE  SInv'
<1>1. /\ work[c].at = "idle"
      /\ UNCHANGED <<rows, work, journal, delivered, appended, composed, saves, excused>>
  BY DEF Leave, Detach, Attach, InDraft, Ready, disk, outbox, counts, ghosts
<1>2. Local(c)
  BY <1>1 DEF SInv, Form, Local, Leave, Detach, Attach
<1>3. /\ sess'[c] = None \/ /\ sess[c] # None /\ Drafted(sess'[c])
                            /\ sess'[c].text = sess[c].text /\ sess'[c].saved = sess[c].saved
      /\ shelf'[c] \subseteq shelf[c]
  <2>1. CASE Leave(c)
    BY <2>1 DEF Leave, SInv, Form
  <2>2. CASE Detach(c) \/ \E i \in Items : Attach(c, i)
    <3>1. PICK x : sess' = [sess EXCEPT ![c].items = x] /\ shelf' = shelf /\ sess[c] # None
      BY <2>2 DEF Detach, Attach, InDraft
    <3>2. sess'[c] = [sess[c] EXCEPT !.items = x] /\ Drafted(sess[c])
      BY <3>1 DEF SInv, Form
    <3>3. sess'[c] = [text |-> sess[c].text, saved |-> sess[c].saved, items |-> x]
      BY <3>2 DEF Drafted
    <3> QED BY <3>1, <3>2, <3>3 DEF Drafted
  <2> QED BY <2>1, <2>2
<1>4. Form'
  BY <1>1, <1>2, <1>3 DEF SInv, Form, Local
<1>5. /\ \A o \in Calls, u \in Texts : Has(sess'[o], u) => Has(sess[o], u)
      /\ \A o \in Calls, u \in Texts : New(sess'[o], u) => New(sess[o], u)
      /\ \A o \in Calls, u \in Texts : Lists(shelf'[o], u) => Lists(shelf[o], u)
  BY <1>2, <1>3 DEF Has, New, Lists, Local
<1>6. Origins'
  BY <1>1, <1>2, <1>3, <1>5, OriginsStay DEF SInv, Origins, Local
<1>7. Own'
  <2>1. \A o \in Calls : work'[o].first /\ work'[o].at # "idle" => ~sess'[o].saved
    BY <1>1, <1>2 DEF SInv, Own, Local
  <2> QED BY <1>1, <1>5, <2>1 DEF SInv, Own
<1>8. Attempts' /\ JournalHonest'
  BY <1>1, <1>2, AttemptsStay DEF SInv, Tries, outbox, Local
<1>9. Once'
  BY <1>1, OnceStays DEF SInv
<1>10. Settled'
  <2>1. \A u \in Texts \ excused : Taken(u) => ~Has(sess[c], u) /\ ~Lists(shelf[c], u)
    BY <1>1 DEF SInv, Settled, Settles
  <2>2. \A u \in Texts : Taken(u)' <=> Taken(u)
    BY <1>1 DEF Taken
  <2>3. \A o \in Calls : o # c => Settles(work'[o]) = Settles(work[o]) /\ Deletes(work'[o], sess'[o]) = Deletes(work[o], sess[o])
                                  /\ \A u \in Texts : Has(sess'[o], u) = Has(sess[o], u)
    BY <1>2 DEF Local, Settles, Deletes, Has
  <2> QED BY <1>1, <1>5, <2>1, <2>2, <2>3 DEF SInv, Settled
<1> QED BY <1>4, <1>6, <1>7, <1>8, <1>9, <1>10 DEF SInv

\* Listing the drafts shows a message that was taken only while another call still
\* settles it.
LEMMA OpenKeeps ==
    ASSUME SInv, NEW c \in Calls, OpenDrafts(c)
    PROVE  SInv'
<1> DEFINE listed == {t \in Texts : rows[t] # {}}
<1>1. /\ work[c].at = "idle" /\ sess[c] = None
      /\ shelf' = [shelf EXCEPT ![c] = UNION {{[text |-> t, row |-> r] : r \in rows[t]} : t \in listed}]
      /\ excused' = excused \cup {t \in listed : \E o \in Others(c) : Sending(o, t)}
      /\ UNCHANGED <<rows, sess, work, journal, delivered, appended, composed, saves>>
  BY DEF OpenDrafts, Ready, disk, outbox, counts
<1>2. Local(c) /\ sess'[c] = None /\ work'[c] = work[c]
  BY <1>1 DEF SInv, Form, Local
<1>3. \A u : Lists(shelf'[c], u) => u \in Texts /\ rows[u] # {}
  BY <1>1 DEF SInv, Form, Lists
<1>4. \A d \in shelf'[c] : d.text \in Texts /\ rows[d.text] # {}
  BY <1>1 DEF SInv, Form
<1>5. \A o \in Calls, u \in Texts :
        /\ Has(sess'[o], u) <=> Has(sess[o], u)
        /\ New(sess'[o], u) <=> New(sess[o], u)
        /\ o # c => (Lists(shelf'[o], u) <=> Lists(shelf[o], u))
  BY <1>1, <1>2 DEF Has, New, Lists, Local
<1>6. Form'
  BY <1>1, <1>2 DEF SInv, Form, Local
<1>7. Origins'
  <2>1. \A d \in shelf'[c] : d.text \in composed
    BY <1>4 DEF SInv, Origins
  <2>2. \A o \in Calls : \A d \in shelf'[o] : d.text \in composed
    BY <1>2, <2>1 DEF SInv, Origins, Local
  <2> QED BY <1>1, <1>5, <2>2, OriginsStay DEF SInv, Origins, Has
<1>8. Own'
  <2>1. ASSUME NEW o \in Calls, NEW u \in Texts, New(sess'[o], u)
        PROVE  /\ New(sess[o], u) /\ appended'[u] = 0
               /\ work'[o].at \notin {"tidy", "append"} =>
                     rows'[u] = {} /\ \A q \in Calls : ~Lists(shelf'[q], u) /\ (Has(sess'[q], u) => q = o)
    <3>1. New(sess[o], u)
      BY <1>1, <2>1 DEF New, Has
    <3>2. appended[u] = 0
      BY <3>1 DEF SInv, Own
    <3>3. ASSUME work[o].at \notin {"tidy", "append"}
          PROVE  rows[u] = {} /\ \A q \in Calls : ~Lists(shelf[q], u) /\ (Has(sess[q], u) => q = o)
      BY <3>1, <3>3 DEF SInv, Own
    <3> QED BY <1>1, <1>3, <1>5, <3>1, <3>2, <3>3 DEF Has, New, Lists
  <2> QED BY <1>1, <2>1, OwnStays DEF SInv, Own
<1>9. Attempts' /\ JournalHonest'
  BY <1>1, <1>2, AttemptsStay DEF SInv, Tries, outbox, Local
<1>10. Once'
  BY <1>1, OnceStays DEF SInv
<1>11. Settled'
  <2>1. ASSUME NEW u \in Texts \ excused', Taken(u)
        PROVE  /\ \A o \in Calls : Lists(shelf'[o], u) => Has(sess'[o], u)
               /\ \A o \in Calls : Has(sess'[o], u) => Has(sess[o], u) /\ Settles(work'[o])
               /\ rows'[u] = {}
    <3>1. u \in Texts \ excused
      BY <1>1, <2>1
    <3>2. ASSUME rows[u] # {} PROVE FALSE
      <4>1. PICK o \in Calls : Has(sess[o], u) /\ Deletes(work[o], sess[o])
        BY <2>1, <3>1, <3>2 DEF SInv, Settled
      <4>2. o \in Others(c) /\ Sending(o, u)
        BY <1>1, <4>1 DEF Others, Sending, Busy, Holds, Deletes, Has
      <4> QED BY <1>1, <2>1, <3>2, <4>2
    <3>3. \A o \in Calls : Has(sess[o], u) => Settles(work[o])
      BY <2>1, <3>1 DEF SInv, Settled
    <3>4. \A o \in Calls : Lists(shelf[o], u) => Has(sess[o], u)
      BY <2>1, <3>1 DEF SInv, Settled
    <3>5. \A o \in Calls : Settles(work[o]) => Settles(work'[o])
      BY <1>1 DEF Settles
    <3> QED BY <1>1, <1>3, <1>5, <3>2, <3>3, <3>4, <3>5 DEF Has, Lists, Settles
  <2> QED BY <1>1, <2>1, SettledStays DEF SInv
<1> QED BY <1>6, <1>7, <1>8, <1>9, <1>10, <1>11 DEF SInv

\* Resuming a draft from the list.
LEMMA ResumeKeeps ==
    ASSUME SInv, NEW c \in Calls, Resume(c)
    PROVE  SInv'
<1>1. PICK d \in shelf[c] :
         /\ work[c].at = "idle" /\ sess[c] = None
         /\ \E x : sess' = [sess EXCEPT ![c] = [text |-> d.text, saved |-> TRUE, items |-> x]]
  BY DEF Resume, Ready
<1>2. UNCHANGED <<rows, shelf, work, journal, delivered, appended, composed, saves, excused>>
  BY DEF Resume, Fault, disk, outbox, counts, ghosts
<1>3. d.text \in composed /\ d.text \in Texts
  BY DEF SInv, Origins
<1>4. Local(c) /\ Drafted(sess'[c]) /\ sess'[c].text = d.text /\ sess'[c].saved
  <2>1. PICK x : sess' = [sess EXCEPT ![c] = [text |-> d.text, saved |-> TRUE, items |-> x]]
    BY <1>1
  <2>2. Local(c) /\ sess'[c] = [text |-> d.text, saved |-> TRUE, items |-> x]
    BY <1>2, <2>1 DEF SInv, Form, Local
  <2> QED BY <1>3, <2>2 DEF Drafted
<1>5. \A o \in Calls, u \in Texts :
        /\ Has(sess'[o], u) => (o # c /\ Has(sess[o], u)) \/ (o = c /\ u = d.text)
        /\ New(sess'[o], u) => o # c /\ New(sess[o], u)
        /\ Lists(shelf'[o], u) <=> Lists(shelf[o], u)
  BY <1>1, <1>2, <1>4 DEF Has, New, Lists, Local
<1>6. Lists(shelf[c], d.text)
  BY DEF Lists
<1>7. Form'
  BY <1>1, <1>2, <1>4 DEF SInv, Form, Local
<1>8. Origins'
  <2>1. \A o \in Calls, u \in Texts : Has(sess'[o], u) => u \in composed
    BY <1>3, <1>4 DEF SInv, Origins, Has, Local
  <2> QED BY <1>2, <2>1, OriginsStay DEF SInv, Origins
<1>9. Own'
  <2>1. \A o \in Calls : work'[o].first /\ work'[o].at # "idle" => ~sess'[o].saved
    BY <1>1, <1>2, <1>4 DEF SInv, Own, Local
  <2>2. ASSUME NEW o \in Calls, NEW u \in Texts, New(sess'[o], u)
        PROVE  /\ New(sess[o], u) /\ appended'[u] = 0
               /\ work'[o].at \notin {"tidy", "append"} =>
                     rows'[u] = {} /\ \A q \in Calls : ~Lists(shelf'[q], u) /\ (Has(sess'[q], u) => q = o)
    <3>1. New(sess[o], u)
      BY <1>4, <2>2 DEF New, Has, Local
    <3>2. appended[u] = 0
      BY <3>1 DEF SInv, Own
    <3>3. ASSUME work[o].at \notin {"tidy", "append"}
          PROVE  rows[u] = {} /\ \A q \in Calls : ~Lists(shelf[q], u) /\ (Has(sess[q], u) => q = o)
      BY <3>1, <3>3 DEF SInv, Own
    <3>4. ASSUME work'[o].at \notin {"tidy", "append"}
          PROVE  rows'[u] = {} /\ \A q \in Calls : ~Lists(shelf'[q], u) /\ (Has(sess'[q], u) => q = o)
      <4>1. rows[u] = {} /\ \A q \in Calls : ~Lists(shelf[q], u) /\ (Has(sess[q], u) => q = o)
        BY <1>2, <3>3, <3>4
      <4>2. u # d.text
        BY <1>6, <4>1
      <4>3. \A q \in Calls : ~Lists(shelf'[q], u)
        BY <1>2, <4>1 DEF Lists
      <4>4. ASSUME NEW q \in Calls, Has(sess'[q], u) PROVE q = o
        BY <1>4, <4>1, <4>2, <4>4 DEF Has, Local
      <4> QED BY <1>2, <4>1, <4>3, <4>4
    <3> QED BY <1>2, <3>1, <3>2, <3>4
  <2> QED BY <1>2, <2>1, <2>2, OwnStays DEF SInv, Own
<1>10. Attempts' /\ JournalHonest'
  BY <1>1, <1>2, <1>4, AttemptsStay DEF SInv, Tries, outbox, Local
<1>11. Once'
  BY <1>2, OnceStays DEF SInv
<1>12. Settled'
  <2>1. ASSUME NEW u \in Texts \ excused', Taken(u)
        PROVE  /\ \A o \in Calls : Lists(shelf'[o], u) => Has(sess'[o], u)
               /\ \A o \in Calls : Has(sess'[o], u) => Has(sess[o], u) /\ Settles(work'[o])
               /\ rows'[u] # {} => \E o \in Calls : Has(sess'[o], u) /\ Deletes(work'[o], sess'[o])
    <3>1. /\ \A o \in Calls : Lists(shelf[o], u) => Has(sess[o], u)
          /\ \A o \in Calls : Has(sess[o], u) => Settles(work[o])
          /\ rows[u] # {} => \E o \in Calls : Has(sess[o], u) /\ Deletes(work[o], sess[o])
      BY <1>2, <2>1 DEF SInv, Settled
    <3>2. ~Has(sess[c], u) /\ u # d.text
      BY <1>1, <1>6, <3>1 DEF Has
    <3>3. ASSUME NEW o \in Calls, Has(sess[o], u) PROVE Has(sess'[o], u)
      <4>1. o # c
        BY <3>2, <3>3
      <4> QED BY <1>4, <3>3, <4>1 DEF Has, Local
    <3>4. ASSUME NEW o \in Calls, Lists(shelf'[o], u) PROVE Has(sess'[o], u)
      <4>1. Has(sess[o], u)
        BY <1>2, <3>1, <3>4 DEF Lists
      <4> QED BY <3>3, <4>1
    <3>5. ASSUME NEW o \in Calls, Has(sess'[o], u) PROVE Has(sess[o], u) /\ Settles(work'[o])
      <4>1. Has(sess[o], u)
        BY <1>4, <3>2, <3>5 DEF Has, Local
      <4>2. Settles(work[o])
        BY <3>1, <4>1
      <4> QED BY <1>2, <4>1, <4>2 DEF Settles
    <3>6. ASSUME rows'[u] # {} PROVE \E o \in Calls : Has(sess'[o], u) /\ Deletes(work'[o], sess'[o])
      <4>1. PICK o \in Calls : Has(sess[o], u) /\ Deletes(work[o], sess[o])
        BY <1>2, <3>1, <3>6
      <4>2. Has(sess'[o], u) /\ o # c
        BY <3>2, <3>3, <4>1
      <4>3. Deletes(work'[o], sess'[o])
        BY <1>2, <1>4, <4>1, <4>2 DEF Deletes, Local
      <4> QED BY <4>2, <4>3
    <3> QED BY <3>4, <3>5, <3>6
  <2> QED BY <1>2, <2>1, SettledStays DEF SInv
<1> QED BY <1>7, <1>8, <1>9, <1>10, <1>11, <1>12 DEF SInv

-----------------------------------------------------------------------------
(* The handlers: only their own call changes, which keeps its draft and its *)
(* list or drops both.                                                      *)

Shrinks(c) == Local(c) /\ (Same(c) \/ (sess'[c] = None /\ shelf'[c] = {}))

\* Nobody holds or lists a draft that did not before.
LEMMA ShrinkHas ==
    ASSUME NEW c \in Calls, Shrinks(c)
    PROVE  \A o \in Calls, u \in Texts :
              /\ Has(sess'[o], u) => Has(sess[o], u) /\ sess'[o] = sess[o]
              /\ New(sess'[o], u) => New(sess[o], u) /\ sess'[o] = sess[o]
              /\ Lists(shelf'[o], u) => Lists(shelf[o], u)
BY DEF Shrinks, Same, Local, Has, New, Lists

\* The values keep their form.
LEMMA ShrinkForm ==
    ASSUME Form, NEW c \in Calls, Shrinks(c), saves' \in Int,
           rows' = [t \in Texts |-> rows'[t]], journal' \in Seq(EntryType),
           appended' \in [Texts -> Nat], work'[c].at # "idle" => sess'[c] # None
    PROVE  Form'
BY DEF Form, Shrinks, Local, Same

\* What is spoken of was composed.
LEMMA ShrinkOrigins ==
    ASSUME Origins, NEW c \in Calls, Shrinks(c), composed' = composed,
           \A n \in 1..Len(journal') : journal'[n].text \in composed,
           \A t \in Texts : rows'[t] # {} \/ appended'[t] # 0 => t \in composed
    PROVE  Origins'
<1>1. \A o \in Calls : \A d \in shelf'[o] : d.text \in composed
  BY DEF Origins, Shrinks, Same, Local
<1>2. \A o \in Calls, t \in Texts : Has(sess'[o], t) => t \in composed
  BY ShrinkHas DEF Origins
<1> QED BY <1>1, <1>2 DEF Origins

\* A draft that was never saved stays one call's own while nobody writes its row
\* but that call, on its way to the end of the first save.
LEMMA ShrinkOwn ==
    ASSUME Own, NEW c \in Calls, Shrinks(c), UNCHANGED appended,
           work'[c].first /\ work'[c].at # "idle" => ~sess'[c].saved,
           \A u \in Texts : New(sess'[c], u) /\ work'[c].at \notin {"tidy", "append"} =>
              work[c].at \notin {"tidy", "append"} /\ rows'[u] = {},
           \A u \in Texts : ~Has(sess[c], u) /\ rows'[u] # {} => rows[u] # {}
    PROVE  Own'
<1>1. \A o \in Calls : work'[o].first /\ work'[o].at # "idle" => ~sess'[o].saved
  BY DEF Own, Shrinks, Local
<1>2. ASSUME NEW o \in Calls, NEW u \in Texts, New(sess'[o], u)
      PROVE  /\ New(sess[o], u) /\ appended'[u] = 0
             /\ work'[o].at \notin {"tidy", "append"} =>
                   rows'[u] = {} /\ \A q \in Calls : ~Lists(shelf'[q], u) /\ (Has(sess'[q], u) => q = o)
  <2>1. New(sess[o], u) /\ appended[u] = 0
    BY <1>2, ShrinkHas DEF Own
  <2>2. ASSUME work'[o].at \notin {"tidy", "append"}
        PROVE  rows'[u] = {} /\ \A q \in Calls : ~Lists(shelf'[q], u) /\ (Has(sess'[q], u) => q = o)
    <3>1. work[o].at \notin {"tidy", "append"}
      BY <1>2, <2>2 DEF Shrinks, Local
    <3>2. rows[u] = {} /\ \A q \in Calls : ~Lists(shelf[q], u) /\ (Has(sess[q], u) => q = o)
      BY <2>1, <3>1 DEF Own
    <3>3. rows'[u] = {}
      <4>1. CASE o = c
        BY <1>2, <2>2, <4>1
      <4>2. CASE o # c
        BY <3>2, <4>2
      <4> QED BY <4>1, <4>2
    <3> QED BY <3>2, <3>3, ShrinkHas
  <2> QED BY <2>1, <2>2
<1> QED BY <1>1, <1>2, OwnStays DEF Own

\* A call that does not settle a message holds none that was taken.
LEMMA Untaken ==
    ASSUME Settled, NEW c \in Calls, ~Settles(work[c])
    PROVE  \A u \in Texts \ excused : Taken(u) => ~Has(sess[c], u)
BY DEF Settled

\* A message that was taken is settled while its call goes on, and no row is
\* written again.
LEMMA ShrinkSettled ==
    ASSUME Settled, NEW c \in Calls, Shrinks(c), excused \subseteq excused',
           \A n \in delivered' : n \in delivered /\ journal'[n].text = journal[n].text,
           \A u \in Texts \ excused' : Taken(u) /\ Has(sess[c], u) =>
              sess'[c] = None \/ (Same(c) /\ Settles(work'[c])),
           \A u \in Texts \ excused' : Taken(u) /\ rows'[u] # {} =>
              rows[u] # {} /\ (Has(sess[c], u) => Same(c) /\ Deletes(work'[c], sess[c]))
    PROVE  Settled'
<1>1. ASSUME NEW u \in Texts \ excused', Taken(u)
      PROVE  /\ \A o \in Calls : Lists(shelf'[o], u) => Has(sess'[o], u)
             /\ \A o \in Calls : Has(sess'[o], u) => Has(sess[o], u) /\ Settles(work'[o])
             /\ rows'[u] # {} => \E o \in Calls : Has(sess'[o], u) /\ Deletes(work'[o], sess'[o])
  <2>1. /\ \A o \in Calls : Lists(shelf[o], u) => Has(sess[o], u)
        /\ \A o \in Calls : Has(sess[o], u) => Settles(work[o])
        /\ rows[u] # {} => \E o \in Calls : Has(sess[o], u) /\ Deletes(work[o], sess[o])
    BY <1>1 DEF Settled
  <2>2. ASSUME NEW o \in Calls, Lists(shelf'[o], u) PROVE Has(sess'[o], u)
    BY <2>1, <2>2 DEF Shrinks, Same, Local, Lists
  <2>3. ASSUME NEW o \in Calls, Has(sess'[o], u) PROVE Has(sess[o], u) /\ Settles(work'[o])
    <3>1. Has(sess[o], u) /\ sess'[o] # None
      BY <2>3, ShrinkHas DEF Has
    <3>2. CASE o = c
      BY <1>1, <3>1, <3>2
    <3>3. CASE o # c
      BY <2>1, <3>1, <3>3 DEF Shrinks, Local
    <3> QED BY <3>1, <3>2, <3>3
  <2>4. ASSUME rows'[u] # {} PROVE \E o \in Calls : Has(sess'[o], u) /\ Deletes(work'[o], sess'[o])
    <3>1. PICK o \in Calls : Has(sess[o], u) /\ Deletes(work[o], sess[o])
      BY <1>1, <2>1, <2>4
    <3>2. CASE o = c
      BY <1>1, <2>4, <3>1, <3>2 DEF Same
    <3>3. CASE o # c
      BY <3>1, <3>3 DEF Shrinks, Local
    <3> QED BY <3>2, <3>3
  <2> QED BY <2>2, <2>3, <2>4
<1> QED BY <1>1, SettledStays

-----------------------------------------------------------------------------
(* Saving. *)

\* The steps of a save before its last: they keep the draft, and only one of them
\* writes its row.
LEMMA SaveGoesOn ==
    ASSUME SInv, NEW c \in Calls, Local(c), Same(c), sess[c] # None,
           ~Settles(work[c]), ~Tries(work'[c]),
           UNCHANGED <<journal, delivered, appended, composed, excused>>,
           saves' \in Int, rows' = [t \in Texts |-> rows'[t]],
           work'[c].first /\ work'[c].at # "idle" => ~sess[c].saved,
           \A u \in Texts : rows'[u] = rows[u] \/ Has(sess[c], u),
           rows' = rows \/ work'[c].at = "tidy",
           work[c].at \in {"tidy", "append"} => work'[c].at \in {"tidy", "append"}
    PROVE  SInv'
<1>1. Shrinks(c) /\ sess'[c] = sess[c]
  BY DEF Shrinks, Same
<1>2. Form'
  BY <1>1, ShrinkForm DEF SInv, Form
<1>3. Origins'
  <2>1. \A u \in Texts : rows'[u] # {} \/ appended'[u] # 0 => u \in composed
    BY DEF SInv, Origins
  <2> QED BY <1>1, <2>1, ShrinkOrigins DEF SInv, Origins
<1>4. Own'
  <2>1. ASSUME NEW u \in Texts, New(sess'[c], u), work'[c].at \notin {"tidy", "append"}
        PROVE  work[c].at \notin {"tidy", "append"} /\ rows'[u] = {}
    <3>1. New(sess[c], u) /\ work[c].at \notin {"tidy", "append"} /\ rows' = rows
      BY <1>1, <2>1
    <3> QED BY <3>1 DEF SInv, Own
  <2> QED BY <1>1, <2>1, ShrinkOwn DEF SInv
<1>5. Attempts' /\ JournalHonest'
  <2>1. \A o \in Calls : Tries(work'[o]) => work'[o] = work[o] /\ sess'[o].text = sess[o].text
    BY DEF Local
  <2> QED BY <2>1, AttemptsStay DEF SInv, outbox
<1>6. Once'
  BY OnceStays DEF SInv
<1>7. Settled'
  <2>1. \A u \in Texts \ excused : Taken(u) => ~Has(sess[c], u)
    BY Untaken DEF SInv
  <2> QED BY <1>1, <2>1, ShrinkSettled DEF SInv
<1> QED BY <1>2, <1>3, <1>4, <1>5, <1>6, <1>7 DEF SInv

\* The start of a save.
LEMMA SaveStartKeeps ==
    ASSUME SInv, NEW c \in Calls, SaveStart(c)
    PROVE  SInv'
<1> DEFINE w == [Idle EXCEPT !.at = "stage", !.gen = saves + 1, !.first = ~sess[c].saved]
<1>1. /\ work[c].at = "idle" /\ sess[c] # None /\ work' = [work EXCEPT ![c] = w]
      /\ saves' = saves + 1
      /\ UNCHANGED <<rows, sess, shelf, journal, delivered, appended, composed, excused>>
  BY DEF SaveStart, InDraft, Ready, disk, outbox
<1>2. w \in WorkType /\ w.at = "stage" /\ w.first = ~sess[c].saved
  <2>1. ASSUME NEW v \in WorkType, NEW b \in BOOLEAN, NEW g \in Int
        PROVE  [v EXCEPT !.at = "stage", !.gen = g, !.first = b] \in WorkType
    BY DEF WorkType, Places
  <2>2. (~sess[c].saved) \in BOOLEAN
    OBVIOUS
  <2>3. saves + 1 \in Int
    BY DEF SInv, Form
  <2>4. w \in WorkType
    BY <2>1, <2>2, <2>3, IdleType, Zenon
  <2> QED BY <2>4, IdleType DEF WorkType
<1> HIDE DEF w
<1>3. Local(c) /\ Same(c) /\ work'[c] = w
  BY <1>1, <1>2 DEF SInv, Form, Local, Same
<1>4. ~Settles(work[c]) /\ ~Tries(work'[c])
  BY <1>1, <1>2, <1>3 DEF Settles, Tries
<1>5. saves' \in Int /\ rows' = [t \in Texts |-> rows'[t]]
  BY <1>1 DEF SInv, Form
<1> QED BY <1>1, <1>2, <1>3, <1>4, <1>5, SaveGoesOn

\* Its steps.
LEMMA SaveStepsKeep ==
    ASSUME SInv, NEW c \in Calls, SaveStage(c) \/ SaveRow(c) \/ SaveTidy(c)
    PROVE  SInv'
<1>1. /\ work[c].at \in {"stage", "row", "tidy"} /\ sess[c] # None
      /\ UNCHANGED <<journal, delivered, appended, composed, excused, saves>>
  BY DEF SaveStage, SaveRow, SaveTidy, At, SInv, Form, outbox, counts, ghosts, Fault
<1>2. \/ /\ Local(c) /\ Same(c) /\ work'[c] = Idle
         /\ rows' = rows /\ work[c].at # "tidy"
      \/ /\ Local(c) /\ Same(c) /\ work'[c].at \in {"row", "append"} /\ work'[c].first = work[c].first
         /\ rows' = rows /\ (work[c].at = "tidy" => work'[c].at = "append")
      \/ /\ Local(c) /\ Same(c) /\ work'[c].at = "tidy" /\ work'[c].first = work[c].first
         /\ rows' = [rows EXCEPT ![sess[c].text] = {NewRow(c)}]
  <2>1. CASE SaveStage(c)
    BY <2>1, GoesOn, ReviewEnds DEF SaveStage, At, SInv, Places
  <2>2. CASE SaveRow(c)
    BY <2>2, GoesOn, ReviewEnds DEF SaveRow, At, SInv, Places
  <2>3. CASE SaveTidy(c)
    BY <2>3, GoesOn DEF SaveTidy, At, SInv, Places
  <2> QED BY <2>1, <2>2, <2>3
<1>3. Local(c) /\ Same(c) /\ ~Settles(work[c]) /\ ~Tries(work'[c]) /\ saves' \in Int
  BY <1>1, <1>2, IdleType DEF SInv, Form, Settles, Tries
<1>4. rows' = [t \in Texts |-> rows'[t]]
  BY <1>2 DEF SInv, Form
<1>5. \A u \in Texts : rows'[u] = rows[u] \/ Has(sess[c], u)
  BY <1>1, <1>2 DEF SInv, Form, Has
<1>6. rows' = rows \/ work'[c].at = "tidy"
  BY <1>2
<1>7. work[c].at \in {"tidy", "append"} => work'[c].at \in {"tidy", "append"}
  BY <1>1, <1>2
<1>8. work'[c].first /\ work'[c].at # "idle" => ~sess[c].saved
  BY <1>1, <1>2, IdleType DEF SInv, Own
<1> QED BY <1>1, <1>3, <1>4, <1>5, <1>6, <1>7, <1>8, SaveGoesOn

\* Its end: the copy is the first of its draft, which no call goes on with as one
\* that was never saved.
LEMMA SaveAppendKeeps ==
    ASSUME SInv, NEW c \in Calls, SaveAppend(c)
    PROVE  SInv'
<1> DEFINE t == sess[c].text
<1>1. /\ work[c].at = "append" /\ sess[c] # None /\ t \in Texts
      /\ UNCHANGED <<rows, journal, delivered, composed, excused, saves>>
      /\ \/ work[c].first /\ appended' = [appended EXCEPT ![t] = @ + 1]
         \/ UNCHANGED appended
  BY DEF SaveAppend, At, SInv, Form, Drafted, disk, outbox, counts, ghosts
<1>2. Local(c) /\ sess'[c] = None /\ shelf'[c] = {} /\ work'[c] = Idle /\ work'[c].at = "idle"
  BY MainEnds, IdleType DEF SaveAppend, SInv
<1>3. Shrinks(c) /\ Has(sess[c], t)
  BY <1>1, <1>2 DEF Shrinks, Has
<1>4. appended' \in [Texts -> Nat]
  <2>1. appended \in [Texts -> Nat] /\ appended[t] + 1 \in Nat
    BY <1>1 DEF SInv, Form
  <2> QED BY <1>1, <2>1
<1>5. /\ \A u \in Texts : appended'[u] = appended[u] \/ (u = t /\ New(sess[c], t) /\ appended[t] = 0 /\ appended'[t] = 1)
  BY <1>1, <1>3 DEF SInv, Form, Own, New, Has
<1> HIDE DEF t
<1>6. Form'
  BY <1>1, <1>2, <1>3, <1>4, ShrinkForm DEF SInv, Form
<1>7. Origins'
  <2>1. \A u \in Texts : rows'[u] # {} \/ appended'[u] # 0 => u \in composed
    BY <1>1, <1>3, <1>5 DEF SInv, Origins
  <2> QED BY <1>1, <1>3, <2>1, ShrinkOrigins DEF SInv, Origins
<1>8. Own'
  <2>1. \A u \in Texts : appended'[u] <= 1
    BY <1>5 DEF SInv, Own
  <2>2. \A o \in Calls : work'[o].first /\ work'[o].at # "idle" => ~sess'[o].saved
    BY <1>2 DEF SInv, Own, Local
  <2>3. ASSUME NEW o \in Calls, NEW u \in Texts, New(sess'[o], u)
        PROVE  /\ New(sess[o], u) /\ appended'[u] = 0
               /\ work'[o].at \notin {"tidy", "append"} =>
                     rows'[u] = {} /\ \A q \in Calls : ~Lists(shelf'[q], u) /\ (Has(sess'[q], u) => q = o)
    <3>1. New(sess[o], u) /\ o # c
      BY <1>2, <1>3, <2>3, ShrinkHas DEF New, Has
    <3>2. appended[u] = 0 /\ ~New(sess[c], u)
      BY <3>1 DEF SInv, Own
    <3>3. appended'[u] = 0
      BY <1>5, <3>2
    <3>4. ASSUME work'[o].at \notin {"tidy", "append"}
          PROVE  rows'[u] = {} /\ \A q \in Calls : ~Lists(shelf'[q], u) /\ (Has(sess'[q], u) => q = o)
      <4>1. work[o].at \notin {"tidy", "append"}
        BY <1>2, <3>1, <3>4 DEF Local
      <4>2. rows[u] = {} /\ \A q \in Calls : ~Lists(shelf[q], u) /\ (Has(sess[q], u) => q = o)
        BY <3>1, <4>1 DEF SInv, Own
      <4> QED BY <1>1, <1>3, <4>2, ShrinkHas
    <3> QED BY <3>1, <3>3, <3>4
  <2> QED BY <2>1, <2>2, <2>3, OwnStays DEF SInv
<1>9. Attempts' /\ JournalHonest'
  <2>1. \A o \in Calls : Tries(work'[o]) => work'[o] = work[o] /\ sess'[o].text = sess[o].text
    BY <1>2 DEF Local, Tries
  <2> QED BY <1>1, <2>1, AttemptsStay DEF SInv, outbox
<1>10. Once'
  BY <1>1, OnceStays DEF SInv
<1>11. Settled'
  <2>1. \A u \in Texts \ excused : Taken(u) => ~Has(sess[c], u)
    BY <1>1, Untaken DEF SInv, Settles
  <2> QED BY <1>1, <1>2, <1>3, <2>1, ShrinkSettled DEF SInv
<1> QED BY <1>6, <1>7, <1>8, <1>9, <1>10, <1>11 DEF SInv

-----------------------------------------------------------------------------
(* Sending. *)

\* Journalling an attempt gives it an entry of its own; a failure changes nothing
\* the proof speaks of.
LEMMA SendStartKeeps ==
    ASSUME SInv, NEW c \in Calls, SendStart(c)
    PROVE  SInv'
<1> DEFINE w == [Idle EXCEPT !.at = "submit", !.attempt = Len(journal) + 1]
           entry == [text |-> sess[c].text, status |-> "pending"]
<1>1. /\ work[c].at = "idle" /\ sess[c] # None /\ saves' = saves
      /\ UNCHANGED <<rows, sess, shelf, delivered, appended, composed, excused>>
      /\ \/ journal' = Append(journal, entry) /\ work' = [work EXCEPT ![c] = w]
         \/ UNCHANGED <<journal, work>>
  BY DEF SendStart, InDraft, Ready, disk, counts, Fault
<1>2. CASE UNCHANGED <<journal, work>>
  BY <1>1, <1>2, NothingHappens
<1>3. CASE journal' = Append(journal, entry) /\ work' = [work EXCEPT ![c] = w]
  <2>1. journal \in Seq(EntryType) /\ Len(journal) \in Nat /\ sess[c].text \in Texts
    BY <1>1 DEF SInv, Form, Drafted
  <2>2. entry \in EntryType
    BY <2>1 DEF EntryType, Statuses
  <2>3. /\ journal' \in Seq(EntryType) /\ Len(journal') = Len(journal) + 1
        /\ journal'[Len(journal) + 1] = entry
        /\ \A n \in 1..Len(journal) : journal'[n] = journal[n]
    BY <1>3, <2>1, <2>2
  <2>4. w \in WorkType /\ w.at = "submit" /\ w.attempt = Len(journal) + 1 /\ ~w.first
    <3>1. ASSUME NEW v \in WorkType, NEW k \in Int
          PROVE  /\ [v EXCEPT !.at = "submit", !.attempt = k] \in WorkType
                 /\ [v EXCEPT !.at = "submit", !.attempt = k].at = "submit"
                 /\ [v EXCEPT !.at = "submit", !.attempt = k].attempt = k
                 /\ [v EXCEPT !.at = "submit", !.attempt = k].first = v.first
      BY DEF WorkType, Places
    <3>2. Idle \in WorkType /\ ~Idle.first /\ Len(journal) + 1 \in Int
      BY <2>1, IdleType DEF Idle
    <3> QED BY <3>1, <3>2, Zenon
  <2> HIDE DEF w, entry
  <2>5. Local(c) /\ Same(c) /\ Shrinks(c) /\ work'[c] = w
    BY <1>1, <1>3, <2>4 DEF SInv, Form, Local, Same, Shrinks
  <2>6. Form'
    BY <1>1, <2>3, <2>5, ShrinkForm DEF SInv, Form, Same
  <2>7. Has(sess[c], sess[c].text) /\ sess[c].text \in composed
    BY <1>1, <2>1 DEF SInv, Origins, Has
  <2>8. Origins'
    <3>1. \A n \in 1..Len(journal') : journal'[n].text \in composed
      BY <2>1, <2>3, <2>7 DEF SInv, Origins, entry
    <3> QED BY <1>1, <2>5, <3>1, ShrinkOrigins DEF SInv, Origins
  <2>9. Own'
    <3>1. ASSUME NEW u \in Texts, New(sess'[c], u)
          PROVE  work[c].at \notin {"tidy", "append"} /\ rows'[u] = {}
      BY <1>1, <2>5, <3>1 DEF SInv, Own, Same
    <3> QED BY <1>1, <2>4, <2>5, <3>1, ShrinkOwn DEF SInv
  <2>10. Attempts'
    <3>1. delivered' \subseteq 1..Len(journal') /\ Len(journal) + 1 \notin delivered
      BY <1>1, <2>1, <2>3 DEF SInv, Attempts
    <3>2. ASSUME NEW o \in Calls, Tries(work'[o])
          PROVE  /\ work'[o].attempt \in 1..Len(journal')
                 /\ journal'[work'[o].attempt] = [text |-> sess'[o].text, status |-> "pending"]
                 /\ \A q \in Calls : Tries(work'[q]) /\ work'[q].attempt = work'[o].attempt => q = o
      <4>1. ASSUME NEW q \in Calls, q # c, Tries(work'[q])
            PROVE  /\ work'[q] = work[q] /\ sess'[q] = sess[q] /\ work[q].attempt \in 1..Len(journal)
                   /\ journal[work[q].attempt] = [text |-> sess[q].text, status |-> "pending"]
        <5>1. work'[q] = work[q] /\ sess'[q] = sess[q]
          BY <2>5, <4>1 DEF Local
        <5> QED BY <4>1, <5>1 DEF SInv, Attempts
      <4>2. work'[c].attempt = Len(journal) + 1 /\ sess'[c] = sess[c]
        BY <2>4, <2>5 DEF Same
      <4>3. ASSUME NEW q \in Calls, q # c, Tries(work'[q])
            PROVE  work'[q].attempt # Len(journal) + 1
        <5>1. work'[q] = work[q] /\ work[q].attempt \in 1..Len(journal)
          BY <4>1, <4>3
        <5> QED BY <2>1, <5>1
      <4>4. CASE o = c
        BY <2>1, <2>3, <4>2, <4>3, <4>4 DEF entry
      <4>5. CASE o # c
        <5>1. work[o].attempt \in 1..Len(journal') /\ journal'[work[o].attempt] = journal[work[o].attempt]
          <6>1. work[o].attempt \in 1..Len(journal)
            BY <3>2, <4>1, <4>5
          <6> QED BY <2>1, <2>3, <6>1
        <5>2. ASSUME NEW q \in Calls, Tries(work'[q]), work'[q].attempt = work'[o].attempt PROVE q = o
          <6>1. q # c
            BY <3>2, <4>2, <4>3, <4>5, <5>2
          <6>2. Tries(work[q]) /\ Tries(work[o]) /\ work[q].attempt = work[o].attempt
            BY <3>2, <4>1, <4>5, <5>2, <6>1
          <6> QED BY <6>2 DEF SInv, Attempts
        <5> QED BY <3>2, <4>1, <4>5, <5>1, <5>2
      <4> QED BY <4>4, <4>5
    <3>3. ASSUME NEW o \in Calls
          PROVE  /\ work'[o].at = "submit" => work'[o].attempt \notin delivered'
                 /\ work'[o].at = "record" => work'[o].outcome \in Outcomes
                 /\ work'[o].at = "record" /\ work'[o].outcome = "accepted" => work'[o].attempt \in delivered'
                 /\ work'[o].at = "record" /\ work'[o].outcome = "rejected" => work'[o].attempt \notin delivered'
      <4>1. CASE o = c
        BY <1>1, <2>4, <2>5, <3>1, <4>1
      <4>2. CASE o # c
        <5>1. work'[o] = work[o] /\ delivered' = delivered
          BY <1>1, <2>5, <4>2 DEF Local
        <5> QED BY <5>1 DEF SInv, Attempts
      <4> QED BY <4>1, <4>2
    <3> QED BY <3>1, <3>2, <3>3 DEF Attempts
  <2>11. JournalHonest'
    BY <1>1, <2>1, <2>3 DEF SInv, JournalHonest, entry
  <2>12. \A n \in delivered' : n \in delivered /\ journal'[n].text = journal[n].text
    BY <1>1, <2>3 DEF SInv, Attempts
  <2>13. Once'
    BY <1>1, <2>12, OnceStays DEF SInv
  <2>14. Settled'
    <3>1. \A u \in Texts \ excused : Taken(u) => ~Has(sess[c], u)
      BY <1>1, Untaken DEF SInv, Settles
    <3> QED BY <1>1, <2>5, <2>12, <3>1, ShrinkSettled DEF SInv
  <2> QED BY <2>6, <2>8, <2>9, <2>10, <2>11, <2>13, <2>14 DEF SInv
<1> QED BY <1>1, <1>2, <1>3

\* After an accepted message: its row goes, then its files.
LEMMA CleanUpKeeps ==
    ASSUME SInv, NEW c \in Calls, Drop(c) \/ Wipe(c)
    PROVE  SInv'
<1> DEFINE t == sess[c].text
<1>1. /\ work[c].at \in {"drop", "wipe"} /\ sess[c] # None /\ t \in Texts
      /\ UNCHANGED <<journal, delivered, appended, composed, saves>> /\ excused \subseteq excused'
  BY DEF Drop, Wipe, At, SInv, Form, Drafted, outbox, counts, ghosts, Fault
<1>2. \/ /\ Local(c) /\ Same(c) /\ work'[c].at = "wipe" /\ work'[c].first = work[c].first
         /\ work[c].at = "drop" /\ rows' = [rows EXCEPT ![t] = {}]
      \/ /\ Local(c) /\ sess'[c] = None /\ shelf'[c] = {} /\ work'[c] = Idle
         /\ rows' = rows
         /\ work[c].at = "wipe" \/ rows[t] = {} \/ t \in excused'
  <2>1. CASE Drop(c)
    BY <2>1, GoesOn, MainEnds DEF Drop, At, SInv, Places
  <2>2. CASE Wipe(c)
    BY <2>2, MainEnds DEF Wipe, At, SInv
  <2> QED BY <2>1, <2>2
<1>3. Shrinks(c) /\ Has(sess[c], t) /\ \A u \in Texts : Has(sess[c], u) => u = t
  BY <1>1, <1>2 DEF Shrinks, Has
<1>4. /\ rows' = [u \in Texts |-> rows'[u]]
      /\ \A u \in Texts : rows'[u] = rows[u] \/ rows'[u] = {}
      /\ \A u \in Texts : rows'[u] # {} /\ u = t => rows' = rows
  BY <1>1, <1>2 DEF SInv, Form
<1> HIDE DEF t
<1>5. Form'
  BY <1>1, <1>2, <1>3, <1>4, IdleType, ShrinkForm DEF SInv, Form, Same
<1>6. Origins'
  <2>1. \A u \in Texts : rows'[u] # {} \/ appended'[u] # 0 => u \in composed
    BY <1>1, <1>4 DEF SInv, Origins
  <2> QED BY <1>1, <1>3, <2>1, ShrinkOrigins DEF SInv, Origins
<1>7. Own'
  <2>1. work'[c].first /\ work'[c].at # "idle" => ~sess'[c].saved
    BY <1>1, <1>2, IdleType DEF SInv, Own, Same
  <2>2. ASSUME NEW u \in Texts, New(sess'[c], u)
        PROVE  work[c].at \notin {"tidy", "append"} /\ rows'[u] = {}
    <3>1. New(sess[c], u) /\ work[c].at \notin {"tidy", "append"}
      BY <1>1, <1>3, <2>2, ShrinkHas
    <3> QED BY <1>4, <3>1 DEF SInv, Own
  <2> QED BY <1>1, <1>3, <1>4, <2>1, <2>2, ShrinkOwn DEF SInv
<1>8. Attempts' /\ JournalHonest'
  <2>1. \A o \in Calls : Tries(work'[o]) => work'[o] = work[o] /\ sess'[o].text = sess[o].text
    BY <1>2, IdleType DEF Local, Tries
  <2> QED BY <1>1, <2>1, AttemptsStay DEF SInv, outbox
<1>9. Once'
  BY <1>1, OnceStays DEF SInv
<1>10. Settled'
  <2>1. ASSUME NEW u \in Texts \ excused', Taken(u), Has(sess[c], u)
        PROVE  sess'[c] = None \/ (Same(c) /\ Settles(work'[c]))
    BY <1>2 DEF Settles
  <2>2. ASSUME NEW u \in Texts \ excused', Taken(u), rows'[u] # {}
        PROVE  rows[u] # {} /\ (Has(sess[c], u) => Same(c) /\ Deletes(work'[c], sess[c]))
    <3>1. rows[u] # {}
      BY <1>4, <2>2
    <3>2. ASSUME Has(sess[c], u) PROVE FALSE
      <4>1. u = t /\ rows' = rows
        BY <1>3, <1>4, <2>2, <3>2
      <4>2. PICK o \in Calls : Has(sess[o], u) /\ Deletes(work[o], sess[o])
        BY <1>1, <2>2, <3>1 DEF SInv, Settled
      <4>3. o = c
        BY <1>1, <2>2, <3>2, <4>2 DEF SInv, Settled
      <4>4. work[c].at = "drop"
        BY <1>1, <4>2, <4>3 DEF Deletes
      <4>5. rows[t] = {} \/ t \in excused' \/ rows'[t] = {}
        BY <1>1, <1>2, <4>4 DEF SInv, Form
      <4> QED BY <2>2, <3>1, <4>1, <4>5
    <3> QED BY <3>1, <3>2
  <2> QED BY <1>1, <1>3, <2>1, <2>2, ShrinkSettled DEF SInv
<1> QED BY <1>5, <1>6, <1>7, <1>8, <1>9, <1>10 DEF SInv

\* The outcome of an attempt is known to its handler.
LEMMA OutcomeKnown ==
    ASSUME Form, NEW c \in Calls, NEW r \in Outcomes, Outcome(c, r), UNCHANGED <<sess, shelf>>
    PROVE  /\ Local(c) /\ Same(c) /\ work'[c].at = "record" /\ work'[c].outcome = r
           /\ work'[c].attempt = work[c].attempt /\ work'[c].first = work[c].first
<1> DEFINE w == [work[c] EXCEPT !.at = "record", !.outcome = r]
<1>1. work[c] \in WorkType /\ work' = [work EXCEPT ![c] = w]
  BY DEF Form, Outcome
<1>2. /\ w \in WorkType /\ w.at = "record" /\ w.outcome = r
      /\ w.attempt = work[c].attempt /\ w.first = work[c].first
  BY <1>1 DEF WorkType, Places, Outcomes
<1> HIDE DEF w
<1> QED BY <1>1, <1>2 DEF Form, Local, Same

\* The server's answer: an accepted message was not taken before, and nobody else
\* holds or lists it, or it is excused.
LEMMA SubmitKeeps ==
    ASSUME SInv, NEW c \in Calls, Submit(c)
    PROVE  SInv'
<1> DEFINE t == sess[c].text
           a == work[c].attempt
           shared == \E o \in Others(c) : Holds(o, t) \/ (\E d \in shelf[o] : d.text = t)
<1>1. /\ work[c].at = "submit" /\ sess[c] # None /\ t \in Texts
      /\ UNCHANGED <<rows, sess, shelf, journal, appended, composed, saves>>
  BY DEF Submit, At, SInv, Form, Drafted, disk, counts, Fault
<1>2. \/ /\ Outcome(c, "accepted") /\ delivered' = delivered \cup {a}
         /\ excused' = IF shared THEN excused \cup {t} ELSE excused
      \/ /\ Outcome(c, "rejected") /\ UNCHANGED <<delivered, excused>>
      \/ /\ Outcome(c, "uncertain") /\ delivered' \in {delivered, delivered \cup {a}}
         /\ excused' = excused \cup {t}
  BY DEF Submit
<1>3. \E r \in Outcomes : Outcome(c, r) /\ work'[c].outcome = r
  BY <1>1, <1>2, OutcomeKnown DEF Outcomes, SInv
<1>4. /\ Local(c) /\ Same(c) /\ Shrinks(c) /\ work'[c].at = "record"
      /\ work'[c].attempt = a /\ work'[c].first = work[c].first
  BY <1>1, <1>3, OutcomeKnown DEF SInv, Shrinks
<1>5. \/ /\ work'[c].outcome = "accepted" /\ delivered' = delivered \cup {a}
         /\ excused' = IF shared THEN excused \cup {t} ELSE excused
      \/ /\ work'[c].outcome = "rejected" /\ UNCHANGED <<delivered, excused>>
      \/ /\ work'[c].outcome = "uncertain" /\ delivered' \in {delivered, delivered \cup {a}}
         /\ excused' = excused \cup {t}
  BY <1>1, <1>2, OutcomeKnown DEF Outcomes, SInv
<1>6. /\ a \in 1..Len(journal) /\ journal[a].text = t /\ journal[a].status = "pending"
      /\ a \notin delivered
      /\ \A o \in Calls : Tries(work[o]) /\ work[o].attempt = a => o = c
  <2>1. Tries(work[c])
    BY <1>1 DEF Tries
  <2>2. /\ a \in 1..Len(journal) /\ journal[a] = [text |-> t, status |-> "pending"]
        /\ \A o \in Calls : Tries(work[o]) /\ work[o].attempt = a => o = c
    BY <2>1 DEF SInv, Attempts
  <2>3. a \notin delivered
    BY <1>1 DEF SInv, Attempts
  <2> QED BY <2>2, <2>3
<1>7. Has(sess[c], t) /\ \A u \in Texts : Has(sess[c], u) => u = t
  BY <1>1 DEF Has
<1>8. delivered' \in {delivered, delivered \cup {a}} /\ excused \subseteq excused'
  BY <1>5
<1>9. t \notin excused' => work'[c].outcome \in {"accepted", "rejected"}
  BY <1>5
<1>10. t \notin excused' /\ work'[c].outcome = "accepted" => ~shared
  BY <1>5
<1>11. work'[c].outcome # "accepted" /\ t \notin excused' => delivered' = delivered
  BY <1>5
<1> HIDE DEF t, a, shared
<1>12. Form'
  BY <1>1, <1>4, ShrinkForm DEF SInv, Form, Same
<1>13. Origins'
  BY <1>1, <1>4, ShrinkOrigins DEF SInv, Origins
<1>14. Own'
  <2>1. ASSUME NEW u \in Texts, New(sess'[c], u)
        PROVE  work[c].at \notin {"tidy", "append"} /\ rows'[u] = {}
    BY <1>1, <2>1 DEF SInv, Own
  <2> QED BY <1>1, <1>4, <2>1, ShrinkOwn DEF SInv, Own, Same
<1>15. Attempts'
  <2>1. ASSUME NEW o \in Calls, Tries(work'[o])
        PROVE  Tries(work[o]) /\ work'[o].attempt = work[o].attempt /\ sess'[o] = sess[o]
    <3>1. CASE o = c
      BY <1>1, <1>4, <3>1 DEF Tries, a
    <3>2. CASE o # c
      <4>1. work'[o] = work[o] /\ sess'[o] = sess[o]
        BY <1>4, <3>2 DEF Local
      <4> QED BY <2>1, <4>1
    <3> QED BY <3>1, <3>2
  <2>2. ASSUME NEW o \in Calls, o # c, Tries(work'[o])
        PROVE  work'[o] = work[o] /\ work[o].attempt # a
    BY <1>4, <1>6, <2>1, <2>2 DEF Local
  <2>3. delivered' \subseteq 1..Len(journal')
    BY <1>1, <1>6, <1>8 DEF SInv, Attempts
  <2>4. ASSUME NEW o \in Calls, Tries(work'[o])
        PROVE  /\ work'[o].attempt \in 1..Len(journal')
               /\ journal'[work'[o].attempt] = [text |-> sess'[o].text, status |-> "pending"]
               /\ \A q \in Calls : Tries(work'[q]) /\ work'[q].attempt = work'[o].attempt => q = o
    <3>1. /\ work[o].attempt \in 1..Len(journal)
          /\ journal[work[o].attempt] = [text |-> sess[o].text, status |-> "pending"]
          /\ \A q \in Calls : Tries(work[q]) /\ work[q].attempt = work[o].attempt => q = o
      BY <2>1, <2>4 DEF SInv, Attempts
    <3> QED BY <1>1, <2>1, <2>4, <3>1
  <2>5. ASSUME NEW o \in Calls
        PROVE  /\ work'[o].at = "submit" => work'[o].attempt \notin delivered'
               /\ work'[o].at = "record" => work'[o].outcome \in Outcomes
               /\ work'[o].at = "record" /\ work'[o].outcome = "accepted" => work'[o].attempt \in delivered'
               /\ work'[o].at = "record" /\ work'[o].outcome = "rejected" => work'[o].attempt \notin delivered'
    <3>1. CASE o = c
      BY <1>4, <1>5, <1>6, <3>1 DEF Outcomes
    <3>2. CASE o # c
      <4>1. /\ work[o].at = "submit" => work[o].attempt \notin delivered
            /\ work[o].at = "record" => work[o].outcome \in Outcomes
            /\ work[o].at = "record" /\ work[o].outcome = "accepted" => work[o].attempt \in delivered
            /\ work[o].at = "record" /\ work[o].outcome = "rejected" => work[o].attempt \notin delivered
        BY DEF SInv, Attempts
      <4>2. work'[o] = work[o] /\ (work[o].at \in {"submit", "record"} => work[o].attempt # a)
        BY <1>4, <1>6, <3>2 DEF Local, Tries
      <4> QED BY <1>8, <4>1, <4>2
    <3> QED BY <3>1, <3>2
  <2> QED BY <2>3, <2>4, <2>5 DEF Attempts
<1>16. JournalHonest'
  BY <1>1, <1>6, <1>8 DEF SInv, JournalHonest
\* Nobody sent it before: its call does not settle it.
<1>17. t \in excused' \/ ~Taken(t)
  BY <1>1, <1>7, <1>8, Untaken DEF SInv, Settles
<1>18. ASSUME NEW u \in Texts \ excused', u # t
       PROVE  \A n \in delivered' : journal[n].text = u => n \in delivered
  BY <1>6, <1>8, <1>18
<1>19. Once'
  <2>1. ASSUME NEW u \in Texts \ excused', NEW m \in delivered', NEW n \in delivered',
               journal[m].text = u, journal[n].text = u
        PROVE  m = n
    <3>1. CASE u = t
      BY <1>8, <1>17, <2>1, <3>1 DEF Taken
    <3>2. CASE u # t
      BY <1>8, <1>18, <2>1, <3>2 DEF SInv, Once
    <3> QED BY <3>1, <3>2
  <2> QED BY <1>1, <2>1 DEF Once
<1>20. Settled'
  <2>1. ASSUME NEW u \in Texts \ excused', \E n \in delivered' : journal[n].text = u
        PROVE  /\ \A o \in Calls : Lists(shelf'[o], u) => Has(sess'[o], u)
               /\ \A o \in Calls : Has(sess'[o], u) => Settles(work'[o]) /\ \A q \in Calls : Has(sess'[q], u) => q = o
               /\ rows'[u] # {} => \E o \in Calls : Has(sess'[o], u) /\ Deletes(work'[o], sess'[o])
    <3>1. CASE u = t
      <4>1. work'[c].outcome = "accepted" /\ ~shared
        BY <1>10, <1>11, <1>17, <2>1, <3>1 DEF Taken
      <4>2. \A o \in Calls : o # c => ~Has(sess[o], t) /\ ~Lists(shelf[o], t)
        BY <4>1 DEF shared, Others, Holds, Has, Lists
      <4>3. Settles(work'[c])
        BY <1>4, <4>1 DEF Settles
      <4>4. rows[t] # {} => Deletes(work'[c], sess[c])
        <5>1. rows[t] # {} => sess[c].saved
          BY <1>1, <1>7 DEF SInv, Own, New
        <5> QED BY <1>4, <4>1, <5>1 DEF Deletes
      <4> QED BY <1>1, <1>7, <3>1, <4>2, <4>3, <4>4
    <3>2. CASE u # t
      <4>1. Taken(u) /\ u \notin excused
        BY <1>8, <1>18, <2>1, <3>2 DEF Taken
      <4>2. /\ \A o \in Calls : Lists(shelf[o], u) => Has(sess[o], u)
            /\ \A o \in Calls : Has(sess[o], u) => Settles(work[o]) /\ \A q \in Calls : Has(sess[q], u) => q = o
            /\ rows[u] # {} => \E o \in Calls : Has(sess[o], u) /\ Deletes(work[o], sess[o])
        BY <4>1 DEF SInv, Settled
      <4>3. \A o \in Calls : Has(sess[o], u) => work'[o] = work[o]
        BY <1>4, <1>7, <3>2 DEF Local
      <4> QED BY <1>1, <4>2, <4>3
    <3> QED BY <3>1, <3>2
  <2> QED BY <1>1, <2>1 DEF Settled, Taken
<1> QED BY <1>12, <1>13, <1>14, <1>15, <1>16, <1>19, <1>20 DEF SInv

\* The outcome is written down, or not; the handler goes on only after an accepted
\* message, and only when there is a draft to delete.
LEMMA RecordKeeps ==
    ASSUME SInv, NEW c \in Calls, Record(c)
    PROVE  SInv'
<1> DEFINE a == work[c].attempt
           r == work[c].outcome
<1>1. /\ work[c].at = "record" /\ sess[c] # None
      /\ UNCHANGED <<rows, delivered, appended, composed, excused, saves>>
      /\ journal' = [journal EXCEPT ![a].status = r] \/ journal' = journal
  BY DEF Record, At, SInv, Form, disk, counts, ghosts, Fault
<1>2. \/ /\ r # "accepted" /\ Local(c) /\ Same(c) /\ work'[c] = Idle
      \/ /\ r = "accepted" /\ sess[c].saved /\ Local(c) /\ Same(c)
         /\ work'[c].at = "drop" /\ work'[c].first = work[c].first
      \/ /\ r = "accepted" /\ ~sess[c].saved
         /\ Local(c) /\ sess'[c] = None /\ shelf'[c] = {} /\ work'[c] = Idle
  <2>1. CASE r # "accepted"
    <3>1. ToReview(c)
      BY <2>1 DEF Record
    <3> QED BY <2>1, <3>1, ReviewEnds DEF SInv
  <2>2. CASE r = "accepted" /\ sess[c].saved
    <3>1. Goto(c, "drop") /\ UNCHANGED <<sess, shelf>>
      BY <2>2 DEF Record
    <3> QED BY <2>2, <3>1, GoesOn DEF SInv, Places
  <2>3. CASE r = "accepted" /\ ~sess[c].saved
    <3>1. ToMain(c)
      BY <2>3 DEF Record
    <3> QED BY <2>3, <3>1, MainEnds DEF SInv
  <2> QED BY <2>1, <2>2, <2>3
<1>3. Shrinks(c) /\ ~Tries(work'[c])
  BY <1>2, IdleType DEF Shrinks, Tries
<1>4. /\ a \in 1..Len(journal) /\ r \in Outcomes
      /\ r = "accepted" => a \in delivered
      /\ r = "rejected" => a \notin delivered
      /\ \A o \in Calls : Tries(work[o]) /\ work[o].attempt = a => o = c
  <2>1. Tries(work[c])
    BY <1>1 DEF Tries
  <2>2. a \in 1..Len(journal) /\ \A o \in Calls : Tries(work[o]) /\ work[o].attempt = a => o = c
    BY <2>1 DEF SInv, Attempts
  <2>3. /\ r \in Outcomes
        /\ (r = "accepted" => a \in delivered) /\ (r = "rejected" => a \notin delivered)
    BY <1>1 DEF SInv, Attempts
  <2> QED BY <2>2, <2>3
<1>5. /\ journal' \in Seq(EntryType) /\ Len(journal') = Len(journal)
      /\ \A n \in 1..Len(journal) : journal'[n].text = journal[n].text
      /\ \A n \in 1..Len(journal) : n # a => journal'[n] = journal[n]
      /\ journal' = journal \/ journal'[a].status = r
  <2>1. journal \in Seq(EntryType) /\ journal[a] \in EntryType
    BY <1>4 DEF SInv, Form
  <2>2. [journal[a] EXCEPT !.status = r] \in EntryType
    BY <1>4, <2>1 DEF EntryType, Statuses, Outcomes
  <2>3. /\ [journal[a] EXCEPT !.status = r].text = journal[a].text
        /\ [journal[a] EXCEPT !.status = r].status = r
    BY <2>1 DEF EntryType
  <2>4. CASE journal' = [journal EXCEPT ![a].status = r]
    <3>1. journal' = [journal EXCEPT ![a] = [journal[a] EXCEPT !.status = r]]
      BY <2>4
    <3> QED BY <1>4, <2>1, <2>2, <2>3, <3>1
  <2> QED BY <1>1, <2>1, <2>4
<1>6. r # "accepted" => ~Settles(work[c])
  BY <1>1 DEF Settles
<1>7. r = "accepted" /\ ~sess[c].saved => \A u \in Texts : Has(sess[c], u) => rows[u] = {}
  BY <1>1 DEF SInv, Own, New
<1>8. \A u \in Texts : New(sess[c], u) => rows[u] = {}
  BY <1>1 DEF SInv, Own
<1> HIDE DEF a, r
<1>9. Form'
  BY <1>1, <1>2, <1>3, <1>5, IdleType, ShrinkForm DEF SInv, Form, Same
<1>10. Origins'
  <2>1. \A n \in 1..Len(journal') : journal'[n].text \in composed
    BY <1>5 DEF SInv, Origins
  <2> QED BY <1>1, <1>3, <2>1, ShrinkOrigins DEF SInv, Origins
<1>11. Own'
  <2>1. work'[c].first /\ work'[c].at # "idle" => ~sess'[c].saved
    BY <1>1, <1>2, IdleType DEF SInv, Own, Same
  <2>2. ASSUME NEW u \in Texts, New(sess'[c], u)
        PROVE  work[c].at \notin {"tidy", "append"} /\ rows'[u] = {}
    <3>1. New(sess[c], u)
      BY <1>3, <2>2, ShrinkHas
    <3> QED BY <1>1, <1>8, <3>1
  <2> QED BY <1>1, <1>3, <2>1, <2>2, ShrinkOwn DEF SInv
<1>12. \A o \in Calls : Tries(work'[o]) =>
          o # c /\ work'[o] = work[o] /\ sess'[o] = sess[o] /\ work[o].attempt # a
  <2>1. ASSUME NEW o \in Calls, Tries(work'[o])
        PROVE  o # c /\ work'[o] = work[o] /\ sess'[o] = sess[o] /\ work[o].attempt # a
    <3>1. o # c
      BY <1>3, <2>1
    <3>2. work'[o] = work[o] /\ sess'[o] = sess[o]
      BY <1>3, <3>1 DEF Shrinks, Local
    <3> QED BY <1>4, <2>1, <3>1, <3>2
  <2> QED BY <2>1
<1>13. Attempts'
  <2>1. delivered' \subseteq 1..Len(journal')
    BY <1>1, <1>5 DEF SInv, Attempts
  <2>2. ASSUME NEW o \in Calls, Tries(work'[o])
        PROVE  /\ work'[o].attempt \in 1..Len(journal')
               /\ journal'[work'[o].attempt] = [text |-> sess'[o].text, status |-> "pending"]
               /\ \A q \in Calls : Tries(work'[q]) /\ work'[q].attempt = work'[o].attempt => q = o
    <3>1. work'[o] = work[o] /\ sess'[o] = sess[o] /\ work[o].attempt # a /\ Tries(work[o])
      BY <1>12, <2>2
    <3>2. /\ work[o].attempt \in 1..Len(journal)
          /\ journal[work[o].attempt] = [text |-> sess[o].text, status |-> "pending"]
          /\ \A q \in Calls : Tries(work[q]) /\ work[q].attempt = work[o].attempt => q = o
      BY <3>1 DEF SInv, Attempts
    <3>3. ASSUME NEW q \in Calls, Tries(work'[q]), work'[q].attempt = work'[o].attempt PROVE q = o
      <4>1. work'[q] = work[q]
        BY <1>12, <3>3
      <4> QED BY <3>1, <3>2, <3>3, <4>1
    <3>4. journal'[work[o].attempt] = journal[work[o].attempt]
      BY <1>5, <3>1, <3>2
    <3> QED BY <1>5, <3>1, <3>2, <3>3, <3>4
  <2>3. ASSUME NEW o \in Calls
        PROVE  /\ work'[o].at = "submit" => work'[o].attempt \notin delivered'
               /\ work'[o].at = "record" => work'[o].outcome \in Outcomes
               /\ work'[o].at = "record" /\ work'[o].outcome = "accepted" => work'[o].attempt \in delivered'
               /\ work'[o].at = "record" /\ work'[o].outcome = "rejected" => work'[o].attempt \notin delivered'
    <3>1. CASE o = c
      BY <1>3, <3>1 DEF Tries
    <3>2. CASE o # c
      <4>1. work'[o] = work[o]
        BY <1>3, <3>2 DEF Shrinks, Local
      <4> QED BY <1>1, <4>1 DEF SInv, Attempts
    <3> QED BY <3>1, <3>2
  <2> QED BY <2>1, <2>2, <2>3 DEF Attempts
<1>14. JournalHonest'
  <2>1. ASSUME NEW n \in 1..Len(journal)
        PROVE  /\ journal'[n].status = "accepted" => n \in delivered
               /\ journal'[n].status = "rejected" => n \notin delivered
    <3>1. /\ journal[n].status = "accepted" => n \in delivered
          /\ journal[n].status = "rejected" => n \notin delivered
      BY DEF SInv, JournalHonest
    <3> QED BY <1>4, <1>5, <3>1
  <2> QED BY <1>1, <1>5, <2>1 DEF JournalHonest
<1>15. \A n \in delivered' : n \in delivered /\ journal'[n].text = journal[n].text
  BY <1>1, <1>5 DEF SInv, Attempts
<1>16. Once'
  BY <1>1, <1>15, OnceStays DEF SInv
<1>17. Settled'
  <2>1. r # "accepted" => \A u \in Texts \ excused : Taken(u) => ~Has(sess[c], u)
    BY <1>6, Untaken DEF SInv
  <2>2. ASSUME NEW u \in Texts \ excused', Taken(u), Has(sess[c], u)
        PROVE  sess'[c] = None \/ (Same(c) /\ Settles(work'[c]))
    BY <1>1, <1>2, <2>1, <2>2 DEF Settles
  <2>3. ASSUME NEW u \in Texts \ excused', Taken(u), rows'[u] # {}, Has(sess[c], u)
        PROVE  Same(c) /\ Deletes(work'[c], sess[c])
    BY <1>1, <1>2, <1>7, <2>1, <2>3 DEF Deletes
  <2> QED BY <1>1, <1>3, <1>15, <2>2, <2>3, ShrinkSettled DEF SInv
<1> QED BY <1>9, <1>10, <1>11, <1>13, <1>14, <1>16, <1>17 DEF SInv

-----------------------------------------------------------------------------
(* The process stops: no call is left, and what it was sending is excused. *)

LEMMA CrashKeeps ==
    ASSUME SInv, Crash
    PROVE  SInv'
<1>1. /\ sess' = [c \in Calls |-> None] /\ shelf' = [c \in Calls |-> {}]
      /\ work' = [c \in Calls |-> Idle]
      /\ excused' = excused \cup {t \in Texts : \E c \in Calls : Sending(c, t)}
      /\ UNCHANGED <<rows, journal, delivered, appended, composed, saves>>
  BY DEF Crash, disk, outbox
<1>2. \A c \in Calls : /\ sess'[c] = None /\ shelf'[c] = {} /\ work'[c] = Idle
                       /\ work'[c].at = "idle"
                       /\ \A t \in Texts : ~Has(sess'[c], t) /\ ~New(sess'[c], t) /\ ~Lists(shelf'[c], t)
  BY <1>1, IdleType DEF Has, New, Lists
<1>3. Form'
  BY <1>1, <1>2, IdleType DEF SInv, Form
<1>4. Origins'
  BY <1>1, <1>2 DEF SInv, Origins
<1>5. Own'
  <2>1. \A u \in Texts : appended'[u] <= 1
    BY <1>1 DEF SInv, Own
  <2> QED BY <1>2, <2>1, OwnStays DEF SInv
<1>6. Attempts' /\ JournalHonest'
  BY <1>1, <1>2, AttemptsStay DEF SInv, outbox, Tries
<1>7. Once'
  BY <1>1, OnceStays DEF SInv
<1>8. Settled'
  <2>1. ASSUME NEW u \in Texts \ excused', Taken(u) PROVE rows[u] = {}
    <3>1. ASSUME rows[u] # {} PROVE FALSE
      <4>1. PICK o \in Calls : Has(sess[o], u) /\ Deletes(work[o], sess[o])
        BY <1>1, <2>1, <3>1 DEF SInv, Settled
      <4>2. Sending(o, u)
        BY <4>1 DEF Sending, Busy, Holds, Has, Deletes
      <4> QED BY <1>1, <2>1, <4>2
    <3> QED BY <3>1
  <2> QED BY <1>1, <1>2, <2>1, SettledStays DEF SInv
<1> QED BY <1>3, <1>4, <1>5, <1>6, <1>7, <1>8 DEF SInv

-----------------------------------------------------------------------------

\* At first there is nothing.
LEMMA SInvInit == Init => SInv
<1> SUFFICES ASSUME Init PROVE SInv
  OBVIOUS
<1>1. /\ journal = <<>> /\ Len(journal) = 0 /\ journal \in Seq(EntryType)
      /\ delivered = {} /\ composed = {} /\ saves = 0
      /\ rows = [t \in Texts |-> {}] /\ appended = [t \in Texts |-> 0]
      /\ sess = [c \in Calls |-> None] /\ shelf = [c \in Calls |-> {}]
      /\ work = [c \in Calls |-> Idle]
  BY DEF Init
<1>2. \A c \in Calls : /\ sess[c] = None /\ shelf[c] = {} /\ work[c] = Idle /\ work[c].at = "idle"
                       /\ \A t \in Texts : ~Has(sess[c], t) /\ ~New(sess[c], t) /\ ~Lists(shelf[c], t)
  BY <1>1, IdleType DEF Has, New, Lists
<1>3. Form
  BY <1>1, <1>2, IdleType DEF Form
<1>4. Origins
  BY <1>1, <1>2 DEF Origins
<1>5. Own
  BY <1>1, <1>2 DEF Own
<1>6. Attempts
  BY <1>1, <1>2 DEF Attempts, Tries
<1>7. JournalHonest /\ Settled /\ Once
  BY <1>1 DEF JournalHonest, Settled, Taken, Once
<1> QED BY <1>3, <1>4, <1>5, <1>6, <1>7 DEF SInv

\* Every step keeps the invariant.
LEMMA SInvStep == SInv /\ [Next]_vars => SInv'
<1> SUFFICES ASSUME SInv, [Next]_vars PROVE SInv'
  OBVIOUS
<1>1. CASE UNCHANGED vars
  BY <1>1, NothingHappens DEF vars
<1>2. CASE Crash
  BY <1>2, CrashKeeps
<1>3. ASSUME NEW c \in Calls, NEW t \in Texts, NEW seed, Compose(c, t, seed) PROVE SInv'
  BY <1>3, ComposeKeeps
<1>4. ASSUME NEW c \in Calls, Leave(c) \/ Detach(c) \/ (\E i \in Items : Attach(c, i)) PROVE SInv'
  BY <1>4, CallerKeeps
<1>5. ASSUME NEW c \in Calls, OpenDrafts(c) \/ Resume(c) PROVE SInv'
  BY <1>5, OpenKeeps, ResumeKeeps
<1>6. ASSUME NEW c \in Calls, Saving(c) PROVE SInv'
  BY <1>6, SaveStartKeeps, SaveStepsKeep, SaveAppendKeeps DEF Saving
<1>7. ASSUME NEW c \in Calls, Send(c) PROVE SInv'
  BY <1>7, SendStartKeeps, SubmitKeeps, RecordKeeps, CleanUpKeeps DEF Send
<1> QED BY <1>1, <1>2, <1>3, <1>4, <1>5, <1>6, <1>7 DEF Next

\* A set whose elements are one has at most one.
LEMMA AtMostOne ==
    ASSUME NEW S, \A m, n \in S : m = n
    PROVE  Cardinality(S) <= 1
<1>1. CASE S = {}
  BY <1>1, FS_EmptySet
<1>2. CASE S # {}
  <2>1. PICK n : n \in S
    BY <1>2
  <2>2. S = {n}
    BY <2>1
  <2>3. Cardinality({n}) = 1
    BY FS_Singleton
  <2> QED BY <2>2, <2>3
<1> QED BY <1>1, <1>2

\* The journal never contradicts the mail server, a message is taken twice only in
\* the cases the code cannot tell apart, and a draft is copied to the remote folder
\* at most once: for any number of calls, drafts, failures and stops.
THEOREM SubmissionsTellTheTruth == Spec => []SentTruly
<1>1. SInv => SentTruly
  <2> SUFFICES ASSUME SInv PROVE SentTruly
    OBVIOUS
  <2>1. SentOnce
    <3>1. ASSUME NEW t \in Texts \ excused
          PROVE  Cardinality({n \in delivered : journal[n].text = t}) <= 1
      <4>1. \A m, n \in {k \in delivered : journal[k].text = t} : m = n
        BY DEF SInv, Once
      <4> QED BY <4>1, AtMostOne
    <3> QED BY <3>1 DEF SentOnce
  <2>2. AppendedOnce
    BY DEF SInv, Own, AppendedOnce
  <2> QED BY <2>1, <2>2 DEF SInv, SentTruly
<1> QED BY <1>1, SInvInit, SInvStep, PTL DEF Spec

(***************************************************************************)
(* A saved draft keeps its files and leaves none behind, for any number of *)
(* calls, messages, saves, failures and stops.                             *)
(***************************************************************************)

-----------------------------------------------------------------------------
(* Rows and files by text. *)

\* The files the rows rs of text t name, the files of t, those of one generation of
\* fs, and those the save of w puts down for the draft of s.
Names(t, rs)  == UNION {{<<t, r.gen, i>> : i \in ToSet(r.items)} : r \in rs}
Of(fs, t)     == {f \in fs : f[1] = t}
Gen(fs, g)    == {f \in fs : f[2] = g}
Draws(s, w)   == {<<s.text, w.gen, i>> : i \in ToSet(s.items)}

\* Where a save or a send has put the files out of step with the row.
Between == {"row", "tidy", "wipe"}

\* Generations are numbered by their saves: a save on its way to its row has a
\* number that no row has, and before it puts down its files no file has.
Numbered ==
    /\ saves \in Nat
    /\ \A f \in files : f[2] \in Int /\ f[2] <= saves
    /\ \A t \in Texts : \A r \in rows[t] : r.gen \in Int /\ r.gen <= saves
    /\ \A c \in Calls : work[c].gen <= saves
    /\ \A c \in Calls : work[c].at = "stage" => \A f \in files : f[2] # work[c].gen
    /\ \A c \in Calls : work[c].at \in {"stage", "row"} =>
          /\ \A t \in Texts : \A r \in rows[t] : r.gen # work[c].gen
          /\ \A o \in Calls : work[o].at \in {"stage", "row"} /\ work[o].gen = work[c].gen => o = c

\* A text that is not crossed is in the hands of one handler at a time.
Solo == \A t \in Texts \ crossed : \A c, o \in Calls :
           /\ Has(sess[c], t) /\ work[c].at # "idle"
           /\ Has(sess[o], t) /\ work[o].at # "idle"
           => c = o

\* What the files of a draft are while its handler is between two of its steps.
Fits(t, rs, fs, s, w) ==
    /\ w.at = "row"  => Draws(s, w) \subseteq fs /\ Gen(fs, w.gen) \subseteq Draws(s, w)
    /\ w.at = "tidy" => rs # {} /\ Gen(fs, w.gen) = Names(t, rs)
    /\ w.at = "wipe" => rs = {}

\* The files a row names are there.
Whole ==
    \A t \in Texts \ crossed :
        /\ Names(t, rows[t]) \subseteq Of(files, t)
        /\ \A c \in Calls : Has(sess[c], t) => Fits(t, rows[t], Of(files, t), sess[c], work[c])

\* And no others, but for those a handler is about to name or to remove.
Lean ==
    \A t \in Texts \ (crossed \cup spoiled) :
        /\ (\A c \in Calls : Has(sess[c], t) => work[c].at \notin Between)
             => Of(files, t) \subseteq Names(t, rows[t])
        /\ \A c \in Calls : Has(sess[c], t) /\ work[c].at = "row"
             => Of(files, t) \subseteq Names(t, rows[t]) \cup Draws(sess[c], work[c])

\* A draft that has a copy, or is about to get one, is listed unless its message
\* was taken; one that is being deleted was.
Listed ==
    /\ \A t \in Texts :
          /\ rows[t] = {}
          /\ appended[t] # 0 \/ \E c \in Calls : Has(sess[c], t) /\ work[c].at \in {"tidy", "append"}
          => Taken(t)
    /\ \A c \in Calls : work[c].at \in {"drop", "wipe"} => Taken(sess[c].text)

Drafts == Numbered /\ Solo /\ Whole /\ Lean /\ Listed
DInv   == SInv /\ Drafts

-----------------------------------------------------------------------------
(* Steps that leave rows and files alone, and steps at one text. *)

\* A call without a handler has no generation.
LEMMA IdleGen == Idle.gen = 0
BY DEF Idle

\* No save gets a number, a row or files.
LEMMA NumberedStays ==
    ASSUME Numbered, saves' = saves, files' \subseteq files,
           \A t \in Texts : rows'[t] = rows[t] \/ rows'[t] = {},
           \A o \in Calls : work'[o].gen \in {work[o].gen, 0},
           \A o \in Calls : work'[o].at \in {"stage", "row"} => work'[o] = work[o]
    PROVE  Numbered'
<1>1. \A o \in Calls : work'[o].gen <= saves'
  BY DEF Numbered
<1>2. \A o \in Calls : work'[o].at = "stage" => \A f \in files' : f[2] # work'[o].gen
  BY DEF Numbered
<1>3. \A o \in Calls : work'[o].at \in {"stage", "row"} =>
          /\ \A t \in Texts : \A r \in rows'[t] : r.gen # work'[o].gen
          /\ \A q \in Calls : work'[q].at \in {"stage", "row"} /\ work'[q].gen = work'[o].gen => q = o
  BY DEF Numbered
<1>4. /\ saves' \in Nat /\ \A f \in files' : f[2] \in Int /\ f[2] <= saves'
      /\ \A t \in Texts : \A r \in rows'[t] : r.gen \in Int /\ r.gen <= saves'
  BY DEF Numbered
<1> QED BY <1>1, <1>2, <1>3, <1>4 DEF Numbered

\* No call starts to handle a draft.
LEMMA SoloStays ==
    ASSUME Solo, crossed \subseteq crossed',
           \A o \in Calls : work'[o].at # "idle" => work[o].at # "idle" /\ sess'[o] = sess[o]
    PROVE  Solo'
BY DEF Solo

\* No call comes between two steps.
LEMMA WholeStays ==
    ASSUME Whole, UNCHANGED disk, crossed \subseteq crossed',
           \A o \in Calls : work'[o].at \in Between => work'[o] = work[o] /\ sess'[o] = sess[o]
    PROVE  Whole'
<1>1. ASSUME NEW t \in Texts \ crossed', NEW o \in Calls, Has(sess'[o], t)
      PROVE  Fits(t, rows'[t], Of(files', t), sess'[o], work'[o])
  <2>1. CASE work'[o].at \in Between
    <3>1. work'[o] = work[o] /\ sess'[o] = sess[o] /\ t \in Texts \ crossed
      BY <2>1
    <3> QED BY <1>1, <3>1 DEF Whole, disk
  <2>2. CASE work'[o].at \notin Between
    BY <2>2 DEF Fits, Between
  <2> QED BY <2>1, <2>2
<1>2. \A t \in Texts \ crossed' : Names(t, rows'[t]) \subseteq Of(files', t)
  BY DEF Whole, disk
<1> QED BY <1>1, <1>2 DEF Whole

\* And none leaves, but for a text that is spoiled.
LEMMA LeanStays ==
    ASSUME Lean, UNCHANGED disk, crossed \subseteq crossed', spoiled \subseteq spoiled',
           \A o \in Calls : work'[o].at \in Between => work'[o] = work[o] /\ sess'[o] = sess[o],
           \A o \in Calls, t \in Texts \ (crossed' \cup spoiled') :
              Has(sess[o], t) /\ work[o].at \in Between => work'[o] = work[o] /\ sess'[o] = sess[o]
    PROVE  Lean'
<1>1. ASSUME NEW t \in Texts \ (crossed' \cup spoiled'),
             \A o \in Calls : Has(sess'[o], t) => work'[o].at \notin Between
      PROVE  Of(files', t) \subseteq Names(t, rows'[t])
  <2>1. \A o \in Calls : Has(sess[o], t) => work[o].at \notin Between
    BY <1>1
  <2> QED BY <2>1 DEF Lean, disk
<1>2. ASSUME NEW t \in Texts \ (crossed' \cup spoiled'), NEW o \in Calls,
             Has(sess'[o], t), work'[o].at = "row"
      PROVE  Of(files', t) \subseteq Names(t, rows'[t]) \cup Draws(sess'[o], work'[o])
  <2>1. work'[o] = work[o] /\ sess'[o] = sess[o]
    BY <1>2 DEF Between
  <2> QED BY <1>2, <2>1 DEF Lean, disk
<1> QED BY <1>1, <1>2 DEF Lean

\* What was taken stays so, and no draft gets a copy or loses its row unseen.
LEMMA ListedStays ==
    ASSUME Listed, delivered \subseteq delivered',
           \A n \in delivered : journal'[n].text = journal[n].text,
           \A u \in Texts : (appended'[u] # 0 \/ \E o \in Calls : Has(sess'[o], u) /\ work'[o].at \in {"tidy", "append"})
              => appended[u] # 0 \/ (\E o \in Calls : Has(sess[o], u) /\ work[o].at \in {"tidy", "append"}) \/ rows'[u] # {},
           \A u \in Texts : rows'[u] = {} => rows[u] = {} \/ Taken(u),
           \A o \in Calls : work'[o].at \in {"drop", "wipe"} => Taken(sess'[o].text)
    PROVE  Listed'
<1>1. \A u : Taken(u) => \E n \in delivered' : journal'[n].text = u
  BY DEF Taken
<1>2. \A o \in Calls : work'[o].at \in {"drop", "wipe"} => \E n \in delivered' : journal'[n].text = sess'[o].text
  BY <1>1
<1>3. ASSUME NEW u \in Texts, rows'[u] = {},
             appended'[u] # 0 \/ \E o \in Calls : Has(sess'[o], u) /\ work'[o].at \in {"tidy", "append"}
      PROVE  \E n \in delivered' : journal'[n].text = u
  <2>1. Taken(u)
    BY <1>3 DEF Listed
  <2> QED BY <1>1, <2>1
<1> QED BY <1>2, <1>3 DEF Listed, Taken

\* A step of the handler of t, at t.
LEMMA WholeStep ==
    ASSUME Whole, Solo, NEW c \in Calls, Shrinks(c), NEW t \in Texts,
           Has(sess[c], t), work[c].at # "idle", crossed' = crossed,
           \A u \in Texts : u # t => rows'[u] = rows[u] /\ Of(files', u) = Of(files, u),
           t \notin crossed =>
              /\ Names(t, rows'[t]) \subseteq Of(files', t)
              /\ sess'[c] = None \/ Fits(t, rows'[t], Of(files', t), sess[c], work'[c])
    PROVE  Whole'
<1>1. ASSUME NEW u \in Texts \ crossed'
      PROVE  Names(u, rows'[u]) \subseteq Of(files', u)
  BY <1>1 DEF Whole
<1>2. ASSUME NEW u \in Texts \ crossed', NEW o \in Calls, Has(sess'[o], u)
      PROVE  Fits(u, rows'[u], Of(files', u), sess'[o], work'[o])
  <2>1. Has(sess[o], u) /\ sess'[o] = sess[o]
    BY <1>2, ShrinkHas
  <2>2. CASE o = c
    BY <1>2, <2>1, <2>2 DEF Has
  <2>3. CASE o # c
    <3>1. work'[o] = work[o]
      BY <2>3 DEF Shrinks, Local
    <3>2. CASE u = t
      <4>1. work[o].at = "idle"
        BY <1>2, <2>1, <2>3, <3>2 DEF Solo
      <4> QED BY <3>1, <4>1 DEF Fits
    <3>3. CASE u # t
      BY <1>2, <2>1, <3>1, <3>3 DEF Whole
    <3> QED BY <3>2, <3>3
  <2> QED BY <2>2, <2>3
<1> QED BY <1>1, <1>2 DEF Whole

\* The same for the files no row names.
LEMMA LeanStep ==
    ASSUME Lean, Solo, NEW c \in Calls, Shrinks(c), NEW t \in Texts,
           Has(sess[c], t), work[c].at # "idle", crossed' = crossed, spoiled \subseteq spoiled',
           \A u \in Texts : u # t => rows'[u] = rows[u] /\ Of(files', u) = Of(files, u),
           t \notin crossed \cup spoiled' =>
              /\ sess'[c] = None \/ work'[c].at \notin Between => Of(files', t) \subseteq Names(t, rows'[t])
              /\ sess'[c] # None /\ work'[c].at = "row" =>
                    Of(files', t) \subseteq Names(t, rows'[t]) \cup Draws(sess[c], work'[c])
    PROVE  Lean'
<1>1. ASSUME NEW u \in Texts \ (crossed' \cup spoiled'),
             \A o \in Calls : Has(sess'[o], u) => work'[o].at \notin Between
      PROVE  Of(files', u) \subseteq Names(u, rows'[u])
  <2>1. CASE u = t
    <3>1. sess'[c] = None \/ Has(sess'[c], t)
      BY DEF Shrinks, Same
    <3> QED BY <1>1, <2>1, <3>1
  <2>2. CASE u # t
    <3>1. \A o \in Calls : Has(sess[o], u) => o # c
      BY <2>2 DEF Has
    <3>2. \A o \in Calls : Has(sess[o], u) => work[o].at \notin Between
      BY <1>1, <3>1 DEF Shrinks, Local
    <3> QED BY <1>1, <2>2, <3>2 DEF Lean
  <2> QED BY <2>1, <2>2
<1>2. ASSUME NEW u \in Texts \ (crossed' \cup spoiled'), NEW o \in Calls,
             Has(sess'[o], u), work'[o].at = "row"
      PROVE  Of(files', u) \subseteq Names(u, rows'[u]) \cup Draws(sess'[o], work'[o])
  <2>1. Has(sess[o], u) /\ sess'[o] = sess[o] /\ sess'[o] # None
    BY <1>2, ShrinkHas DEF Has
  <2>2. CASE o = c
    <3>1. u = t
      BY <2>1, <2>2 DEF Has
    <3> QED BY <1>2, <2>1, <2>2, <3>1
  <2>3. CASE o # c
    <3>1. work'[o] = work[o]
      BY <2>3 DEF Shrinks, Local
    <3>2. u # t
      BY <1>2, <2>1, <2>3, <3>1 DEF Solo
    <3> QED BY <1>2, <2>1, <3>1, <3>2 DEF Lean
  <2> QED BY <2>2, <2>3
<1> QED BY <1>1, <1>2 DEF Lean

-----------------------------------------------------------------------------
(* The actions. *)

\* A step aside of rows and files, in which no call comes between two steps.
LEMMA AsideStays ==
    ASSUME DInv, UNCHANGED <<rows, files, appended, saves>>,
           crossed \subseteq crossed', spoiled \subseteq spoiled', delivered \subseteq delivered',
           \A n \in delivered : journal'[n].text = journal[n].text,
           \A o \in Calls : work'[o].gen \in {work[o].gen, 0},
           \A o \in Calls : work'[o].at \in {"stage", "row", "tidy", "append", "wipe"} =>
              work'[o] = work[o] /\ sess'[o] = sess[o],
           \A o \in Calls : work'[o].at = "drop" => Taken(sess'[o].text),
           \A o \in Calls, t \in Texts \ (crossed' \cup spoiled') :
              Has(sess[o], t) /\ work[o].at \in Between => work'[o] = work[o] /\ sess'[o] = sess[o]
    PROVE  Numbered' /\ Whole' /\ Lean' /\ Listed'
<1>1. Numbered'
  BY NumberedStays DEF DInv, Drafts
<1>2. \A o \in Calls : work'[o].at \in Between => work'[o] = work[o] /\ sess'[o] = sess[o]
  BY DEF Between
<1>3. Whole' /\ Lean'
  BY <1>2, WholeStays, LeanStays DEF DInv, Drafts, disk
<1>4. Listed'
  <2>1. ASSUME NEW u \in Texts,
               appended'[u] # 0 \/ \E o \in Calls : Has(sess'[o], u) /\ work'[o].at \in {"tidy", "append"}
        PROVE  appended[u] # 0 \/ \E o \in Calls : Has(sess[o], u) /\ work[o].at \in {"tidy", "append"}
    <3>1. CASE appended'[u] # 0
      BY <3>1
    <3>2. CASE appended'[u] = 0
      <4>1. PICK o \in Calls : Has(sess'[o], u) /\ work'[o].at \in {"tidy", "append"}
        BY <2>1, <3>2
      <4>2. work'[o] = work[o] /\ sess'[o] = sess[o]
        BY <4>1
      <4> QED BY <4>1, <4>2
    <3> QED BY <3>1, <3>2
  <2>2. \A o \in Calls : work'[o].at \in {"drop", "wipe"} => Taken(sess'[o].text)
    BY DEF DInv, Drafts, Listed
  <2> QED BY <2>1, <2>2, ListedStays DEF DInv, Drafts
<1> QED BY <1>1, <1>3, <1>4

\* The caller composes, attaches, lists, resumes and leaves.
LEMMA CallerDrafts ==
    ASSUME DInv, NEW c \in Calls,
           \/ \E t \in Texts : \E seed : Compose(c, t, seed)
           \/ \E i \in Items : Attach(c, i)
           \/ Detach(c) \/ OpenDrafts(c) \/ Resume(c) \/ Leave(c)
    PROVE  Drafts'
<1>1. /\ work[c].at = "idle"
      /\ UNCHANGED <<rows, files, work, journal, delivered, appended, saves, crossed, spoiled>>
  BY DEF Compose, Attach, Detach, OpenDrafts, Resume, Leave, InDraft, Ready, Fault,
         disk, outbox, counts, ghosts
<1>2. \A o \in Calls : o # c => sess'[o] = sess[o]
  BY DEF DInv, SInv, Form, Compose, Attach, Detach, OpenDrafts, Resume, Leave
<1>3. \A o \in Calls : work[o].at # "idle" => sess'[o] = sess[o]
  BY <1>1, <1>2
<1>4. Solo'
  BY <1>1, <1>3, SoloStays DEF DInv, Drafts
<1>5. \A o \in Calls : work[o].at = "drop" => Taken(sess'[o].text)
  BY <1>3 DEF DInv, Drafts, Listed
<1>6. Numbered' /\ Whole' /\ Lean' /\ Listed'
  BY <1>1, <1>3, <1>5, AsideStays DEF Between
<1> QED BY <1>4, <1>6 DEF Drafts

\* The process stops: what was between two steps is spoiled.
LEMMA CrashDrafts ==
    ASSUME DInv, Crash
    PROVE  Drafts'
<1>1. /\ work' = [c \in Calls |-> Idle]
      /\ spoiled' = spoiled \cup {t \in Texts : \E c \in Calls : Busy(c, t)}
      /\ UNCHANGED <<rows, files, journal, delivered, appended, saves, crossed>>
  BY DEF Crash, disk, outbox
<1>2. \A o \in Calls : work'[o] = Idle /\ work'[o].at = "idle"
  BY <1>1, IdleType
<1>3. ASSUME NEW o \in Calls, NEW t \in Texts \ (crossed' \cup spoiled'),
             Has(sess[o], t), work[o].at \in Between
      PROVE  FALSE
  BY <1>1, <1>3 DEF Busy, Holds, Has, Between
<1>4. Solo'
  BY <1>1, <1>2, SoloStays DEF DInv, Drafts
<1>5. Numbered' /\ Whole' /\ Lean' /\ Listed'
  BY <1>1, <1>2, <1>3, IdleGen, AsideStays
<1> QED BY <1>4, <1>5 DEF Drafts

\* A save or a send that starts at a draft another call handles crosses it.
LEMMA SoloStarts ==
    ASSUME DInv, NEW c \in Calls, work[c].at = "idle", sess[c] # None, MeetsOther(c),
           UNCHANGED sess, \A o \in Calls : o # c => work'[o] = work[o]
    PROVE  Solo' /\ crossed \subseteq crossed'
<1> DEFINE t == sess[c].text
<1>1. crossed' = IF Crossing(c, t) THEN crossed \cup {t} ELSE crossed
  BY DEF MeetsOther
<1>2. ASSUME NEW u \in Texts \ crossed', NEW o \in Calls, NEW q \in Calls,
             Has(sess[o], u), work'[o].at # "idle", Has(sess[q], u), work'[q].at # "idle", o # q
      PROVE  FALSE
  <2>1. CASE o # c /\ q # c
    BY <1>1, <1>2, <2>1 DEF DInv, Drafts, Solo
  <2>2. CASE o = c
    <3>1. u = t /\ work[q].at # "idle" /\ q # c
      BY <1>2, <2>2 DEF Has
    <3> QED BY <1>1, <1>2, <3>1 DEF Crossing, Others, Busy, Holds, Has
  <2>3. CASE q = c
    <3>1. u = t /\ work[o].at # "idle" /\ o # c
      BY <1>2, <2>3 DEF Has
    <3> QED BY <1>1, <1>2, <3>1 DEF Crossing, Others, Busy, Holds, Has
  <2> QED BY <1>2, <2>1, <2>2, <2>3
<1> QED BY <1>1, <1>2 DEF Solo

\* The start of a send.
LEMMA SendStartDrafts ==
    ASSUME DInv, NEW c \in Calls, SendStart(c)
    PROVE  Drafts'
<1> DEFINE w == [Idle EXCEPT !.at = "submit", !.attempt = Len(journal) + 1]
           entry == [text |-> sess[c].text, status |-> "pending"]
<1>1. /\ work[c].at = "idle" /\ sess[c] # None /\ saves' = saves
      /\ UNCHANGED <<rows, files, sess, delivered, appended, spoiled>>
      /\ \/ /\ journal' = Append(journal, entry) /\ work' = [work EXCEPT ![c] = w]
            /\ MeetsOther(c)
         \/ UNCHANGED <<journal, work, crossed>>
  BY DEF SendStart, InDraft, Ready, disk, counts, Fault
<1>2. CASE UNCHANGED <<journal, work, crossed>>
  <2>1. Solo'
    BY <1>1, <1>2, SoloStays DEF DInv, Drafts
  <2>2. \A o \in Calls : work'[o].at = "drop" => Taken(sess'[o].text)
    BY <1>1, <1>2 DEF DInv, Drafts, Listed
  <2>3. Numbered' /\ Whole' /\ Lean' /\ Listed'
    BY <1>1, <1>2, <2>2, AsideStays
  <2> QED BY <2>1, <2>3 DEF Drafts
<1>3. CASE journal' = Append(journal, entry) /\ work' = [work EXCEPT ![c] = w] /\ MeetsOther(c)
  <2>1. w.at = "submit" /\ w.gen = 0
    BY IdleType, IdleGen DEF WorkType
  <2>2. /\ work'[c] = w /\ \A o \in Calls : o # c => work'[o] = work[o]
    BY <1>3 DEF DInv, SInv, Form
  <2>3. \A n \in delivered : journal'[n].text = journal[n].text
    <3>1. journal \in Seq(EntryType) /\ delivered \subseteq 1..Len(journal)
      BY DEF DInv, SInv, Form, Attempts
    <3> QED BY <1>3, <3>1
  <2> HIDE DEF w, entry
  <2>4. Solo' /\ crossed \subseteq crossed'
    BY <1>1, <1>3, <2>2, SoloStarts
  <2>5. \A o \in Calls : work'[o].at = "drop" => Taken(sess'[o].text)
    BY <1>1, <2>1, <2>2 DEF DInv, Drafts, Listed
  <2>6. \A o \in Calls : work'[o].gen \in {work[o].gen, 0}
    BY <2>1, <2>2
  <2>7. \A o \in Calls : work[o].at \in Between \/ work'[o].at \in {"stage", "row", "tidy", "append", "wipe"}
           => work'[o] = work[o] /\ sess'[o] = sess[o]
    BY <1>1, <2>1, <2>2 DEF Between
  <2>8. Numbered' /\ Whole' /\ Lean' /\ Listed'
    BY <1>1, <2>3, <2>4, <2>5, <2>6, <2>7, AsideStays
  <2> QED BY <2>4, <2>8 DEF Drafts
<1> QED BY <1>1, <1>2, <1>3

\* The outcome, and writing it down: only a message that was taken has its draft
\* deleted.
LEMMA OutcomeDrafts ==
    ASSUME DInv, NEW c \in Calls, Submit(c) \/ Record(c)
    PROVE  Drafts'
<1>1. /\ work[c].at \in {"submit", "record"} /\ sess[c] # None
      /\ UNCHANGED <<rows, files, appended, saves, crossed, spoiled>>
      /\ delivered \subseteq delivered'
  BY DEF Submit, Record, At, DInv, SInv, Form, disk, counts, ghosts, Fault
<1>2. \A n \in delivered : journal'[n].text = journal[n].text
  <2>1. CASE Submit(c)
    BY <2>1 DEF Submit
  <2>2. CASE Record(c)
    <3>1. journal' = [journal EXCEPT ![work[c].attempt].status = work[c].outcome] \/ journal' = journal
      BY <2>2 DEF Record
    <3>2. journal \in Seq(EntryType) /\ delivered \subseteq 1..Len(journal)
      BY DEF DInv, SInv, Form, Attempts
    <3>3. ASSUME NEW n \in 1..Len(journal), journal' = [journal EXCEPT ![work[c].attempt].status = work[c].outcome]
          PROVE  journal'[n].text = journal[n].text
      <4>1. journal[n] \in EntryType
        BY <3>2
      <4>2. journal'[n] = journal[n] \/ journal'[n] = [journal[n] EXCEPT !.status = work[c].outcome]
        BY <3>2, <3>3
      <4> QED BY <4>1, <4>2 DEF EntryType
    <3> QED BY <3>1, <3>2, <3>3
  <2> QED BY <2>1, <2>2
<1>3. /\ \A o \in Calls : o # c => work'[o] = work[o] /\ sess'[o] = sess[o]
      /\ work'[c].gen \in {work[c].gen, 0}
      /\ \/ work'[c].at \in {"idle", "record"} /\ (work'[c].at # "idle" => sess'[c] = sess[c])
         \/ /\ work'[c].at = "drop" /\ sess'[c] = sess[c]
            /\ work[c].at = "record" /\ work[c].outcome = "accepted"
  <2>1. CASE Submit(c)
    <3>1. PICK r \in Outcomes : Outcome(c, r) /\ UNCHANGED <<sess, shelf>>
      BY <2>1 DEF Submit, Outcomes
    <3>2. work' = [work EXCEPT ![c] = [work[c] EXCEPT !.at = "record", !.outcome = r]]
      BY <3>1 DEF Outcome
    <3> QED BY <3>1, <3>2, OutcomeKnown DEF DInv, SInv, Form, WorkType, Local
  <2>2. CASE Record(c) /\ work[c].outcome # "accepted"
    <3>1. ToReview(c)
      BY <2>2 DEF Record
    <3> QED BY <3>1, ReviewEnds, IdleType, IdleGen DEF DInv, SInv, Local, Same
  <2>3. CASE Record(c) /\ work[c].outcome = "accepted" /\ sess[c].saved
    <3>1. Goto(c, "drop") /\ UNCHANGED <<sess, shelf>> /\ work[c].at = "record"
      BY <2>3 DEF Record, At
    <3>2. work'[c].gen = work[c].gen
      BY <3>1 DEF Goto, DInv, SInv, Form, WorkType
    <3> QED BY <2>3, <3>1, <3>2, GoesOn DEF DInv, SInv, Places, Local, Same
  <2>4. CASE Record(c) /\ work[c].outcome = "accepted" /\ ~sess[c].saved
    <3>1. ToMain(c)
      BY <2>4 DEF Record
    <3> QED BY <3>1, MainEnds, IdleType, IdleGen DEF DInv, SInv, Local
  <2> QED BY <2>1, <2>2, <2>3, <2>4
<1>4. \A o \in Calls : work'[o].at = "drop" => Taken(sess'[o].text)
  <2>1. ASSUME work[c].at = "record", work[c].outcome = "accepted" PROVE Taken(sess[c].text)
    <3>1. Tries(work[c])
      BY <2>1 DEF Tries
    <3>2. journal[work[c].attempt] = [text |-> sess[c].text, status |-> "pending"]
      BY <3>1 DEF DInv, SInv, Attempts
    <3>3. work[c].attempt \in delivered
      BY <2>1 DEF DInv, SInv, Attempts
    <3> QED BY <3>2, <3>3 DEF Taken
  <2>2. \A o \in Calls : work[o].at = "drop" => Taken(sess[o].text)
    BY DEF DInv, Drafts, Listed
  <2>3. \A o \in Calls : o # c /\ work'[o].at = "drop" => Taken(sess'[o].text)
    BY <1>3, <2>2
  <2>4. work'[c].at = "drop" => Taken(sess'[c].text)
    BY <1>3, <2>1
  <2> QED BY <2>3, <2>4
<1>5. \A o \in Calls : work'[o].at # "idle" => work[o].at # "idle" /\ sess'[o] = sess[o]
  <2>1. ASSUME NEW o \in Calls, work'[o].at # "idle" PROVE work[o].at # "idle" /\ sess'[o] = sess[o]
    BY <1>1, <1>3, <2>1
  <2> QED BY <2>1
<1>6. Solo'
  BY <1>1, <1>5, SoloStays DEF DInv, Drafts
<1>7. \A o \in Calls : work[o].at \in Between \/ work'[o].at \in {"stage", "row", "tidy", "append", "wipe"}
         => work'[o] = work[o] /\ sess'[o] = sess[o]
  BY <1>1, <1>3 DEF Between
<1>8. \A o \in Calls : work'[o].gen \in {work[o].gen, 0}
  BY <1>3
<1>9. Numbered' /\ Whole' /\ Lean' /\ Listed'
  BY <1>1, <1>2, <1>4, <1>7, <1>8, AsideStays
<1> QED BY <1>6, <1>9 DEF Drafts

\* The start of a save takes the next number.
LEMMA SaveStartDrafts ==
    ASSUME DInv, NEW c \in Calls, SaveStart(c)
    PROVE  Drafts'
<1> DEFINE w == [Idle EXCEPT !.at = "stage", !.gen = saves + 1, !.first = ~sess[c].saved]
<1>1. /\ work[c].at = "idle" /\ sess[c] # None /\ saves' = saves + 1 /\ MeetsOther(c)
      /\ work' = [work EXCEPT ![c] = w]
      /\ UNCHANGED <<rows, files, sess, journal, delivered, appended, spoiled>>
  BY DEF SaveStart, InDraft, Ready, disk, outbox
<1>2. w.at = "stage" /\ w.gen = saves + 1
  BY IdleType DEF WorkType
<1>3. work'[c] = w /\ \A o \in Calls : o # c => work'[o] = work[o]
  BY <1>1 DEF DInv, SInv, Form
<1> HIDE DEF w
<1>4. Solo' /\ crossed \subseteq crossed'
  BY <1>1, <1>3, SoloStarts
<1>5. Numbered'
  <2>1. /\ saves \in Nat /\ saves' = saves + 1
        /\ \A f \in files : f[2] \in Int /\ f[2] <= saves
        /\ \A t \in Texts : \A r \in rows[t] : r.gen \in Int /\ r.gen <= saves
        /\ \A o \in Calls : work[o].gen \in Int /\ work[o].gen <= saves
    BY <1>1 DEF DInv, SInv, Form, WorkType, Drafts, Numbered
  <2>2. /\ \A f \in files : f[2] # saves + 1 /\ f[2] <= saves'
        /\ \A t \in Texts : \A r \in rows[t] : r.gen # saves + 1 /\ r.gen <= saves'
        /\ \A o \in Calls : work[o].gen # saves + 1 /\ work[o].gen <= saves'
        /\ saves' \in Nat /\ saves + 1 <= saves'
    BY <2>1
  <2>3. \A o \in Calls : work'[o].gen <= saves'
    BY <1>2, <1>3, <2>2
  <2>4. \A o \in Calls : work'[o].at = "stage" => \A f \in files' : f[2] # work'[o].gen
    <3>1. \A o \in Calls : work[o].at = "stage" => \A f \in files : f[2] # work[o].gen
      BY DEF DInv, Drafts, Numbered
    <3> QED BY <1>1, <1>2, <1>3, <2>2, <3>1
  <2>5. ASSUME NEW o \in Calls, work'[o].at \in {"stage", "row"}
        PROVE  /\ \A t \in Texts : \A r \in rows'[t] : r.gen # work'[o].gen
               /\ \A q \in Calls : work'[q].at \in {"stage", "row"} /\ work'[q].gen = work'[o].gen => q = o
    <3>1. work[o].at \in {"stage", "row"} =>
              /\ \A t \in Texts : \A r \in rows[t] : r.gen # work[o].gen
              /\ \A q \in Calls : work[q].at \in {"stage", "row"} /\ work[q].gen = work[o].gen => q = o
      BY DEF DInv, Drafts, Numbered
    <3>2. CASE o = c
      BY <1>1, <1>2, <1>3, <2>2, <3>2
    <3>3. CASE o # c
      <4>1. work'[o] = work[o]
        BY <1>3, <3>3
      <4>2. ASSUME NEW q \in Calls, work'[q].at \in {"stage", "row"}, work'[q].gen = work'[o].gen
            PROVE  q = o
        <5>1. q # c
          BY <1>2, <1>3, <2>2, <3>3, <4>1, <4>2
        <5> QED BY <1>3, <2>5, <3>1, <4>1, <4>2, <5>1
      <4> QED BY <1>1, <2>5, <3>1, <4>1, <4>2
    <3> QED BY <3>2, <3>3
  <2> QED BY <1>1, <2>1, <2>2, <2>3, <2>4, <2>5 DEF Numbered
<1>6. \A o \in Calls : work[o].at \in Between \/ work'[o].at \in Between \cup {"append", "drop"}
         => work'[o] = work[o] /\ sess'[o] = sess[o]
  BY <1>1, <1>2, <1>3 DEF Between
<1>7. Whole' /\ Lean'
  BY <1>1, <1>4, <1>6, WholeStays, LeanStays DEF DInv, Drafts, disk
<1>8. Listed'
  <2>1. \A o \in Calls : work'[o].at \in {"tidy", "append", "drop", "wipe"} => work'[o] = work[o] /\ sess'[o] = sess[o]
    BY <1>6 DEF Between
  <2>2. \A o \in Calls : work'[o].at \in {"drop", "wipe"} => Taken(sess'[o].text)
    BY <2>1 DEF DInv, Drafts, Listed
  <2>3. ASSUME NEW u \in Texts, \E o \in Calls : Has(sess'[o], u) /\ work'[o].at \in {"tidy", "append"}
        PROVE  \E o \in Calls : Has(sess[o], u) /\ work[o].at \in {"tidy", "append"}
    BY <2>1, <2>3
  <2> QED BY <1>1, <2>2, <2>3, ListedStays DEF DInv, Drafts
<1> QED BY <1>4, <1>5, <1>7, <1>8 DEF Drafts

\* Nobody else handles a draft that is not crossed, and before anything happens to
\* its files they are those of the row.
LEMMA Alone ==
    ASSUME DInv, NEW c \in Calls, NEW t \in Texts \ crossed, Has(sess[c], t), work[c].at # "idle"
    PROVE  /\ \A o \in Calls : Has(sess[o], t) /\ o # c => work[o].at = "idle"
           /\ t \notin spoiled /\ work[c].at \notin Between => Of(files, t) \subseteq Names(t, rows[t])
           /\ Names(t, rows[t]) \subseteq Of(files, t)
           /\ Fits(t, rows[t], Of(files, t), sess[c], work[c])
<1>1. \A o \in Calls : Has(sess[o], t) /\ o # c => work[o].at = "idle"
  BY DEF DInv, Drafts, Solo
<1>2. ASSUME t \notin spoiled, work[c].at \notin Between PROVE Of(files, t) \subseteq Names(t, rows[t])
  <2>1. \A o \in Calls : Has(sess[o], t) => work[o].at \notin Between
    BY <1>1, <1>2 DEF Between
  <2> QED BY <1>2, <2>1 DEF DInv, Drafts, Lean
<1> QED BY <1>1, <1>2 DEF DInv, Drafts, Whole

\* A handler that ends aside of rows and files.
LEMMA EndDrafts ==
    ASSUME DInv, NEW c \in Calls, Local(c), work'[c] = Idle, work[c].at \notin Between,
           UNCHANGED <<rows, files, journal, delivered, appended, saves, crossed, spoiled>>
    PROVE  Drafts'
<1>1. \A o \in Calls : work'[o].at # "idle" => work'[o] = work[o] /\ sess'[o] = sess[o]
  BY IdleType DEF Local
<1>2. Solo'
  BY <1>1, SoloStays DEF DInv, Drafts
<1>3. \A o \in Calls : work'[o].at = "drop" => Taken(sess'[o].text)
  BY <1>1 DEF DInv, Drafts, Listed
<1>4. \A o \in Calls : work[o].at \in Between => work'[o] = work[o] /\ sess'[o] = sess[o]
  BY DEF Local
<1>5. \A o \in Calls : work'[o].gen \in {work[o].gen, 0}
  BY IdleGen DEF Local
<1>6. Numbered' /\ Whole' /\ Lean' /\ Listed'
  BY <1>1, <1>3, <1>4, <1>5, AsideStays
<1> QED BY <1>2, <1>6 DEF Drafts

\* A handler's step at its text keeps the others' hands off it.
LEMMA SoloShrinks ==
    ASSUME Solo, NEW c \in Calls, Shrinks(c), work[c].at # "idle", crossed' = crossed,
           sess'[c] # None \/ work'[c].at = "idle"
    PROVE  Solo'
BY SoloStays DEF Shrinks, Same, Local

\* The files a save puts down.
LEMMA Drawn ==
    ASSUME NEW s, NEW w
    PROVE  \A f \in Draws(s, w) : f[1] = s.text /\ f[2] = w.gen
BY DEF Draws

\* What a step of a handler starts from.
LEMMA AtText ==
    ASSUME DInv, NEW c \in Calls, work[c].at # "idle"
    PROVE  /\ sess[c] # None /\ sess[c].text \in Texts /\ Has(sess[c], sess[c].text)
           /\ \A u \in Texts : Has(sess[c], u) => u = sess[c].text
BY DEF DInv, SInv, Form, Drafted, Has

\* The new generation is put down beside the old.
LEMMA StageDrafts ==
    ASSUME DInv, NEW c \in Calls, At(c, "stage"), files' = files \cup Generation(c), Goto(c, "row"),
           UNCHANGED <<rows, sess, shelf, journal, delivered, appended, saves, crossed, spoiled>>
    PROVE  Drafts'
<1> DEFINE t == sess[c].text
           g == work[c].gen
           new == Draws(sess[c], work[c])
<1>1. Local(c) /\ Same(c) /\ Shrinks(c) /\ work'[c].at = "row" /\ work'[c].gen = g /\ work[c].at = "stage"
  <2>1. work'[c] = [work[c] EXCEPT !.at = "row"] /\ work[c] \in WorkType
    BY DEF Goto, DInv, SInv, Form
  <2> QED BY <2>1, GoesOn DEF DInv, SInv, Places, Shrinks, At, WorkType
<1>2. sess[c] # None /\ t \in Texts /\ Has(sess[c], t) /\ \A u \in Texts : Has(sess[c], u) => u = t
  BY <1>1, AtText
<1>3. files' = files \cup new /\ \A f \in new : f[1] = t /\ f[2] = g
  BY Drawn DEF Generation, Draws
<1>4. Draws(sess[c], work'[c]) = new
  BY <1>1 DEF Draws
<1> HIDE DEF t, g, new
<1>5. Of(files', t) = Of(files, t) \cup new /\ \A u : u # t => Of(files', u) = Of(files, u)
  BY <1>3 DEF Of
<1>6. g \in Int /\ g <= saves /\ \A f \in files : f[2] # g
  BY <1>1 DEF DInv, SInv, Form, WorkType, Drafts, Numbered, g
<1>7. Numbered'
  <2>1. \A f \in files' : f[2] \in Int /\ f[2] <= saves
    BY <1>3, <1>6 DEF DInv, Drafts, Numbered
  <2>2. \A o \in Calls : work'[o].gen = work[o].gen /\ (work'[o].at \in {"stage", "row"} => work[o].at \in {"stage", "row"})
                         /\ (work'[o].at = "stage" => work[o].at = "stage" /\ o # c)
    BY <1>1 DEF Local, g
  <2>3. ASSUME NEW o \in Calls, work'[o].at = "stage" PROVE \A f \in files' : f[2] # work'[o].gen
    <3>1. work[o].gen # g /\ \A f \in files : f[2] # work[o].gen
      BY <1>1, <2>2, <2>3 DEF DInv, Drafts, Numbered, g
    <3> QED BY <1>3, <2>2, <3>1
  <2>4. ASSUME NEW o \in Calls, work'[o].at \in {"stage", "row"}
        PROVE  /\ \A u \in Texts : \A r \in rows'[u] : r.gen # work'[o].gen
               /\ \A q \in Calls : work'[q].at \in {"stage", "row"} /\ work'[q].gen = work'[o].gen => q = o
    BY <2>2, <2>4 DEF DInv, Drafts, Numbered
  <2> QED BY <2>1, <2>2, <2>3, <2>4 DEF DInv, Drafts, Numbered
<1>8. Solo'
  BY <1>1, <1>2, SoloShrinks DEF DInv, Drafts, Same
<1>9. Whole'
  <2>1. ASSUME t \notin crossed
        PROVE  /\ Names(t, rows'[t]) \subseteq Of(files', t)
               /\ Fits(t, rows'[t], Of(files', t), sess[c], work'[c])
    <3>1. Names(t, rows[t]) \subseteq Of(files, t)
      BY <1>2, <2>1 DEF DInv, Drafts, Whole
    <3>2. new \subseteq Of(files', t) /\ Gen(Of(files', t), g) \subseteq new
      BY <1>5, <1>6 DEF Gen, Of
    <3> QED BY <1>1, <1>4, <1>5, <3>1, <3>2 DEF Fits
  <2> QED BY <1>1, <1>2, <1>5, <2>1, WholeStep DEF DInv, Drafts
<1>10. Lean'
  <2>1. ASSUME t \notin crossed \cup spoiled'
        PROVE  Of(files', t) \subseteq Names(t, rows'[t]) \cup new
    BY <1>1, <1>2, <1>5, <2>1, Alone DEF Between
  <2>2. work'[c].at \in Between /\ sess'[c] # None
    BY <1>1, <1>2 DEF Between, Same
  <2> QED BY <1>1, <1>2, <1>4, <1>5, <2>1, <2>2, LeanStep DEF DInv, Drafts
<1>11. Listed'
  <2>1. \A o \in Calls : work'[o].at \in {"tidy", "append", "drop", "wipe"} => work'[o] = work[o] /\ sess'[o] = sess[o]
    BY <1>1 DEF Local
  <2>2. \A o \in Calls : work'[o].at \in {"drop", "wipe"} => Taken(sess'[o].text)
    BY <2>1 DEF DInv, Drafts, Listed
  <2>3. ASSUME NEW u \in Texts, \E o \in Calls : Has(sess'[o], u) /\ work'[o].at \in {"tidy", "append"}
        PROVE  \E o \in Calls : Has(sess[o], u) /\ work[o].at \in {"tidy", "append"}
    BY <2>1, <2>3
  <2> QED BY <2>2, <2>3, ListedStays DEF DInv, Drafts
<1> QED BY <1>7, <1>8, <1>9, <1>10, <1>11 DEF Drafts

\* What is known of a call that goes on.
LEMMA Went ==
    ASSUME DInv, NEW c \in Calls, NEW place \in Places, Goto(c, place), UNCHANGED <<sess, shelf>>
    PROVE  /\ Local(c) /\ Same(c) /\ Shrinks(c) /\ work'[c].at = place /\ work'[c].gen = work[c].gen
           /\ \A o \in Calls : work'[o].gen = work[o].gen /\ sess'[o] = sess[o] /\ (o # c => work'[o] = work[o])
<1>1. work'[c] = [work[c] EXCEPT !.at = place] /\ work[c] \in WorkType
  BY DEF Goto, DInv, SInv, Form
<1> QED BY <1>1, GoesOn DEF DInv, SInv, Shrinks, WorkType, Local, Same

\* The row names the new generation.
LEMMA RowDrafts ==
    ASSUME DInv, NEW c \in Calls, At(c, "row"), Goto(c, "tidy"),
           rows' = [rows EXCEPT ![sess[c].text] = {NewRow(c)}],
           UNCHANGED <<files, sess, shelf, journal, delivered, appended, saves, crossed, spoiled>>
    PROVE  Drafts'
<1> DEFINE t == sess[c].text
           g == work[c].gen
           new == Draws(sess[c], work[c])
<1>1. /\ Local(c) /\ Same(c) /\ Shrinks(c) /\ work'[c].at = "tidy" /\ work[c].at = "row"
      /\ \A o \in Calls : work'[o].gen = work[o].gen /\ sess'[o] = sess[o] /\ (o # c => work'[o] = work[o])
  BY Went DEF At, Places
<1>2. sess[c] # None /\ t \in Texts /\ Has(sess[c], t) /\ \A u \in Texts : Has(sess[c], u) => u = t
  BY <1>1, AtText
<1>3. /\ rows'[t] = {NewRow(c)} /\ NewRow(c).gen = g /\ NewRow(c).items = sess[c].items
      /\ \A u \in Texts : u # t => rows'[u] = rows[u]
  BY <1>2 DEF DInv, SInv, Form, NewRow
<1>4. Names(t, rows'[t]) = new
  BY <1>3 DEF Names, Draws
<1>5. \A f \in new : f[2] = g
  BY Drawn
<1>6. work'[c].gen = g
  BY <1>1
<1>7. g \in Int /\ g <= saves
  BY DEF DInv, SInv, Form, WorkType, Drafts, Numbered
<1> HIDE DEF t, g, new
<1>8. Numbered'
  <2>1. \A u \in Texts : \A r \in rows'[u] : r.gen \in Int /\ r.gen <= saves
    BY <1>3, <1>7 DEF DInv, Drafts, Numbered
  <2>2. ASSUME NEW o \in Calls, work'[o].at \in {"stage", "row"}
        PROVE  /\ \A u \in Texts : \A r \in rows'[u] : r.gen # work'[o].gen
               /\ \A q \in Calls : work'[q].at \in {"stage", "row"} /\ work'[q].gen = work'[o].gen => q = o
    <3>1. o # c /\ work[o].at \in {"stage", "row"} /\ work'[o].gen = work[o].gen
      BY <1>1, <2>2
    <3>2. work[o].gen # g /\ \A u \in Texts : \A r \in rows[u] : r.gen # work[o].gen
      BY <1>1, <3>1 DEF DInv, Drafts, Numbered, g
    <3>3. \A u \in Texts : \A r \in rows'[u] : r.gen # work'[o].gen
      BY <1>3, <3>1, <3>2
    <3>4. ASSUME NEW q \in Calls, work'[q].at \in {"stage", "row"}, work'[q].gen = work'[o].gen PROVE q = o
      <4>1. work[q].at \in {"stage", "row"} /\ work[q].gen = work[o].gen
        BY <1>1, <3>1, <3>4
      <4> QED BY <3>1, <4>1 DEF DInv, Drafts, Numbered
    <3> QED BY <3>3, <3>4
  <2>3. \A o \in Calls : work'[o].at = "stage" => \A f \in files' : f[2] # work'[o].gen
    BY <1>1 DEF DInv, Drafts, Numbered
  <2>4. saves' \in Nat /\ (\A f \in files' : f[2] \in Int /\ f[2] <= saves') /\ \A o \in Calls : work'[o].gen <= saves'
    BY <1>1 DEF DInv, Drafts, Numbered
  <2> QED BY <2>1, <2>2, <2>3, <2>4 DEF Numbered
<1>9. Solo'
  BY <1>1, <1>2, SoloShrinks DEF DInv, Drafts
<1>10. Whole'
  <2>1. ASSUME t \notin crossed
        PROVE  /\ Names(t, rows'[t]) \subseteq Of(files', t)
               /\ Fits(t, rows'[t], Of(files', t), sess[c], work'[c])
    <3>1. new \subseteq Of(files, t) /\ Gen(Of(files, t), g) \subseteq new
      BY <1>1, <1>2, <2>1, Alone DEF Fits, new, g
    <3>2. Gen(Of(files, t), g) = new
      BY <1>5, <3>1 DEF Gen
    <3> QED BY <1>1, <1>3, <1>4, <1>6, <3>1, <3>2 DEF Fits
  <2> QED BY <1>1, <1>2, <1>3, <2>1, WholeStep DEF DInv, Drafts
<1>11. Lean'
  BY <1>1, <1>2, <1>3, LeanStep DEF DInv, Drafts, Between
<1>12. Listed'
  <2>1. \A o \in Calls : work'[o].at \in {"drop", "wipe"} => Taken(sess'[o].text)
    BY <1>1 DEF DInv, Drafts, Listed
  <2>2. ASSUME NEW u \in Texts, \E o \in Calls : Has(sess'[o], u) /\ work'[o].at \in {"tidy", "append"}
        PROVE  (\E o \in Calls : Has(sess[o], u) /\ work[o].at \in {"tidy", "append"}) \/ rows'[u] # {}
    <3>1. CASE u = t
      BY <1>3, <3>1
    <3>2. CASE u # t
      <4>1. PICK o \in Calls : Has(sess'[o], u) /\ work'[o].at \in {"tidy", "append"}
        BY <2>2
      <4>2. o # c
        BY <1>1, <1>2, <3>2, <4>1
      <4> QED BY <1>1, <4>1, <4>2
    <3> QED BY <3>1, <3>2
  <2>3. \A u \in Texts : rows'[u] = {} => rows[u] = {}
    BY <1>3
  <2> QED BY <2>1, <2>2, <2>3, ListedStays DEF DInv, Drafts
<1> QED BY <1>8, <1>9, <1>10, <1>11, <1>12 DEF Drafts

\* A row that cannot be written takes its generation with it.
LEMMA RowFaultDrafts ==
    ASSUME DInv, NEW c \in Calls, At(c, "row"), ToReview(c), files' = files \ NewGeneration(c),
           UNCHANGED <<rows, journal, delivered, appended, saves, crossed, spoiled>>
    PROVE  Drafts'
<1> DEFINE t == sess[c].text
           g == work[c].gen
<1>1. /\ Local(c) /\ Same(c) /\ Shrinks(c) /\ work'[c] = Idle /\ work[c].at = "row"
      /\ Idle.at = "idle" /\ Idle.gen = 0
  BY ReviewEnds, IdleType, IdleGen DEF DInv, SInv, At, Shrinks
<1>2. sess[c] # None /\ t \in Texts /\ Has(sess[c], t) /\ \A u \in Texts : Has(sess[c], u) => u = t
  BY <1>1, AtText
<1>3. /\ Of(files', t) = {f \in Of(files, t) : f[2] # g}
      /\ \A u : u # t => Of(files', u) = Of(files, u)
  BY DEF Of, NewGeneration
<1>4. \A f \in Names(t, rows[t]) : f[2] # g
  BY <1>1, <1>2 DEF DInv, Drafts, Numbered, Names
<1>5. \A f \in Draws(sess[c], work[c]) : f[2] = g
  BY Drawn
<1>6. \A o \in Calls : work'[o].at # "idle" => work'[o] = work[o] /\ sess'[o] = sess[o]
  BY <1>1 DEF Local
<1> HIDE DEF t, g
<1>7. Numbered'
  <2>1. \A o \in Calls : work'[o].gen \in {work[o].gen, 0}
    BY <1>1 DEF Local
  <2> QED BY <1>6, <2>1, NumberedStays DEF DInv, Drafts
<1>8. Solo'
  BY <1>1, <1>2, SoloShrinks DEF DInv, Drafts
<1>9. Whole'
  <2>1. ASSUME t \notin crossed PROVE Names(t, rows'[t]) \subseteq Of(files', t)
    BY <1>2, <1>3, <1>4, <2>1 DEF DInv, Drafts, Whole
  <2>2. Fits(t, rows'[t], Of(files', t), sess[c], work'[c])
    BY <1>1 DEF Fits
  <2> QED BY <1>1, <1>2, <1>3, <2>1, <2>2, WholeStep DEF DInv, Drafts
<1>10. Lean'
  <2>1. ASSUME t \notin crossed \cup spoiled' PROVE Of(files', t) \subseteq Names(t, rows'[t])
    <3>1. Of(files, t) \subseteq Names(t, rows[t]) \cup Draws(sess[c], work[c])
      BY <1>1, <1>2, <2>1 DEF DInv, Drafts, Lean
    <3> QED BY <1>3, <1>5, <3>1
  <2> QED BY <1>1, <1>2, <1>3, <2>1, LeanStep DEF DInv, Drafts
<1>11. Listed'
  <2>1. \A o \in Calls : work'[o].at \in {"drop", "wipe"} => Taken(sess'[o].text)
    BY <1>6 DEF DInv, Drafts, Listed
  <2>2. ASSUME NEW u \in Texts, \E o \in Calls : Has(sess'[o], u) /\ work'[o].at \in {"tidy", "append"}
        PROVE  \E o \in Calls : Has(sess[o], u) /\ work[o].at \in {"tidy", "append"}
    BY <1>6, <2>2
  <2> QED BY <2>1, <2>2, ListedStays DEF DInv, Drafts
<1> QED BY <1>7, <1>8, <1>9, <1>10, <1>11 DEF Drafts

\* The old generations go, or their text is spoiled.
LEMMA TidyDrafts ==
    ASSUME DInv, NEW c \in Calls, SaveTidy(c)
    PROVE  Drafts'
<1> DEFINE t == sess[c].text
           g == work[c].gen
<1>1. /\ work[c].at = "tidy" /\ Goto(c, "append")
      /\ UNCHANGED <<rows, sess, shelf, journal, delivered, appended, saves, crossed>>
      /\ \/ files' = files \ (OnDisk(t) \ NewGeneration(c)) /\ spoiled' = spoiled
         \/ files' = files /\ spoiled' = spoiled \cup {t}
  BY DEF SaveTidy, At, outbox, counts, Fault
<1>2. /\ Local(c) /\ Same(c) /\ Shrinks(c) /\ work'[c].at = "append"
      /\ \A o \in Calls : work'[o].gen = work[o].gen /\ sess'[o] = sess[o] /\ (o # c => work'[o] = work[o])
  BY <1>1, Went DEF Places
<1>3. sess[c] # None /\ t \in Texts /\ Has(sess[c], t) /\ \A u \in Texts : Has(sess[c], u) => u = t
  BY <1>1, AtText
<1>4. /\ files' \subseteq files /\ spoiled \subseteq spoiled' /\ \A u : u # t => Of(files', u) = Of(files, u)
      /\ Of(files', t) = Gen(Of(files, t), g) \/ (Of(files', t) = Of(files, t) /\ t \in spoiled')
  BY <1>1 DEF Of, Gen, OnDisk, NewGeneration
<1>5. t \notin crossed => Gen(Of(files, t), g) = Names(t, rows[t]) /\ Names(t, rows[t]) \subseteq Of(files, t)
  BY <1>1, <1>3, Alone DEF Fits
<1> HIDE DEF t, g
<1>6. Numbered'
  <2>1. \A o \in Calls : work'[o].at \in {"stage", "row"} => work'[o] = work[o]
    BY <1>2
  <2> QED BY <1>1, <1>2, <1>4, <2>1, NumberedStays DEF DInv, Drafts
<1>7. Solo'
  BY <1>1, <1>2, <1>3, SoloShrinks DEF DInv, Drafts
<1>8. Whole'
  <2>1. t \notin crossed => Names(t, rows'[t]) \subseteq Of(files', t)
    BY <1>1, <1>4, <1>5
  <2>2. Fits(t, rows'[t], Of(files', t), sess[c], work'[c])
    BY <1>2 DEF Fits
  <2> QED BY <1>1, <1>2, <1>3, <1>4, <2>1, <2>2, WholeStep DEF DInv, Drafts
<1>9. Lean'
  <2>1. t \notin crossed \cup spoiled' => Of(files', t) \subseteq Names(t, rows'[t])
    BY <1>1, <1>4, <1>5
  <2>2. work'[c].at # "row" /\ work[c].at # "idle"
    BY <1>1, <1>2
  <2> QED BY <1>1, <1>2, <1>3, <1>4, <2>1, <2>2, LeanStep DEF DInv, Drafts
<1>10. Listed'
  <2>1. \A o \in Calls : work'[o].at \in {"drop", "wipe"} => Taken(sess'[o].text)
    BY <1>2 DEF DInv, Drafts, Listed
  <2>2. ASSUME NEW u \in Texts, \E o \in Calls : Has(sess'[o], u) /\ work'[o].at \in {"tidy", "append"}
        PROVE  \E o \in Calls : Has(sess[o], u) /\ work[o].at \in {"tidy", "append"}
    <3>1. PICK o \in Calls : Has(sess'[o], u) /\ work'[o].at \in {"tidy", "append"}
      BY <2>2
    <3> QED BY <1>1, <1>2, <3>1
  <2> QED BY <1>1, <2>1, <2>2, ListedStays DEF DInv, Drafts
<1> QED BY <1>6, <1>7, <1>8, <1>9, <1>10 DEF Drafts

\* The copy is made of a draft that is listed.
LEMMA AppendDrafts ==
    ASSUME DInv, NEW c \in Calls, SaveAppend(c)
    PROVE  Drafts'
<1> DEFINE t == sess[c].text
<1>1. /\ work[c].at = "append" /\ ToMain(c)
      /\ UNCHANGED <<rows, files, journal, delivered, saves, crossed, spoiled>>
      /\ appended' = [appended EXCEPT ![t] = @ + 1] \/ appended' = appended
  BY DEF SaveAppend, At, disk, outbox, counts, ghosts
<1>2. Local(c) /\ work'[c] = Idle /\ Idle.at = "idle" /\ Idle.gen = 0
  BY <1>1, MainEnds, IdleType, IdleGen DEF DInv, SInv
<1>3. t \in Texts /\ Has(sess[c], t)
  BY <1>1, AtText
<1>4. \A u \in Texts : appended'[u] = appended[u] \/ u = t
  BY <1>1 DEF DInv, SInv, Form
<1>5. \A o \in Calls : /\ work'[o].at # "idle" => work'[o] = work[o] /\ sess'[o] = sess[o]
                       /\ work[o].at \in Between => work'[o] = work[o] /\ sess'[o] = sess[o]
                       /\ work'[o].gen \in {work[o].gen, 0}
  BY <1>1, <1>2 DEF Local, Between
<1> HIDE DEF t
<1>6. Numbered' /\ Solo'
  BY <1>1, <1>5, NumberedStays, SoloStays DEF DInv, Drafts
<1>7. Whole' /\ Lean'
  <2>1. \A o \in Calls : work'[o].at \in Between => work'[o] = work[o] /\ sess'[o] = sess[o]
    BY <1>5 DEF Between
  <2> QED BY <1>1, <1>5, <2>1, WholeStays, LeanStays DEF DInv, Drafts, disk
<1>8. Listed'
  <2>1. \A o \in Calls : work'[o].at \in {"drop", "wipe"} => Taken(sess'[o].text)
    BY <1>5 DEF DInv, Drafts, Listed
  <2>2. ASSUME NEW u \in Texts,
               appended'[u] # 0 \/ \E o \in Calls : Has(sess'[o], u) /\ work'[o].at \in {"tidy", "append"}
        PROVE  appended[u] # 0 \/ \E o \in Calls : Has(sess[o], u) /\ work[o].at \in {"tidy", "append"}
    <3>1. CASE u = t
      BY <1>1, <1>3, <3>1
    <3>2. CASE u # t
      BY <1>4, <1>5, <2>2, <3>2
    <3> QED BY <3>1, <3>2
  <2> QED BY <1>1, <2>1, <2>2, ListedStays DEF DInv, Drafts
<1> QED BY <1>6, <1>7, <1>8 DEF Drafts

\* Only a message that was taken loses its row.
LEMMA DropDrafts ==
    ASSUME DInv, NEW c \in Calls, At(c, "drop"), Goto(c, "wipe"),
           rows' = [rows EXCEPT ![sess[c].text] = {}],
           UNCHANGED <<files, sess, shelf, journal, delivered, appended, saves, crossed, spoiled>>
    PROVE  Drafts'
<1> DEFINE t == sess[c].text
<1>1. /\ Local(c) /\ Same(c) /\ Shrinks(c) /\ work'[c].at = "wipe" /\ work[c].at = "drop"
      /\ \A o \in Calls : work'[o].gen = work[o].gen /\ sess'[o] = sess[o] /\ (o # c => work'[o] = work[o])
  BY Went DEF At, Places
<1>2. sess[c] # None /\ t \in Texts /\ Has(sess[c], t) /\ \A u \in Texts : Has(sess[c], u) => u = t
  BY <1>1, AtText
<1>3. rows'[t] = {} /\ \A u \in Texts : u # t => rows'[u] = rows[u]
  BY <1>2 DEF DInv, SInv, Form
<1>4. Taken(t)
  BY <1>1 DEF DInv, Drafts, Listed
<1> HIDE DEF t
<1>5. Numbered'
  <2>1. \A u \in Texts : rows'[u] = rows[u] \/ rows'[u] = {}
    BY <1>3
  <2>2. \A o \in Calls : work'[o].at \in {"stage", "row"} => work'[o] = work[o]
    BY <1>1
  <2> QED BY <1>1, <2>1, <2>2, NumberedStays DEF DInv, Drafts
<1>6. Solo'
  BY <1>1, <1>2, SoloShrinks DEF DInv, Drafts
<1>7. Whole'
  <2>1. Names(t, rows'[t]) \subseteq Of(files', t) /\ Fits(t, rows'[t], Of(files', t), sess[c], work'[c])
    BY <1>1, <1>3 DEF Names, Fits
  <2> QED BY <1>1, <1>2, <1>3, <2>1, WholeStep DEF DInv, Drafts
<1>8. Lean'
  BY <1>1, <1>2, <1>3, LeanStep DEF DInv, Drafts, Between
<1>9. Listed'
  <2>1. \A o \in Calls : work'[o].at \in {"drop", "wipe"} => Taken(sess'[o].text)
    BY <1>1, <1>4 DEF DInv, Drafts, Listed, t
  <2>2. ASSUME NEW u \in Texts, \E o \in Calls : Has(sess'[o], u) /\ work'[o].at \in {"tidy", "append"}
        PROVE  \E o \in Calls : Has(sess[o], u) /\ work[o].at \in {"tidy", "append"}
    <3>1. PICK o \in Calls : Has(sess'[o], u) /\ work'[o].at \in {"tidy", "append"}
      BY <2>2
    <3>2. o # c
      BY <1>1, <3>1
    <3> QED BY <1>1, <3>1, <3>2
  <2>3. \A u \in Texts : rows'[u] = {} => rows[u] = {} \/ Taken(u)
    BY <1>3, <1>4
  <2> QED BY <2>1, <2>2, <2>3, ListedStays DEF DInv, Drafts
<1> QED BY <1>5, <1>6, <1>7, <1>8, <1>9 DEF Drafts

\* Its files go last.
LEMMA WipeDrafts ==
    ASSUME DInv, NEW c \in Calls, Wipe(c)
    PROVE  Drafts'
<1> DEFINE t == sess[c].text
<1>1. /\ work[c].at = "wipe" /\ ToMain(c) /\ files' = files \ OnDisk(t)
      /\ UNCHANGED <<rows, journal, delivered, appended, saves, crossed, spoiled>>
  BY DEF Wipe, At, outbox, counts, ghosts
<1>2. /\ Local(c) /\ sess'[c] = None /\ Shrinks(c) /\ work'[c] = Idle /\ Idle.at = "idle" /\ Idle.gen = 0
  BY <1>1, MainEnds, IdleType, IdleGen DEF DInv, SInv, Shrinks
<1>3. sess[c] # None /\ t \in Texts /\ Has(sess[c], t) /\ \A u \in Texts : Has(sess[c], u) => u = t
  BY <1>1, AtText
<1>4. files' \subseteq files /\ Of(files', t) = {} /\ \A u : u # t => Of(files', u) = Of(files, u)
  BY <1>1 DEF Of, OnDisk
<1>5. t \notin crossed => Names(t, rows[t]) = {}
  BY <1>1, <1>3, Alone DEF Fits, Names
<1>6. \A o \in Calls : work'[o].at # "idle" => work'[o] = work[o] /\ sess'[o] = sess[o]
  BY <1>2 DEF Local
<1> HIDE DEF t
<1>7. Numbered'
  <2>1. \A o \in Calls : work'[o].gen \in {work[o].gen, 0}
    BY <1>2 DEF Local
  <2>2. \A o \in Calls : work'[o].at \in {"stage", "row"} => work'[o] = work[o]
    BY <1>6
  <2> QED BY <1>1, <1>4, <2>1, <2>2, NumberedStays DEF DInv, Drafts
<1>8. Solo'
  BY <1>1, <1>2, SoloShrinks DEF DInv, Drafts
<1>9. Whole'
  <2>1. t \notin crossed => Names(t, rows'[t]) \subseteq Of(files', t)
    BY <1>1, <1>5
  <2> QED BY <1>1, <1>2, <1>3, <1>4, <2>1, WholeStep DEF DInv, Drafts
<1>10. Lean'
  <2>1. Of(files', t) \subseteq Names(t, rows'[t])
    BY <1>4
  <2> QED BY <1>1, <1>2, <1>3, <1>4, <2>1, LeanStep DEF DInv, Drafts
<1>11. Listed'
  <2>1. \A o \in Calls : work'[o].at \in {"drop", "wipe"} => Taken(sess'[o].text)
    BY <1>6 DEF DInv, Drafts, Listed
  <2>2. ASSUME NEW u \in Texts, \E o \in Calls : Has(sess'[o], u) /\ work'[o].at \in {"tidy", "append"}
        PROVE  \E o \in Calls : Has(sess[o], u) /\ work[o].at \in {"tidy", "append"}
    BY <1>6, <2>2
  <2> QED BY <1>1, <2>1, <2>2, ListedStays DEF DInv, Drafts
<1> QED BY <1>7, <1>8, <1>9, <1>10, <1>11 DEF Drafts

-----------------------------------------------------------------------------

\* At first there is nothing.
LEMMA DInvInit == Init => DInv
<1> SUFFICES ASSUME Init PROVE DInv
  OBVIOUS
<1>1. /\ files = {} /\ saves = 0 /\ rows = [t \in Texts |-> {}] /\ appended = [t \in Texts |-> 0]
      /\ work = [c \in Calls |-> Idle] /\ Idle.at = "idle" /\ Idle.gen = 0
  BY IdleType, IdleGen DEF Init
<1>2. Numbered
  BY <1>1 DEF Numbered
<1>3. Solo /\ Listed
  BY <1>1 DEF Solo, Listed
<1>4. Whole /\ Lean
  BY <1>1 DEF Whole, Lean, Names, Of, Fits
<1> QED BY <1>2, <1>3, <1>4, SInvInit DEF DInv, Drafts

\* Every step keeps the invariant.
LEMMA DInvStep == DInv /\ [Next]_vars => DInv'
<1> SUFFICES ASSUME DInv, [Next]_vars PROVE Drafts'
  BY SInvStep DEF DInv
<1>1. CASE UNCHANGED vars
  <2>1. Solo'
    BY <1>1, SoloStays DEF DInv, Drafts, vars
  <2>2. \A o \in Calls : work'[o].at = "drop" => Taken(sess'[o].text)
    BY <1>1 DEF DInv, Drafts, Listed, vars
  <2>3. Numbered' /\ Whole' /\ Lean' /\ Listed'
    BY <1>1, <2>2, AsideStays DEF vars
  <2> QED BY <2>1, <2>3 DEF Drafts
<1>2. CASE Crash
  BY <1>2, CrashDrafts
<1>3. ASSUME NEW c \in Calls,
             \/ \E t \in Texts : \E seed : Compose(c, t, seed)
             \/ \E i \in Items : Attach(c, i)
             \/ Detach(c) \/ OpenDrafts(c) \/ Resume(c) \/ Leave(c)
      PROVE  Drafts'
  BY <1>3, CallerDrafts
<1>4. ASSUME NEW c \in Calls, SaveStage(c) PROVE Drafts'
  <2>1. At(c, "stage") /\ UNCHANGED <<rows, journal, delivered, appended, crossed, spoiled>>
    BY <1>4 DEF SaveStage, outbox, ghosts
  <2>2. \/ files' = files \cup Generation(c) /\ Goto(c, "row") /\ UNCHANGED <<sess, shelf, saves>>
        \/ ToReview(c) /\ UNCHANGED <<files, saves>>
    BY <1>4 DEF SaveStage, counts
  <2>3. ToReview(c) => Local(c) /\ work'[c] = Idle /\ work[c].at \notin Between
    BY <2>1, ReviewEnds DEF DInv, SInv, At, Between
  <2> QED BY <2>1, <2>2, <2>3, StageDrafts, EndDrafts
<1>5. ASSUME NEW c \in Calls, SaveRow(c) PROVE Drafts'
  <2>1. At(c, "row") /\ UNCHANGED <<journal, delivered, appended, crossed, spoiled>>
    BY <1>5 DEF SaveRow, outbox, ghosts
  <2>2. \/ /\ rows' = [rows EXCEPT ![sess[c].text] = {NewRow(c)}] /\ Goto(c, "tidy")
           /\ UNCHANGED <<files, sess, shelf, saves>>
        \/ files' = files \ NewGeneration(c) /\ ToReview(c) /\ UNCHANGED <<rows, saves>>
    BY <1>5 DEF SaveRow, counts
  <2> QED BY <2>1, <2>2, RowDrafts, RowFaultDrafts
<1>6. ASSUME NEW c \in Calls, Saving(c) PROVE Drafts'
  BY <1>4, <1>5, <1>6, SaveStartDrafts, TidyDrafts, AppendDrafts DEF Saving
<1>7. ASSUME NEW c \in Calls, Drop(c) PROVE Drafts'
  <2>1. At(c, "drop") /\ UNCHANGED <<files, journal, delivered, appended, crossed, spoiled>>
    BY <1>7 DEF Drop, outbox
  <2>2. \/ /\ rows' = [rows EXCEPT ![sess[c].text] = {}] /\ Goto(c, "wipe")
           /\ UNCHANGED <<sess, shelf, saves>>
        \/ ToMain(c) /\ UNCHANGED <<rows, saves>>
    BY <1>7 DEF Drop, counts
  <2>3. ToMain(c) => Local(c) /\ work'[c] = Idle /\ work[c].at \notin Between
    BY <2>1, MainEnds DEF DInv, SInv, At, Between
  <2> QED BY <2>1, <2>2, <2>3, DropDrafts, EndDrafts
<1>8. ASSUME NEW c \in Calls, Send(c) PROVE Drafts'
  BY <1>7, <1>8, SendStartDrafts, OutcomeDrafts, WipeDrafts DEF Send
<1> QED BY <1>1, <1>2, <1>3, <1>6, <1>8 DEF Next

\* A draft that was copied is listed until its message was taken, a row's files are
\* there at every step, and between handlers no others: for any number of calls,
\* drafts, saves, failures and stops, wherever no two calls crossed.
THEOREM DraftsStayWhole == Spec => []DraftsKept
<1>1. DInv => DraftsKept
  <2> SUFFICES ASSUME DInv PROVE DraftsKept
    OBVIOUS
  <2>1. \A t \in Texts : FilesOf(t) = Names(t, rows[t]) /\ OnDisk(t) = Of(files, t)
    BY DEF FilesOf, Names, OnDisk, Of
  <2>2. \A t \in Texts \ crossed : FilesOf(t) \subseteq files
    BY <2>1 DEF DInv, Drafts, Whole, Of
  <2>3. \A t \in Texts : appended[t] > 0 /\ rows[t] = {} => \E n \in delivered : journal[n].text = t
    BY DEF DInv, Drafts, Listed, Taken
  <2>4. ASSUME NEW t \in Texts \ (crossed \cup spoiled), \A c \in Calls : ~Busy(c, t)
        PROVE  OnDisk(t) = FilesOf(t)
    <3>1. \A c \in Calls : Has(sess[c], t) => work[c].at \notin Between
      BY <2>4 DEF Busy, Holds, Has, Between
    <3>2. Of(files, t) \subseteq Names(t, rows[t]) /\ Names(t, rows[t]) \subseteq Of(files, t)
      BY <2>4, <3>1 DEF DInv, Drafts, Lean, Whole
    <3> QED BY <2>1, <3>2
  <2> QED BY <2>2, <2>3, <2>4 DEF DraftsKept, DraftWhole, NoOrphans
<1> QED BY <1>1, DInvInit, DInvStep, PTL DEF Spec

-----------------------------------------------------------------------------
(* The type invariant: attachments, rows and files. *)

\* Among the positions kept there is a k-th one.
LEMMA KthKept ==
    ASSUME NEW len \in Nat, NEW kept \in SUBSET (1..len), NEW k \in 1..Cardinality(kept)
    PROVE  \E n \in kept : Cardinality(kept \cap 1..n) = k
<1> DEFINE upto(n) == kept \cap 1..n
           T == {n \in Nat : Cardinality(upto(n)) >= k}
<1>1. IsFiniteSet(kept) /\ Cardinality(kept) \in Nat /\ k \in Nat /\ k >= 1 /\ k <= Cardinality(kept)
  <2>1. IsFiniteSet(1..len)  BY FS_Interval
  <2>2. IsFiniteSet(kept)  BY <2>1, FS_Subset
  <2> QED BY <2>2, FS_CardinalityType
<1>2. \A n \in Nat : IsFiniteSet(upto(n)) /\ Cardinality(upto(n)) \in Nat
  BY <1>1, FS_Subset, FS_CardinalityType
<1>3. len \in T
  <2>1. upto(len) = kept  OBVIOUS
  <2> QED BY <1>1, <2>1
<1>4. T \subseteq Nat  OBVIOUS
<1>5. PICK n \in T : \A y \in T : ~(<<y, n>> \in OpToRel(<, Nat))
  <2> HIDE DEF T
  <2> QED BY <1>3, <1>4, NatLessThanWellFounded, WFMin
<1>6. n \in Nat /\ Cardinality(upto(n)) >= k  BY <1>5
<1>7. n # 0
  <2>1. upto(0) = {}  OBVIOUS
  <2>2. Cardinality(upto(0)) = 0  BY <2>1, FS_EmptySet
  <2> HIDE DEF upto
  <2> QED BY <1>1, <1>6, <2>2
<1>8. n - 1 \in Nat /\ ~(Cardinality(upto(n - 1)) >= k)
  <2>1. n - 1 \in Nat  BY <1>6, <1>7
  <2>2. n - 1 \notin T
    <3> SUFFICES ASSUME n - 1 \in T PROVE FALSE  OBVIOUS
    <3>1. ~(<<n - 1, n>> \in OpToRel(<, Nat))  BY <1>5
    <3> HIDE DEF T
    <3> QED BY <1>6, <2>1, <3>1 DEF OpToRel
  <2> HIDE DEF upto
  <2> QED BY <2>1, <2>2
<1>9. n \in kept
  <2> SUFFICES ASSUME n \notin kept PROVE FALSE  OBVIOUS
  <2>1. upto(n) = upto(n - 1)  BY <1>6
  <2> HIDE DEF upto
  <2> QED BY <1>6, <1>8, <2>1
<1>10. Cardinality(upto(n)) <= Cardinality(upto(n - 1)) + 1
  <2>1. upto(n) \subseteq upto(n - 1) \cup {n}  BY <1>6
  <2>2. IsFiniteSet(upto(n - 1)) /\ Cardinality(upto(n - 1)) \in Nat  BY <1>2, <1>8
  <2> HIDE DEF upto
  <2>3. /\ IsFiniteSet(upto(n - 1) \cup {n})
        /\ Cardinality(upto(n - 1) \cup {n}) <= Cardinality(upto(n - 1)) + 1
    BY <2>2, FS_AddElement
  <2>4. Cardinality(upto(n)) <= Cardinality(upto(n - 1) \cup {n})  BY <2>1, <2>3, FS_Subset
  <2>5. Cardinality(upto(n)) \in Nat /\ Cardinality(upto(n - 1) \cup {n}) \in Nat
    BY <1>2, <1>6, <2>3, FS_CardinalityType
  <2> QED BY <2>2, <2>3, <2>4, <2>5
<1>11. Cardinality(upto(n)) = k
  <2>1. Cardinality(upto(n)) \in Nat /\ Cardinality(upto(n - 1)) \in Nat  BY <1>2, <1>6, <1>8
  <2> HIDE DEF upto
  <2> QED BY <1>1, <1>6, <1>8, <1>10, <2>1
<1> QED BY <1>9, <1>11

\* What can be read of a draft is a sequence of its attachments.
LEMMA ReadableItems ==
    ASSUME NEW d, NEW lost, d.row.items \in Seq(Items)
    PROVE  Readable(d, lost) \in Seq(Items)
<1> DEFINE items == d.row.items
           kept == {n \in DOMAIN items : /\ items[n] \notin lost
                                         /\ <<d.text, d.row.gen, items[n]>> \in files}
           nth(k) == CHOOSE n \in kept : Cardinality(kept \cap 1..n) = k
<1>1. Len(items) \in Nat /\ kept \subseteq 1..Len(items)  OBVIOUS
<1>2. Readable(d, lost) = [k \in 1..Cardinality(kept) |-> items[nth(k)]]  BY DEF Readable
<1>3. \A n \in kept : items[n] \in Items  OBVIOUS
<1>4. Cardinality(kept) \in Nat
  <2> HIDE DEF kept, items
  <2>1. IsFiniteSet(1..Len(items))  BY <1>1, FS_Interval
  <2> QED BY <1>1, <2>1, FS_Subset, FS_CardinalityType
<1>5. ASSUME NEW k \in 1..Cardinality(kept) PROVE items[nth(k)] \in Items
  <2>1. \E n \in kept : Cardinality(kept \cap 1..n) = k
    <3> HIDE DEF kept, items
    <3> QED BY <1>1, <1>5, KthKept
  <2>2. nth(k) \in kept
    <3> HIDE DEF kept, items
    <3> QED BY <2>1
  <2> HIDE DEF nth, kept, items
  <2> QED BY <1>3, <2>2
<1> HIDE DEF items, nth, kept
<1> QED BY <1>2, <1>4, <1>5

\* The counters stay within their bounds.
Bounded ==
    /\ saves \in 0..MaxSaves /\ faults \in 0..MaxFaults /\ crashes \in 0..MaxCrashes
    /\ excused \subseteq Texts /\ crossed \subseteq Texts /\ spoiled \subseteq Texts

\* A record of a draft names a generation and attachments.
Rowed(r) == r.gen \in 1..MaxSaves /\ r.items \in Seq(Items)

\* Drafts, rows, lists and files are of the attachments that can be recorded, and a
\* save on its way to its row has a number within the bound.
Itemed ==
    /\ \A c \in Calls : sess[c] # None => sess[c].items \in Seq(Items)
    /\ \A t \in Texts : (\A r \in rows[t] : Rowed(r)) /\ (\A r, q \in rows[t] : r = q)
    /\ \A c \in Calls : \A d \in shelf[c] : Rowed(d.row)
    /\ files \subseteq Texts \X (1..MaxSaves) \X Items
    /\ \A c \in Calls : work[c].at \in {"stage", "row"} => work[c].gen \in 1..MaxSaves

TInv == SInv /\ Bounded /\ Itemed

\* The bounds are natural numbers.
LEMMA BoundsNat == MaxSaves \in Nat /\ MaxSends \in Nat /\ MaxFaults \in Nat /\ MaxCrashes \in Nat
BY BoundsAssumption

\* A fault keeps its bound.
LEMMA FaultBounded ==
    ASSUME faults \in 0..MaxFaults, Fault \/ faults' = faults
    PROVE  faults' \in 0..MaxFaults
BY BoundsNat DEF Fault

\* A handler is at the text of its draft.
LEMMA HandlerText ==
    ASSUME SInv, NEW c \in Calls, work[c].at # "idle" \/ sess[c] # None
    PROVE  sess[c] # None /\ sess[c].text \in Texts
BY DEF SInv, Form, Drafted

\* Every step keeps the bounds.
LEMMA BoundedStep ==
    ASSUME SInv, Bounded, [Next]_vars
    PROVE  Bounded'
<1> USE DEF Bounded
<1>1. CASE UNCHANGED vars
  BY <1>1 DEF vars
<1>2. CASE Crash
  <2>1. saves' = saves /\ faults' = faults /\ crossed' = crossed
    BY <1>2 DEF Crash
  <2>2. crashes' \in 0..MaxCrashes
    BY <1>2, BoundsNat DEF Crash
  <2>3. excused' \subseteq Texts /\ spoiled' \subseteq Texts
    BY <1>2 DEF Crash
  <2> QED BY <2>1, <2>2, <2>3
<1>3. ASSUME NEW c \in Calls, NEW seed, NEW t, NEW i,
             Compose(c, t, seed) \/ Attach(c, i) \/ Detach(c) \/ Leave(c)
      PROVE  Bounded'
  BY <1>3 DEF Compose, Attach, Detach, Leave, counts, ghosts
<1>4. ASSUME NEW c \in Calls, OpenDrafts(c) PROVE Bounded'
  BY <1>4 DEF OpenDrafts, counts
<1>5. ASSUME NEW c \in Calls, Resume(c) PROVE Bounded'
  <2>1. saves' = saves /\ crashes' = crashes /\ UNCHANGED ghosts /\ (Fault \/ faults' = faults)
    BY <1>5 DEF Resume, counts
  <2> QED BY <2>1, FaultBounded DEF ghosts
<1>6. ASSUME NEW c \in Calls, SaveStart(c) PROVE Bounded'
  <2>1. sess[c].text \in Texts
    BY <1>6, HandlerText DEF SaveStart, InDraft
  <2>2. saves' \in 0..MaxSaves /\ UNCHANGED <<faults, crashes, excused, spoiled>>
    BY <1>6, BoundsNat DEF SaveStart
  <2>3. crossed' \in {crossed, crossed \cup {sess[c].text}}
    BY <1>6 DEF SaveStart, MeetsOther
  <2> QED BY <2>1, <2>2, <2>3
<1>7. ASSUME NEW c \in Calls, SaveStage(c) \/ SaveRow(c) PROVE Bounded'
  <2>1. saves' = saves /\ crashes' = crashes /\ UNCHANGED ghosts /\ (Fault \/ faults' = faults)
    BY <1>7 DEF SaveStage, SaveRow, counts
  <2> QED BY <2>1, FaultBounded DEF ghosts
<1>8. ASSUME NEW c \in Calls, SaveTidy(c) PROVE Bounded'
  <2>1. sess[c].text \in Texts
    BY <1>8, HandlerText DEF SaveTidy, At
  <2>2. saves' = saves /\ crashes' = crashes /\ (Fault \/ faults' = faults)
        /\ UNCHANGED <<excused, crossed>> /\ spoiled' \in {spoiled, spoiled \cup {sess[c].text}}
    BY <1>8 DEF SaveTidy, counts
  <2> QED BY <2>1, <2>2, FaultBounded
<1>9. ASSUME NEW c \in Calls, SaveAppend(c) \/ Wipe(c) PROVE Bounded'
  BY <1>9 DEF SaveAppend, Wipe, counts, ghosts
<1>10. ASSUME NEW c \in Calls, SendStart(c) PROVE Bounded'
  <2>1. sess[c].text \in Texts
    BY <1>10, HandlerText DEF SendStart, InDraft
  <2>2. saves' = saves /\ crashes' = crashes /\ (Fault \/ faults' = faults)
        /\ UNCHANGED <<excused, spoiled>> /\ crossed' \in {crossed, crossed \cup {sess[c].text}}
    BY <1>10 DEF SendStart, MeetsOther, counts
  <2> QED BY <2>1, <2>2, FaultBounded
<1>11. ASSUME NEW c \in Calls, Submit(c) \/ Drop(c) PROVE Bounded'
  <2>1. sess[c].text \in Texts
    BY <1>11, HandlerText DEF Submit, Drop, At
  <2>2. saves' = saves /\ crashes' = crashes /\ (Fault \/ faults' = faults)
        /\ UNCHANGED <<crossed, spoiled>> /\ excused' \in {excused, excused \cup {sess[c].text}}
    BY <1>11 DEF Submit, Drop, counts
  <2> QED BY <2>1, <2>2, FaultBounded
<1>12. ASSUME NEW c \in Calls, Record(c) PROVE Bounded'
  <2>1. saves' = saves /\ crashes' = crashes /\ UNCHANGED ghosts /\ (Fault \/ faults' = faults)
    BY <1>12 DEF Record, counts
  <2> QED BY <2>1, FaultBounded DEF ghosts
<1> QED BY <1>1, <1>2, <1>3, <1>4, <1>5, <1>6, <1>7, <1>8, <1>9, <1>10, <1>11, <1>12
        DEF Next, Saving, Send

\* Calls that let go of drafts and lists, rows and files that go, and handlers that
\* do not begin a save keep the attachments.
LEMMA ItemedStays ==
    ASSUME Itemed, files' \subseteq files,
           \A o \in Calls : sess'[o] \in {None, sess[o]} /\ shelf'[o] \subseteq shelf[o],
           \A t \in Texts : rows'[t] \subseteq rows[t],
           \A o \in Calls : work'[o].at \in {"stage", "row"} => work'[o] = work[o]
    PROVE  Itemed'
BY DEF Itemed

\* So it is when only one call has changed.
LEMMA ItemedLocal ==
    ASSUME Itemed, NEW c \in Calls, Local(c), files' \subseteq files, UNCHANGED rows,
           sess'[c] \in {None, sess[c]}, shelf'[c] \subseteq shelf[c],
           work'[c].at \notin {"stage", "row"}
    PROVE  Itemed'
BY ItemedStays DEF Local

\* The draft of a call changes, and nothing else.
LEMMA ItemedDraft ==
    ASSUME SInv, Itemed, NEW c \in Calls, NEW s, sess' = [sess EXCEPT ![c] = s],
           s.items \in Seq(Items), UNCHANGED <<rows, files, shelf, work>>
    PROVE  Itemed'
<1>1. sess'[c] = s /\ \A o \in Calls : o # c => sess'[o] = sess[o]
  BY DEF SInv, Form
<1> QED BY <1>1 DEF Itemed

\* A draft that is composed, extended, cut or resumed has attachments.
LEMMA CallerItemed ==
    ASSUME SInv, Itemed, NEW c \in Calls,
           \/ \E t \in Texts : Compose(c, t, <<>>) \/ \E i \in Items : Compose(c, t, <<i>>)
           \/ \E i \in Items : Attach(c, i)
           \/ Detach(c) \/ Resume(c)
    PROVE  Itemed'
<1>1. ASSUME NEW t \in Texts, NEW seed \in Seq(Items), Compose(c, t, seed) PROVE Itemed'
  <2>1. /\ sess' = [sess EXCEPT ![c] = [text |-> t, saved |-> FALSE, items |-> seed]]
        /\ UNCHANGED <<rows, files, shelf, work>>
    BY <1>1 DEF Compose, disk
  <2> QED BY <2>1, ItemedDraft
<1>2. ASSUME sess[c] # None,
             NEW x \in Seq(Items), sess' = [sess EXCEPT ![c].items = x],
             UNCHANGED <<rows, files, shelf, work>>
      PROVE  Itemed'
  <2>1. sess' = [sess EXCEPT ![c] = [sess[c] EXCEPT !.items = x]] /\ Drafted(sess[c])
    BY <1>2 DEF SInv, Form
  <2>2. [sess[c] EXCEPT !.items = x].items = x
    BY <2>1 DEF Drafted
  <2> QED BY <1>2, <2>1, <2>2, ItemedDraft
<1>3. ASSUME NEW i \in Items, Attach(c, i) PROVE Itemed'
  <2>1. /\ sess[c] # None /\ sess' = [sess EXCEPT ![c].items = Append(sess[c].items, i)]
        /\ UNCHANGED <<rows, files, shelf, work>>
    BY <1>3 DEF Attach, InDraft, disk, SInv, Form
  <2>2. Append(sess[c].items, i) \in Seq(Items)
    BY <2>1 DEF Itemed
  <2> QED BY <1>2, <2>1, <2>2
<1>4. CASE Detach(c)
  <2>1. /\ sess[c] # None /\ sess' = [sess EXCEPT ![c].items = Front(sess[c].items)]
        /\ sess[c].items # <<>> /\ UNCHANGED <<rows, files, shelf, work>>
    BY <1>4 DEF Detach, InDraft, disk, SInv, Form
  <2>2. sess[c].items \in Seq(Items)
    BY <2>1 DEF Itemed
  <2>3. Front(sess[c].items) \in Seq(Items)
    BY <2>1, <2>2 DEF Front
  <2> QED BY <1>2, <2>1, <2>3
<1>5. CASE Resume(c)
  <2>1. PICK d \in shelf[c] : \E lost :
          sess' = [sess EXCEPT ![c] = [text |-> d.text, saved |-> TRUE, items |-> Readable(d, lost)]]
    BY <1>5 DEF Resume
  <2>2. PICK lost :
          sess' = [sess EXCEPT ![c] = [text |-> d.text, saved |-> TRUE, items |-> Readable(d, lost)]]
    BY <2>1
  <2>3. UNCHANGED <<rows, files, shelf, work>>
    BY <1>5 DEF Resume, disk
  <2>4. Readable(d, lost) \in Seq(Items)
    BY ReadableItems DEF Itemed, Rowed
  <2> QED BY <2>2, <2>3, <2>4, ItemedDraft
<1>6. <<>> \in Seq(Items) /\ \A i \in Items : <<i>> \in Seq(Items)
  OBVIOUS
<1> QED BY <1>1, <1>3, <1>4, <1>5, <1>6

\* The list shows the rows as they are.
LEMMA OpenItemed ==
    ASSUME SInv, Itemed, NEW c \in Calls, OpenDrafts(c)
    PROVE  Itemed'
<1>1. UNCHANGED <<rows, files, sess, work>>
  BY DEF OpenDrafts, disk
<1>2. \A o \in Calls : o # c => shelf'[o] = shelf[o]
  BY DEF OpenDrafts, SInv, Form
<1>3. \A d \in shelf'[c] : \E t \in Texts : d.row \in rows[t]
  BY DEF OpenDrafts, SInv, Form
<1>4. \A o \in Calls : \A d \in shelf'[o] : Rowed(d.row)
  BY <1>2, <1>3 DEF Itemed
<1> QED BY <1>1, <1>4 DEF Itemed

\* A save takes the next number, puts down its files and names them in the row.
LEMMA SaveItemed ==
    ASSUME SInv, Bounded, Itemed, NEW c \in Calls, Saving(c)
    PROVE  Itemed'
<1>1. CASE SaveStart(c)
  <2>1. /\ UNCHANGED <<rows, files, sess, shelf>> /\ saves + 1 \in 1..MaxSaves
        /\ work' = [work EXCEPT ![c] = [Idle EXCEPT !.at = "stage", !.gen = saves + 1,
                                                    !.first = ~sess[c].saved]]
    BY <1>1, BoundsNat DEF SaveStart, disk, Bounded
  <2>2. work'[c].gen = saves + 1 /\ \A o \in Calls : o # c => work'[o] = work[o]
    BY <2>1 DEF SInv, Form, Idle
  <2> QED BY <2>1, <2>2 DEF Itemed
<1>2. CASE SaveStage(c)
  <2>1. work[c].at = "stage" /\ UNCHANGED rows
    BY <1>2 DEF SaveStage, At
  <2>2. CASE files' = files \cup Generation(c) /\ Goto(c, "row") /\ UNCHANGED <<sess, shelf>>
    <3>1. sess[c] # None /\ sess[c].text \in Texts
      BY <2>1, HandlerText
    <3>2. sess[c].items \in Seq(Items) /\ work[c].gen \in 1..MaxSaves
      BY <2>1, <3>1 DEF Itemed
    <3>3. ToSet(sess[c].items) \subseteq Items
      BY <3>2 DEF ToSet
    <3>4. Generation(c) \subseteq Texts \X (1..MaxSaves) \X Items
      BY <3>1, <3>2, <3>3 DEF Generation
    <3>5. /\ \A o \in Calls : o # c => work'[o] = work[o]
          /\ work'[c].gen = work[c].gen
      BY <2>2 DEF SInv, Form, Goto, WorkType
    <3> QED BY <2>1, <2>2, <3>2, <3>4, <3>5 DEF Itemed
  <2>3. CASE ToReview(c) /\ UNCHANGED files
    BY <2>1, <2>3, ReviewEnds, IdleType, ItemedLocal DEF SInv, Same
  <2> QED BY <1>2, <2>2, <2>3 DEF SaveStage
<1>3. CASE SaveRow(c)
  <2>1. work[c].at = "row"
    BY <1>3 DEF SaveRow, At
  <2>2. CASE rows' = [rows EXCEPT ![sess[c].text] = {NewRow(c)}] /\ Goto(c, "tidy")
             /\ UNCHANGED <<files, sess, shelf>>
    <3>1. sess[c] # None /\ sess[c].text \in Texts
      BY <2>1, HandlerText
    <3>2. Rowed(NewRow(c))
      BY <2>1, <3>1 DEF Itemed, NewRow, Rowed
    <3>3. \A t \in Texts : rows'[t] \in {rows[t], {NewRow(c)}}
      BY <2>2 DEF SInv, Form
    <3>4. \A o \in Calls : work'[o].at \in {"stage", "row"} => work'[o] = work[o]
      BY <2>2, GoesOn DEF SInv, Form, Goto, WorkType, Places
    <3>5. \A t \in Texts : (\A r \in rows'[t] : Rowed(r)) /\ (\A r, q \in rows'[t] : r = q)
      BY <3>2, <3>3 DEF Itemed
    <3> QED BY <2>2, <3>4, <3>5 DEF Itemed
  <2>3. CASE ToReview(c) /\ files' \subseteq files /\ UNCHANGED rows
    BY <2>1, <2>3, ReviewEnds, IdleType, ItemedLocal DEF SInv, Same
  <2> QED BY <1>3, <2>2, <2>3 DEF SaveRow
<1>4. CASE SaveTidy(c)
  <2>1. Goto(c, "append") /\ files' \subseteq files /\ UNCHANGED <<rows, sess, shelf>>
    BY <1>4 DEF SaveTidy
  <2> QED BY <2>1, GoesOn, ItemedLocal DEF SInv, Same, Places
<1>5. CASE SaveAppend(c)
  <2>1. ToMain(c) /\ UNCHANGED <<rows, files>>
    BY <1>5 DEF SaveAppend, disk
  <2> QED BY <2>1, MainEnds, IdleType, ItemedLocal DEF SInv
<1> QED BY <1>1, <1>2, <1>3, <1>4, <1>5 DEF Saving

\* Sending records, deletes and removes.
LEMMA SendItemed ==
    ASSUME SInv, Itemed, NEW c \in Calls, Send(c)
    PROVE  Itemed'
<1>1. ASSUME ToMain(c), files' \subseteq files, UNCHANGED rows PROVE Itemed'
  BY <1>1, MainEnds, IdleType, ItemedLocal DEF SInv
<1>2. CASE SendStart(c)
  <2>1. UNCHANGED <<rows, files, sess, shelf>>
    BY <1>2 DEF SendStart, disk
  <2>2. work' = work \/ work' = [work EXCEPT ![c] = [Idle EXCEPT !.at = "submit",
                                                       !.attempt = Len(journal) + 1]]
    BY <1>2 DEF SendStart
  <2>3. \A o \in Calls : work'[o].at \in {"stage", "row"} => work'[o] = work[o]
    BY <2>2 DEF SInv, Form, Idle
  <2> QED BY <2>1, <2>3, ItemedStays
<1>3. CASE Submit(c)
  <2>1. UNCHANGED <<rows, files, sess, shelf>>
    BY <1>3 DEF Submit, disk
  <2>2. PICK x : work' = [work EXCEPT ![c].at = "record", ![c].outcome = x]
    BY <1>3 DEF Submit, Outcome
  <2>3. \A o \in Calls : work'[o].at \in {"stage", "row"} => work'[o] = work[o]
    BY <2>2 DEF SInv, Form, WorkType
  <2> QED BY <2>1, <2>3, ItemedStays
<1>4. CASE Record(c)
  <2>1. UNCHANGED <<rows, files>>
    BY <1>4 DEF Record, disk
  <2>2. ToReview(c) \/ ToMain(c) \/ (Goto(c, "drop") /\ UNCHANGED <<sess, shelf>>)
    BY <1>4 DEF Record
  <2>3. CASE ToReview(c)
    BY <2>1, <2>3, ReviewEnds, IdleType, ItemedLocal DEF SInv, Same
  <2>4. CASE Goto(c, "drop") /\ UNCHANGED <<sess, shelf>>
    BY <2>1, <2>4, GoesOn, ItemedLocal DEF SInv, Same, Places
  <2> QED BY <1>1, <2>1, <2>2, <2>3, <2>4
<1>5. CASE Drop(c)
  <2>1. UNCHANGED files
    BY <1>5 DEF Drop
  <2>2. CASE rows' = [rows EXCEPT ![sess[c].text] = {}] /\ Goto(c, "wipe") /\ UNCHANGED <<sess, shelf>>
    <3>1. \A t \in Texts : rows'[t] \subseteq rows[t]
      BY <2>2 DEF SInv, Form
    <3>2. Local(c) /\ work'[c].at = "wipe"
      BY <2>2, GoesOn DEF SInv, Places
    <3>3. \A o \in Calls : work'[o].at \in {"stage", "row"} => work'[o] = work[o]
      BY <3>2 DEF Local
    <3> QED BY <2>1, <2>2, <3>1, <3>3, ItemedStays
  <2>3. CASE ToMain(c) /\ UNCHANGED rows
    BY <1>1, <2>1, <2>3
  <2> QED BY <1>5, <2>2, <2>3 DEF Drop
<1>6. CASE Wipe(c)
  BY <1>1, <1>6 DEF Wipe
<1> QED BY <1>2, <1>3, <1>4, <1>5, <1>6 DEF Send

\* Every step keeps the invariant.
LEMMA TInvStep == TInv /\ [Next]_vars => TInv'
<1> SUFFICES ASSUME SInv, Bounded, Itemed, [Next]_vars PROVE Itemed'
  BY SInvStep, BoundedStep DEF TInv
<1>1. CASE UNCHANGED vars
  BY <1>1, ItemedStays DEF vars
<1>2. CASE Crash
  <2>1. UNCHANGED <<rows, files>> /\ \A o \in Calls :
            sess'[o] = None /\ shelf'[o] = {} /\ work'[o] = Idle
    BY <1>2 DEF Crash, disk
  <2> QED BY <2>1, IdleType, ItemedStays
<1>3. ASSUME NEW c \in Calls, Leave(c) PROVE Itemed'
  <2>1. /\ UNCHANGED <<rows, files, work>> /\ sess' = [sess EXCEPT ![c] = None]
        /\ shelf' \in {shelf, [shelf EXCEPT ![c] = {}]}
    BY <1>3 DEF Leave, disk
  <2>2. \A o \in Calls : sess'[o] \in {None, sess[o]} /\ shelf'[o] \subseteq shelf[o]
    BY <2>1 DEF SInv, Form
  <2> QED BY <2>1, <2>2, ItemedStays
<1> QED BY <1>1, <1>2, <1>3, CallerItemed, OpenItemed, SaveItemed, SendItemed DEF Next

\* At first there is nothing.
LEMMA TInvInit == Init => TInv
<1> SUFFICES ASSUME Init PROVE Bounded /\ Itemed
  BY SInvInit DEF TInv
<1>1. Bounded
  BY BoundsNat DEF Init, Bounded
<1>2. Itemed
  BY IdleType DEF Init, Itemed
<1> QED BY <1>1, <1>2

\* The tables, the files, the sessions and the journal hold what their types say: a
\* row names attachments that were recorded and a generation that was made.
THEOREM SubmissionTypesHold == Spec => []TypeOK
<1>1. TInv => TypeOK
  <2> SUFFICES ASSUME TInv PROVE TypeOK
    OBVIOUS
  <2>1. \A s \in Seq(Items) : ToSet(s) \subseteq Items
    BY DEF ToSet
  <2>2. ASSUME NEW t \in Texts
        PROVE  /\ Cardinality(rows[t]) <= 1
               /\ \A r \in rows[t] : r.gen \in 1..MaxSaves /\ ToSet(r.items) \subseteq Items
    <3>1. \A r, q \in rows[t] : r = q
      BY DEF TInv, Itemed
    <3>2. rows[t] = {} \/ \E r : rows[t] = {r}
      BY <3>1
    <3>3. Cardinality(rows[t]) <= 1
      <4>1. Cardinality(rows[t]) \in {0, 1}
        BY <3>2, FS_EmptySet, FS_Singleton
      <4> QED BY <4>1, SMT
    <3> QED BY <2>1, <3>3 DEF TInv, Itemed, Rowed
  <2>3. ASSUME NEW c \in Calls, sess[c] # None
        PROVE  sess[c].text \in composed /\ sess[c].saved \in BOOLEAN /\ ToSet(sess[c].items) \subseteq Items
    <3>1. Drafted(sess[c]) /\ sess[c].items \in Seq(Items)
      BY <2>3 DEF TInv, SInv, Form, Itemed
    <3> QED BY <2>1, <2>3, <3>1 DEF TInv, SInv, Origins, Has, Drafted
  <2>4. \A c \in Calls : work[c].at \in Places /\ (work[c].at # "idle" => sess[c] # None)
    BY DEF TInv, SInv, Form, WorkType
  <2>5. \A n \in 1..Len(journal) : journal[n].text \in composed /\ journal[n].status \in Statuses
    <3>1. \A n \in 1..Len(journal) : journal[n] \in EntryType /\ journal[n].text \in composed
      BY DEF TInv, SInv, Form, Origins
    <3> QED BY <3>1 DEF EntryType
  <2>6. /\ \A c \in Calls : \A d \in shelf[c] : d.text \in composed
        /\ delivered \subseteq 1..Len(journal) /\ appended \in [Texts -> Nat] /\ composed \subseteq Texts
    BY DEF TInv, SInv, Form, Origins, Attempts
  <2> QED BY <2>2, <2>3, <2>4, <2>5, <2>6 DEF TInv, Bounded, Itemed, TypeOK
<1> QED BY <1>1, TInvInit, TInvStep, PTL DEF Spec
=============================================================================

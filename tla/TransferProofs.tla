--------------------------- MODULE TransferProofs ---------------------------
(***************************************************************************)
(* Proofs about Transfer, for any number of files, blocks, versions,       *)
(* sessions and faults.  First the control: every question of the reader   *)
(* is answered once, and a skipped file is not reported as completed.  The *)
(* data rest on it: types, what is stored, what is reported as completed.  *)
(***************************************************************************)
EXTENDS Transfer, SequenceTheorems, FiniteSetTheorems, TLAPS

\* The channel s holds a message of a type in T; at most one; only about file n.
Has(s, T) == \E i \in 1 .. Len(s) : s[i].t \in T
Single(s, T) == \A i, j \in 1 .. Len(s) : s[i].t \in T /\ s[j].t \in T => i = j
About(s, T, n) == \A i \in 1 .. Len(s) : s[i].t \in T => s[i].n = n

Answers == {"confirm", "skip", "need"}
Both == alive = {"client", "host"}

\* The shapes of the jobs and of the channels: which fields there are, not what
\* is in them.
IsRead(r) ==
    DOMAIN r = {"on", "num", "open", "ver", "pos", "confirmed", "skipped", "hadSkip",
                "error", "resume", "always"}
IsWrite(w) ==
    DOMAIN w = {"on", "num", "open", "pos", "ver", "skipped", "hadSkip", "resume", "always"}
IsChannel(s) == \E M : s \in Seq(M)

Shapes ==
    /\ upload \in BOOLEAN /\ audited \in BOOLEAN /\ started \in BOOLEAN
    /\ alive \subseteq {"client", "host"}
    /\ IsRead(rd) /\ IsWrite(wr) /\ IsChannel(toR) /\ IsChannel(toW)
    /\ pending \in {"none", "open", "finished"}

\* A job that is not on is no job; an open file is one of the files.
JobSound ==
    /\ rd.on \/ rd = NoRead
    /\ wr.on \/ wr = NoWrite
    /\ rd.open => rd.num \in Files

\* An end that left has no job and gets no message; without a host nothing
\* is to be audited; the user answers only while the client is there.
GoneEnds ==
    /\ Reader \notin alive => rd = NoRead /\ toR = <<>>
    /\ Writer \notin alive => wr = NoWrite /\ toW = <<>>
    /\ "client" \notin alive => prompt = {}
    /\ "host" \notin alive => pending = "none"

\* Before its job is started a session is empty.
NotStarted ==
    ~started => /\ rd = NoRead /\ wr = NoWrite /\ toR = <<>> /\ toW = <<>>
                /\ prompt = {} /\ pending = "none" /\ audit = "none" /\ skips = {}

\* The host is asked to start once, and before anything else.
StartFirst ==
    /\ upload => /\ Single(toW, {"start"})
                 /\ Has(toW, {"start"}) => Head(toW).t = "start"
                 /\ ~Has(toR, {"skip"})
    /\ ~upload =>
          /\ Single(toR, {"start"}) /\ ~Has(toR, {"need"})
          /\ Has(toR, {"start"}) =>
                /\ Head(toR).t = "start"
                /\ rd = NoRead /\ toW = <<>> /\ ~Has(toR, Answers) /\ prompt = {}
                /\ pending = "none" /\ audit = "none" /\ skips = {} /\ started
                /\ "client" \in alive => wr.on \/ Has(toR, {"cancel"})

\* One question at a time: a digest on its way, an answer on its way, or the
\* user being asked, and always about the file the reader waits with.
OneQuestion ==
    /\ Single(toW, {"digest"}) /\ Single(toR, Answers)
    /\ \A m, n \in prompt : m = n
    /\ Has(toW, {"digest"}) => ~Has(toR, Answers) /\ prompt = {}
    /\ Has(toR, Answers) => prompt = {}
    /\ rd.on => /\ About(toW, {"digest"}, rd.num) /\ About(toR, Answers, rd.num)
                /\ prompt \subseteq {rd.num}
                /\ (Has(toW, {"digest"}) \/ Has(toR, Answers) \/ prompt # {})
                       => rd.open /\ ~rd.confirmed

\* While the reader works, its partner is there to answer, or will be, or the
\* reader is about to hear that the job is over.
GivenUp == \/ Has(toR, {"cancel"})
           \/ /\ "write" \in faults \/ "finalize" \in faults
              /\ ~audited \/ Has(toR, {"error"})
PartnerThere ==
    (Both /\ rd.on /\ "read" \notin faults) =>
        /\ ~Has(toW, {"done", "error", "cancel"})
        /\ upload => wr.on \/ Has(toW, {"start"})
        /\ ~upload => wr.on \/ GivenUp

\* A reader that waits has its question somewhere.
QuestionOut ==
    (Both /\ rd.open /\ ~rd.confirmed /\ "read" \notin faults /\ "stat" \notin faults) =>
        \/ Has(toW, {"digest"}) \/ Has(toR, Answers) \/ prompt # {}
        \/ ~upload /\ GivenUp

\* The host of a download audits the job as long as it reads, and a skip is
\* known to the reader, or on its way, before the job can be called complete.
AuditOpen == (~upload /\ rd.on) => pending = (IF audited THEN "open" ELSE "none")
SkipKnown ==
    ~upload =>
        /\ (rd.on /\ skips # {}) => rd.hadSkip \/ Has(toR, {"skip"})
        /\ (pending = "finished" \/ audit = "COMPLETED") =>
              rd = NoRead /\ ~Has(toW, {"digest"}) /\ prompt = {} /\ skips = {}
              /\ ~Has(toR, {"start"})

IInv ==
    /\ Shapes /\ JobSound /\ GoneEnds /\ NotStarted /\ StartFirst
    /\ OneQuestion /\ PartnerThere /\ QuestionOut /\ AuditOpen /\ SkipKnown

\* None of the faults that the invariant names happened.
SameFaults ==
    /\ "read" \in faults' <=> "read" \in faults
    /\ "stat" \in faults' <=> "stat" \in faults
    /\ "write" \in faults' <=> "write" \in faults
    /\ "finalize" \in faults' <=> "finalize" \in faults

----------------------------------------------------------------------------
(* The channels.  What the proofs use of a channel is which types of       *)
(* messages it holds.                                                      *)

\* What sending m on s does: s2 is the channel afterwards.
Sent(s, s2, m) ==
    /\ IsChannel(s2) /\ s2 # <<>>
    /\ Head(s2) = IF s = <<>> THEN m ELSE Head(s)
    /\ \A T : Has(s2, T) <=> Has(s, T) \/ m.t \in T
    /\ \A T : Single(s, T) /\ (m.t \in T => ~Has(s, T)) => Single(s2, T)
    /\ \A T, n : About(s, T, n) /\ (m.t \in T => m.n = n) => About(s2, T, n)

\* What taking the first message of s does.
Took(s, s2) ==
    /\ IsChannel(s2)
    /\ \A T : Head(s).t \in T => Has(s, T)
    /\ \A T : Has(s2, T) => Has(s, T)
    /\ \A T : Has(s, T) /\ Head(s).t \notin T => Has(s2, T)
    /\ \A T : Single(s, T) => Single(s2, T)
    /\ \A T : Single(s, T) /\ Head(s).t \in T => ~Has(s2, T)
    /\ \A T, n : About(s, T, n) => About(s2, T, n)
    /\ \A T, n : About(s, T, n) /\ Head(s).t \in T => Head(s).n = n

\* An empty channel holds nothing.
LEMMA EmptyFacts ==
    /\ IsChannel(<<>>)
    /\ \A T : ~Has(<<>>, T) /\ Single(<<>>, T)
    /\ \A T, n : About(<<>>, T, n)
  <1>1. IsChannel(<<>>)
    <2>1. <<>> \in Seq({})
      OBVIOUS
    <2> QED  BY <2>1 DEF IsChannel
  <1>2. /\ \A T : ~Has(<<>>, T) /\ Single(<<>>, T)
        /\ \A T, n : About(<<>>, T, n)
    BY DEF Has, Single, About
  <1> QED  BY <1>1, <1>2

\* A channel without messages of a type in T says nothing about them.
LEMMA NoneFacts ==
    ASSUME NEW s, NEW T, ~Has(s, T)
    PROVE  Single(s, T) /\ \A n : About(s, T, n)
  BY DEF Has, Single, About

\* A skip is an answer.
LEMMA SkipIsAnswer == \A s : Has(s, {"skip"}) => Has(s, Answers)
  BY DEF Has, Answers

\* Sending appends one message.
LEMMA SentFacts ==
    ASSUME NEW s, IsChannel(s), NEW m
    PROVE  Sent(s, s \o <<m>>, m)
  <1> PICK M : s \in Seq(M)
    BY DEF IsChannel
  <1> DEFINE N == M \cup {m}
  <1>1. s \in Seq(N) /\ <<m>> \in Seq(N)
    OBVIOUS
  <1> DEFINE s2 == s \o <<m>>
  <1>2. s2 \in Seq(N) /\ Len(s2) = Len(s) + 1 /\ s2[Len(s) + 1] = m
        /\ \A i \in 1 .. Len(s) : s2[i] = s[i]
    BY <1>1
  <1>3. Len(s) \in Nat /\ (s = <<>> <=> Len(s) = 0)
    OBVIOUS
  <1>4. Head(s2) = IF s = <<>> THEN m ELSE Head(s)
    BY <1>1, <1>2, <1>3
  <1>5. s2 # <<>>
    BY <1>2, <1>3
  <1>6. IsChannel(s2)
    BY <1>2 DEF IsChannel
  <1> HIDE DEF s2, N
  <1>7. \A T : Has(s2, T) <=> Has(s, T) \/ m.t \in T
    <2> TAKE T
    <2>1. ASSUME Has(s2, T)  PROVE  Has(s, T) \/ m.t \in T
      BY <2>1, <1>2, <1>3 DEF Has
    <2>2. ASSUME Has(s, T)  PROVE  Has(s2, T)
      BY <2>2, <1>2, <1>3 DEF Has
    <2>3. ASSUME m.t \in T  PROVE  Has(s2, T)
      BY <2>3, <1>2, <1>3 DEF Has
    <2> QED  BY <2>1, <2>2, <2>3
  <1>8. \A T : Single(s, T) /\ (m.t \in T => ~Has(s, T)) => Single(s2, T)
    BY <1>2, <1>3 DEF Has, Single
  <1>9. \A T, n : About(s, T, n) /\ (m.t \in T => m.n = n) => About(s2, T, n)
    BY <1>2, <1>3 DEF About
  <1> QED  BY <1>4, <1>5, <1>6, <1>7, <1>8, <1>9 DEF Sent, s2

\* Receiving removes the first message.
LEMMA TookFacts ==
    ASSUME NEW s, IsChannel(s), s # <<>>
    PROVE  Took(s, Tail(s))
  <1> PICK M : s \in Seq(M)
    BY DEF IsChannel
  <1> DEFINE s2 == Tail(s)
  <1>1. s2 \in Seq(M) /\ Len(s) \in Nat \ {0} /\ Len(s2) = Len(s) - 1
        /\ Head(s) = s[1] /\ \A i \in 1 .. Len(s2) : s2[i] = s[i + 1]
    OBVIOUS
  <1>2. IsChannel(s2)
    BY <1>1 DEF IsChannel
  <1> HIDE DEF s2
  <1>3. \A T : Head(s).t \in T => Has(s, T)
    BY <1>1 DEF Has
  <1>4. \A T : Has(s2, T) => Has(s, T)
    <2> SUFFICES ASSUME NEW T, Has(s2, T)  PROVE  Has(s, T)
      OBVIOUS
    <2> PICK i \in 1 .. Len(s2) : s2[i].t \in T
      BY DEF Has
    <2>1. i + 1 \in 1 .. Len(s) /\ s[i + 1].t \in T
      BY <1>1
    <2> QED  BY <2>1 DEF Has
  <1>5. \A T : Has(s, T) /\ Head(s).t \notin T => Has(s2, T)
    <2> SUFFICES ASSUME NEW T, Has(s, T), Head(s).t \notin T  PROVE  Has(s2, T)
      OBVIOUS
    <2> PICK i \in 1 .. Len(s) : s[i].t \in T
      BY DEF Has
    <2>1. i - 1 \in 1 .. Len(s2) /\ s2[i - 1].t \in T
      BY <1>1
    <2> QED  BY <2>1 DEF Has
  <1>6. \A T : Single(s, T) => Single(s2, T)
    <2> SUFFICES ASSUME NEW T, Single(s, T), NEW i \in 1 .. Len(s2), NEW j \in 1 .. Len(s2),
                        s2[i].t \in T, s2[j].t \in T
                 PROVE  i = j
      BY DEF Single
    <2>1. i + 1 \in 1 .. Len(s) /\ j + 1 \in 1 .. Len(s)
          /\ s[i + 1].t \in T /\ s[j + 1].t \in T
      BY <1>1
    <2>2. i + 1 = j + 1
      BY <2>1 DEF Single
    <2> QED  BY <2>2
  <1>7. \A T : Single(s, T) /\ Head(s).t \in T => ~Has(s2, T)
    <2> SUFFICES ASSUME NEW T, Single(s, T), Head(s).t \in T, Has(s2, T)  PROVE  FALSE
      OBVIOUS
    <2> PICK i \in 1 .. Len(s2) : s2[i].t \in T
      BY DEF Has
    <2>1. 1 \in 1 .. Len(s) /\ i + 1 \in 1 .. Len(s) /\ s[i + 1].t \in T /\ s[1].t \in T
      BY <1>1
    <2>2. i + 1 = 1
      BY <2>1 DEF Single
    <2> QED  BY <2>2
  <1>8. \A T, n : About(s, T, n) => About(s2, T, n)
    <2> SUFFICES ASSUME NEW T, NEW n, About(s, T, n), NEW i \in 1 .. Len(s2), s2[i].t \in T
                 PROVE  s2[i].n = n
      BY DEF About
    <2>1. i + 1 \in 1 .. Len(s) /\ s2[i] = s[i + 1]
      BY <1>1
    <2> QED  BY <2>1 DEF About
  <1>9. \A T, n : About(s, T, n) /\ Head(s).t \in T => Head(s).n = n
    BY <1>1 DEF About
  <1> QED  BY <1>2, <1>3, <1>4, <1>5, <1>6, <1>7, <1>8, <1>9 DEF Took, s2

----------------------------------------------------------------------------
(* The jobs.                                                               *)

\* The records of no job.
LEMMA NoJobs ==
    /\ ~NoRead.on /\ ~NoRead.open /\ ~NoRead.hadSkip /\ IsRead(NoRead)
    /\ ~NoWrite.on /\ IsWrite(NoWrite)
  BY DEF NoRead, NoWrite, IsRead, IsWrite

\* What a confirmation does to the job of the reader: after one for its file it
\* does not wait any more, and a skip is noted.
LEMMA ReadConfirmFacts ==
    ASSUME NEW r, IsRead(r), NEW n, NEW skip, NEW o
    PROVE  LET r2 == ReadConfirm(r, n, skip, o)
           IN /\ IsRead(r2) /\ r2.on = r.on
              /\ r.num # n => r2 = r
              /\ r2.open => r2.num = r.num /\ (r.num = n => r2.confirmed)
              /\ r.hadSkip => r2.hadSkip
              /\ (r.num = n /\ skip) => r2.hadSkip
  BY DEF ReadConfirm, Advance, IsRead

\* ... and to the job of the writer.
LEMMA WriteConfirmFacts ==
    ASSUME NEW w, IsWrite(w), NEW n, NEW skip, NEW o
    PROVE  LET w2 == WriteConfirm(w, n, skip, o)
           IN IsWrite(w2) /\ w2.on = w.on
  BY DEF WriteConfirm, IsWrite

----------------------------------------------------------------------------
(* Every action keeps the inductive invariant.  The first steps of a proof *)
(* say what the action does to the jobs and the channels; the rest is one  *)
(* step for each group of its conjuncts.                                   *)

\* What positioning a job does to the faults.
LEMMA PositionedFaults ==
    ASSUME NEW j, NEW n, NEW o, NEW k, Positioned(j, n, o, k)
    PROVE  SameFaults
  BY DEF Positioned, Fault, SameFaults

\* A step that leaves the control alone keeps the invariant.
LEMMA QuietKeeps ==
    ASSUME IInv, UNCHANGED <<upload, audited, alive, rd, wr, toR, toW, prompt, pending,
                             audit, skips>>,
           started' \in {started, TRUE}, SameFaults
    PROVE  IInv'
  <1>1. Shapes' /\ JobSound'
    BY DEF IInv, Shapes, JobSound
  <1>2. GoneEnds' /\ NotStarted'
    BY DEF IInv, GoneEnds, NotStarted, Reader, Writer
  <1>3. StartFirst'
    BY DEF IInv, StartFirst
  <1>4. OneQuestion'
    BY DEF IInv, OneQuestion
  <1>5. PartnerThere'
    BY DEF IInv, PartnerThere, GivenUp, Both, SameFaults
  <1>6. QuestionOut'
    BY DEF IInv, QuestionOut, GivenUp, Both, SameFaults
  <1>7. AuditOpen' /\ SkipKnown'
    BY DEF IInv, AuditOpen, SkipKnown
  <1> QED  BY <1>1, <1>2, <1>3, <1>4, <1>5, <1>6, <1>7 DEF IInv

\* Starting a job: the session was empty.
LEMMA BeginKeeps ==
    ASSUME IInv, NEW n, NEW res, Begin(n, res),
           UNCHANGED <<upload, audited, alive, prompt, pending, audit, faults>>
    PROVE  IInv'
  <1> DEFINE m == Msg("start", n, EOF)
  <1>1. IInv /\ ~started /\ started' /\ skips' = {} /\ "client" \in alive
        /\ UNCHANGED <<upload, audited, alive, prompt, pending, audit, faults>>
    BY DEF Begin
  <1>2. m.t = "start" /\ m.n = n
    BY DEF Msg
  <1>3. IF upload THEN rd' = NewRead(n, res) /\ UNCHANGED <<wr, toR>>
                  ELSE wr' = NewWrite(n, res) /\ UNCHANGED <<rd, toW>>
    BY DEF Begin
  <1>4. /\ LET r == NewRead(n, res) IN IsRead(r) /\ r.on /\ ~r.open /\ ~r.hadSkip
        /\ LET w == NewWrite(n, res) IN IsWrite(w) /\ w.on
    BY DEF NewRead, NewWrite, NoRead, NoWrite, IsRead, IsWrite
  <1>5. IF upload THEN IF Writer \in alive THEN Sent(toW, toW', m) ELSE toW' = toW
                  ELSE IF Reader \in alive THEN Sent(toR, toR', m) ELSE toR' = toR
    BY SentFacts DEF IInv, Shapes, Begin, SendW, SendR
  <1> HIDE DEF m
  <1>6. Shapes' /\ JobSound'
    BY <1>1, <1>3, <1>4, <1>5 DEF IInv, Shapes, JobSound, Sent
  <1>7. GoneEnds' /\ NotStarted'
    BY <1>1, <1>3, <1>5 DEF IInv, GoneEnds, NotStarted, Reader, Writer
  <1>8. StartFirst'
    BY <1>1, <1>2, <1>3, <1>4, <1>5, EmptyFacts
       DEF IInv, StartFirst, NotStarted, Sent, Answers
  <1>9. OneQuestion'
    BY <1>1, <1>2, <1>3, <1>5, NoJobs, EmptyFacts DEF IInv, OneQuestion, NotStarted, Sent
  <1>10. PartnerThere'
    BY <1>1, <1>2, <1>3, <1>4, <1>5, EmptyFacts
       DEF IInv, PartnerThere, Both, NotStarted, Writer, Sent
  <1>11. QuestionOut'
    BY <1>1, <1>3, <1>4, NoJobs DEF IInv, QuestionOut, NotStarted
  <1>12. AuditOpen' /\ SkipKnown'
    BY <1>1, <1>3 DEF IInv, AuditOpen, SkipKnown, NotStarted
  <1> QED  BY <1>6, <1>7, <1>8, <1>9, <1>10, <1>11, <1>12 DEF IInv

\* Cancelling: the job is gone and the host is told.
LEMMA CancelKeeps ==
    ASSUME IInv, CancelJob
    PROVE  IInv'
  <1> DEFINE m == Msg("cancel", 0, EOF)
  <1>1. IInv /\ "client" \in alive
        /\ UNCHANGED <<upload, audited, started, alive, prompt, pending, audit, skips, faults>>
    BY DEF CancelJob, link, log, hist
  <1>2. m.t = "cancel" /\ m.n = 0
    BY DEF Msg
  <1>3. IF upload
        THEN /\ rd.on /\ rd' = NoRead /\ UNCHANGED <<wr, toR>>
             /\ IF Writer \in alive THEN Sent(toW, toW', m) ELSE toW' = toW
        ELSE /\ wr.on /\ wr' = NoWrite /\ UNCHANGED <<rd, toW>>
             /\ IF Reader \in alive THEN Sent(toR, toR', m) ELSE toR' = toR
    BY SentFacts DEF IInv, Shapes, CancelJob, SendW, SendR
  <1> HIDE DEF m
  <1>4. Shapes' /\ JobSound'
    BY <1>1, <1>3, NoJobs DEF IInv, Shapes, JobSound, Sent
  <1>5. GoneEnds' /\ NotStarted'
    BY <1>1, <1>3, NoJobs DEF IInv, GoneEnds, NotStarted, Reader, Writer
  <1>6. StartFirst'
    BY <1>1, <1>2, <1>3, EmptyFacts DEF IInv, StartFirst, GoneEnds, Sent, Answers
  <1>7. OneQuestion'
    BY <1>1, <1>2, <1>3, NoJobs DEF IInv, OneQuestion, Sent, Answers
  <1>8. PartnerThere'
    BY <1>1, <1>2, <1>3, NoJobs DEF IInv, PartnerThere, GivenUp, Both, GoneEnds, Sent
  <1>9. QuestionOut'
    BY <1>1, <1>3, NoJobs DEF IInv, QuestionOut, GivenUp, Both, Sent
  <1>10. AuditOpen' /\ SkipKnown'
    BY <1>1, <1>2, <1>3 DEF IInv, AuditOpen, SkipKnown, Sent
  <1> QED  BY <1>4, <1>5, <1>6, <1>7, <1>8, <1>9, <1>10 DEF IInv

\* The client leaves; what it had sent may still arrive.
LEMMA ClientEndsKeeps ==
    ASSUME IInv, NEW keep, ClientEnds(keep)
    PROVE  IInv'
  <1>1. /\ IInv /\ alive' = alive \ {"client"} /\ prompt' = {}
        /\ UNCHANGED <<upload, audited, started, pending, audit, skips, faults>>
        /\ IF upload THEN rd' = NoRead /\ toR' = <<>> /\ UNCHANGED <<wr, toW>>
                     ELSE wr' = NoWrite /\ toW' = <<>> /\ UNCHANGED <<rd, toR>>
    BY DEF ClientEnds, log
  <1>2. Shapes' /\ JobSound'
    BY <1>1, NoJobs, EmptyFacts DEF IInv, Shapes, JobSound
  <1>3. GoneEnds' /\ NotStarted'
    BY <1>1 DEF IInv, GoneEnds, NotStarted, Reader, Writer
  <1>4. StartFirst'
    BY <1>1, EmptyFacts DEF IInv, StartFirst
  <1>5. OneQuestion'
    BY <1>1, NoJobs, EmptyFacts DEF IInv, OneQuestion
  <1>6. PartnerThere'
    BY <1>1 DEF PartnerThere, Both
  <1>7. QuestionOut'
    BY <1>1 DEF QuestionOut, Both
  <1>8. AuditOpen' /\ SkipKnown'
    BY <1>1, EmptyFacts DEF IInv, AuditOpen, SkipKnown
  <1> QED  BY <1>2, <1>3, <1>4, <1>5, <1>6, <1>7, <1>8 DEF IInv

\* The host leaves.
LEMMA HostCloseKeeps ==
    ASSUME IInv, HostClose
    PROVE  IInv'
  <1>1. /\ IInv /\ alive' = alive \ {"host"} /\ pending' = "none"
        /\ audit' = (IF pending = "none" THEN audit ELSE "CANCELLED")
        /\ UNCHANGED <<upload, audited, started, prompt, skips, faults>>
        /\ IF upload THEN wr' = NoWrite /\ toW' = <<>> /\ UNCHANGED <<rd, toR>>
                     ELSE rd' = NoRead /\ toR' = <<>> /\ UNCHANGED <<wr, toW>>
    BY DEF HostClose, ui, hist
  <1>2. Shapes' /\ JobSound'
    BY <1>1, NoJobs, EmptyFacts DEF IInv, Shapes, JobSound
  <1>3. GoneEnds' /\ NotStarted'
    BY <1>1 DEF IInv, GoneEnds, NotStarted, Reader, Writer
  <1>4. StartFirst'
    BY <1>1, EmptyFacts DEF IInv, StartFirst
  <1>5. OneQuestion'
    BY <1>1, NoJobs, EmptyFacts DEF IInv, OneQuestion
  <1>6. PartnerThere'
    BY <1>1 DEF PartnerThere, Both
  <1>7. QuestionOut'
    BY <1>1 DEF QuestionOut, Both
  <1>8. AuditOpen' /\ SkipKnown'
    BY <1>1, NoJobs, EmptyFacts DEF IInv, AuditOpen, SkipKnown
  <1> QED  BY <1>2, <1>3, <1>4, <1>5, <1>6, <1>7, <1>8 DEF IInv

\* A new session starts empty, because both ends had left.
LEMMA ConnectKeeps ==
    ASSUME IInv, NEW jobs, NewSession(jobs)
    PROVE  IInv'
  <1>1. /\ IInv /\ alive = {} /\ alive' = {"client", "host"} /\ started' = FALSE
        /\ audit' = "none" /\ skips' = {}
        /\ UNCHANGED <<upload, audited, rd, wr, toR, toW, prompt, pending>>
    BY DEF NewSession, ends, net
  <1>2. Shapes' /\ JobSound'
    BY <1>1 DEF IInv, Shapes, JobSound
  <1>3. GoneEnds' /\ NotStarted'
    BY <1>1 DEF IInv, GoneEnds, NotStarted
  <1>4. StartFirst'
    BY <1>1, EmptyFacts DEF IInv, StartFirst, GoneEnds
  <1>5. OneQuestion'
    BY <1>1 DEF IInv, OneQuestion
  <1>6. PartnerThere'
    BY <1>1, NoJobs DEF IInv, PartnerThere, GoneEnds
  <1>7. QuestionOut'
    BY <1>1, NoJobs DEF IInv, QuestionOut, GoneEnds
  <1>8. AuditOpen' /\ SkipKnown'
    BY <1>1 DEF IInv, AuditOpen, SkipKnown
  <1> QED  BY <1>2, <1>3, <1>4, <1>5, <1>6, <1>7, <1>8 DEF IInv

\* The reader opens a file and asks: it had no question out, for it waited with no file.
LEMMA ReadOpenKeeps ==
    ASSUME IInv, ReadOpen
    PROVE  IInv'
  <1> DEFINE m == Msg("digest", rd.num, <<src[rd.num], IF rd.resume THEN 1 ELSE 0>>)
  <1>1. /\ IInv /\ Reader \in alive /\ rd.on /\ ~rd.open /\ rd.num \in Files
        /\ UNCHANGED <<upload, audited, started, alive, wr, toR, prompt, pending, audit,
                       skips, faults>>
    BY DEF ReadOpen, Tick, link, ui, log, hist
  <1>2. m.t = "digest" /\ m.n = rd.num
    BY DEF Msg
  <1>3. IF Writer \in alive THEN Sent(toW, toW', m) ELSE toW' = toW
    BY SentFacts DEF IInv, Shapes, ReadOpen, SendW
  <1>4. /\ IsRead(rd') /\ rd'.on = rd.on /\ rd'.num = rd.num /\ rd'.open /\ ~rd'.confirmed
        /\ rd'.hadSkip = rd.hadSkip
    BY DEF IInv, Shapes, ReadOpen, IsRead
  <1> HIDE DEF m
  <1>5. Shapes' /\ JobSound'
    BY <1>1, <1>3, <1>4 DEF IInv, Shapes, JobSound, Sent
  <1>6. GoneEnds' /\ NotStarted'
    BY <1>1, <1>3, NoJobs DEF IInv, GoneEnds, NotStarted, Reader, Writer
  <1>7. StartFirst'
    BY <1>1, <1>2, <1>3, NoJobs, EmptyFacts DEF IInv, StartFirst, Sent
  <1>8. OneQuestion'
    BY <1>1, <1>2, <1>3, <1>4 DEF IInv, OneQuestion, Sent
  <1>9. PartnerThere'
    BY <1>1, <1>2, <1>3 DEF IInv, PartnerThere, GivenUp, Both, Sent
  <1>10. QuestionOut'
    BY <1>1, <1>2, <1>3, NoJobs, EmptyFacts
       DEF IInv, PartnerThere, QuestionOut, GivenUp, Both, GoneEnds, Sent
  <1>11. AuditOpen' /\ SkipKnown'
    BY <1>1, <1>4, NoJobs DEF IInv, AuditOpen, SkipKnown
  <1> QED  BY <1>5, <1>6, <1>7, <1>8, <1>9, <1>10, <1>11 DEF IInv

\* A file that cannot be opened ends the job.
LEMMA ReadOpenFaultKeeps ==
    ASSUME IInv, ReadOpenFault
    PROVE  IInv'
  <1> DEFINE r == [Advance(rd) EXCEPT !.error = TRUE]
             e == Msg("error", r.num, EOF)
             s == toW \o <<e>>
  <1>1. /\ IInv /\ Reader \in alive /\ rd.on /\ rd' = NoRead /\ faults' = faults \cup {"open"}
        /\ UNCHANGED <<upload, audited, started, alive, wr, toR, prompt, skips>>
    BY DEF ReadOpenFault, Tick, Fault, Finish, link, ui, hist
  <1>2. r.error
    BY DEF IInv, Shapes, IsRead, Advance
  <1>3. e.t = "error"
    BY DEF Msg
  <1>4. IF upload THEN UNCHANGED <<pending, audit>>
        ELSE pending' = "none" /\ audit' = (IF pending = "none" THEN audit ELSE "FAILED")
    BY <1>2 DEF ReadOpenFault, Finish, Outcome, log
  <1>5. Sent(toW, s, e)
    BY SentFacts DEF IInv, Shapes
  <1>6. IF Writer \in alive THEN Sent(s, toW', e) ELSE toW' = toW
    <2>1. toW' = IF Writer \in alive THEN toW \o (<<e>> \o <<e>>) ELSE toW
      BY <1>2 DEF ReadOpenFault, Finish, SendW
    <2> PICK M : toW \in Seq(M)
      BY DEF IInv, Shapes, IsChannel
    <2> HIDE DEF e
    <2> DEFINE N == M \cup {e}
    <2>2. toW \in Seq(N) /\ <<e>> \in Seq(N)
      OBVIOUS
    <2>3. toW \o (<<e>> \o <<e>>) = (toW \o <<e>>) \o <<e>>
      BY <2>2, ConcatAssociative
    <2>4. IsChannel(s)
      BY <1>5 DEF Sent
    <2>5. Sent(s, s \o <<e>>, e)
      BY <2>4, SentFacts
    <2> QED  BY <2>1, <2>3, <2>5
  <1> HIDE DEF r, e, s
  <1>7. Shapes' /\ JobSound'
    BY <1>1, <1>4, <1>6, NoJobs DEF IInv, Shapes, JobSound, Sent
  <1>8. GoneEnds' /\ NotStarted'
    BY <1>1, <1>4, <1>6, NoJobs DEF IInv, GoneEnds, NotStarted, Reader, Writer
  <1>9. StartFirst'
    BY <1>1, <1>3, <1>5, <1>6, NoJobs, EmptyFacts DEF IInv, StartFirst, Sent
  <1>10. OneQuestion'
    BY <1>1, <1>3, <1>5, <1>6, NoJobs DEF IInv, OneQuestion, Sent
  <1>11. PartnerThere'
    BY <1>1, NoJobs DEF PartnerThere
  <1>12. QuestionOut'
    BY <1>1, NoJobs DEF QuestionOut
  <1>13. AuditOpen' /\ SkipKnown'
    BY <1>1, <1>4, NoJobs DEF IInv, AuditOpen, SkipKnown
  <1> QED  BY <1>7, <1>8, <1>9, <1>10, <1>11, <1>12, <1>13 DEF IInv

\* The reader sends a block of a file whose question is answered.
LEMMA ReadBlockKeeps ==
    ASSUME IInv, ReadBlock
    PROVE  IInv'
  <1>1. /\ IInv /\ Reader \in alive /\ rd.on /\ rd.open /\ rd.confirmed
        /\ UNCHANGED <<upload, audited, started, alive, wr, toR, prompt, pending, audit,
                       skips, faults>>
    BY DEF ReadBlock, Tick, link, ui, log, hist
  <1>2. /\ IsRead(rd') /\ rd'.on = rd.on /\ rd'.hadSkip = rd.hadSkip
        /\ rd'.open => rd'.num = rd.num /\ rd'.confirmed
    BY <1>1 DEF IInv, Shapes, ReadBlock, Advance, IsRead
  <1>3. PICK m : /\ m.t = "block"
                 /\ IF Writer \in alive THEN Sent(toW, toW', m) ELSE toW' = toW
    <2> DEFINE b == Msg("block", rd.num, <<rd.ver, rd.pos + 1>>)
               l == Msg("block", rd.num, EOF)
    <2>1. b.t = "block" /\ l.t = "block"
      BY DEF Msg
    <2>2. Sent(toW, toW \o <<b>>, b) /\ Sent(toW, toW \o <<l>>, l)
      BY SentFacts DEF IInv, Shapes
    <2>3. \/ toW' = IF Writer \in alive THEN toW \o <<b>> ELSE toW
          \/ toW' = IF Writer \in alive THEN toW \o <<l>> ELSE toW
      BY DEF ReadBlock, SendW
    <2> HIDE DEF b, l
    <2> QED  BY <2>1, <2>2, <2>3
  <1>4. Shapes' /\ JobSound'
    BY <1>1, <1>2, <1>3 DEF IInv, Shapes, JobSound, Sent
  <1>5. GoneEnds' /\ NotStarted'
    BY <1>1, <1>3, NoJobs DEF IInv, GoneEnds, NotStarted, Reader, Writer
  <1>6. StartFirst'
    BY <1>1, <1>3, NoJobs, EmptyFacts DEF IInv, StartFirst, Sent
  <1>7. OneQuestion'
    BY <1>1, <1>3, NoneFacts DEF IInv, OneQuestion, Sent
  <1>8. PartnerThere'
    BY <1>1, <1>3 DEF IInv, PartnerThere, GivenUp, Both, Sent
  <1>9. QuestionOut'
    BY <1>2 DEF QuestionOut
  <1>10. AuditOpen' /\ SkipKnown'
    BY <1>1, <1>2, NoJobs DEF IInv, AuditOpen, SkipKnown
  <1> QED  BY <1>4, <1>5, <1>6, <1>7, <1>8, <1>9, <1>10 DEF IInv

\* A failed read: the writer is told the job is over, the reader goes on.
LEMMA ReadFaultKeeps ==
    ASSUME IInv, ReadFault
    PROVE  IInv'
  <1> DEFINE m == Msg("error", rd.num + 1, EOF)
  <1>1. /\ IInv /\ Reader \in alive /\ rd.on /\ rd.open /\ rd.confirmed
        /\ faults' = faults \cup {"read"}
        /\ UNCHANGED <<upload, audited, started, alive, wr, toR, prompt, pending, audit, skips>>
    BY DEF ReadFault, Tick, Fault, link, ui, log, hist
  <1>2. m.t = "error"
    BY DEF Msg
  <1>3. IF Writer \in alive THEN Sent(toW, toW', m) ELSE toW' = toW
    BY SentFacts DEF IInv, Shapes, ReadFault, SendW
  <1>4. IsRead(rd') /\ rd'.on = rd.on /\ ~rd'.open /\ rd'.hadSkip = rd.hadSkip
    BY DEF IInv, Shapes, ReadFault, Advance, IsRead
  <1> HIDE DEF m
  <1>5. Shapes' /\ JobSound'
    BY <1>1, <1>3, <1>4 DEF IInv, Shapes, JobSound, Sent
  <1>6. GoneEnds' /\ NotStarted'
    BY <1>1, <1>3, NoJobs DEF IInv, GoneEnds, NotStarted, Reader, Writer
  <1>7. StartFirst'
    BY <1>1, <1>2, <1>3, NoJobs, EmptyFacts DEF IInv, StartFirst, Sent
  <1>8. OneQuestion'
    BY <1>1, <1>2, <1>3, NoneFacts DEF IInv, OneQuestion, Sent
  <1>9. PartnerThere'
    BY <1>1 DEF PartnerThere
  <1>10. QuestionOut'
    BY <1>1 DEF QuestionOut
  <1>11. AuditOpen' /\ SkipKnown'
    BY <1>1, <1>4, NoJobs DEF IInv, AuditOpen, SkipKnown
  <1> QED  BY <1>5, <1>6, <1>7, <1>8, <1>9, <1>10, <1>11 DEF IInv

\* The job is over.  Nothing is open, so no skip is on its way: one that was is noted.
LEMMA ReadFinishKeeps ==
    ASSUME IInv, ReadFinish
    PROVE  IInv'
  <1> DEFINE bad == rd.error \/ (rd.skipped /\ NumFiles = 1)
             m == Msg(IF bad THEN "error" ELSE "done", rd.num, EOF)
  <1>1. /\ IInv /\ Reader \in alive /\ rd.on /\ rd' = NoRead /\ rd.num = NumFiles
        /\ UNCHANGED <<upload, audited, started, alive, wr, toR, prompt, skips, faults>>
    BY DEF ReadFinish, Tick, Finish, link, ui, hist
  <1>2. ~rd.open
    BY <1>1, TransferAssumption DEF IInv, JobSound, Files
  <1>3. m.t \in {"error", "done"}
    BY DEF Msg
  <1>4. IF Writer \in alive THEN Sent(toW, toW', m) ELSE toW' = toW
    <2>1. toW' = IF Writer \in alive THEN toW \o (<<>> \o <<m>>) ELSE toW
      BY DEF ReadFinish, Finish, SendW
    <2> HIDE DEF m
    <2>2. <<>> \o <<m>> = <<m>>
      OBVIOUS
    <2> QED  BY <2>1, <2>2, SentFacts DEF IInv, Shapes
  <1>5. \/ upload /\ UNCHANGED <<pending, audit>>
        \/ ~upload /\ pending' = "none" /\ audit' = (IF pending = "none" THEN audit ELSE "FAILED")
        \/ /\ ~upload /\ ~rd.hadSkip /\ UNCHANGED audit
           /\ pending' = (IF pending = "none" THEN "none" ELSE "finished")
    BY DEF ReadFinish, Finish, Outcome, log
  <1> HIDE DEF m, bad
  <1>6. Shapes' /\ JobSound'
    BY <1>1, <1>4, <1>5, NoJobs DEF IInv, Shapes, JobSound, Sent
  <1>7. GoneEnds' /\ NotStarted'
    BY <1>1, <1>4, <1>5, NoJobs DEF IInv, GoneEnds, NotStarted, Reader, Writer
  <1>8. StartFirst'
    BY <1>1, <1>3, <1>4, NoJobs, EmptyFacts DEF IInv, StartFirst, Sent
  <1>9. OneQuestion'
    BY <1>1, <1>2, <1>4, NoJobs DEF IInv, OneQuestion, Sent
  <1>10. PartnerThere'
    BY <1>1, NoJobs DEF PartnerThere
  <1>11. QuestionOut'
    BY <1>1, NoJobs DEF QuestionOut
  <1>12. AuditOpen' /\ SkipKnown'
    BY <1>1, <1>2, <1>3, <1>4, <1>5, NoJobs, SkipIsAnswer
       DEF IInv, AuditOpen, SkipKnown, StartFirst, OneQuestion, Sent
  <1> QED  BY <1>6, <1>7, <1>8, <1>9, <1>10, <1>11, <1>12 DEF IInv

\* The answer reaches the reader, which does not wait any more and knows of a skip.
LEMMA ConfirmReaderKeeps ==
    ASSUME IInv, NEW skip \in BOOLEAN, ConfirmReader(skip)
    PROVE  IInv'
  <1>1. /\ IInv /\ Reader \in alive /\ toR # <<>>
        /\ Head(toR).t = (IF skip THEN "skip" ELSE "confirm")
        /\ UNCHANGED <<upload, audited, started, alive, wr, toW, prompt, pending, audit, skips>>
        /\ SameFaults
    BY PositionedFaults DEF ConfirmReader, RecvR, link, ui, log
  <1>2. Took(toR, toR')
    BY TookFacts DEF IInv, Shapes, ConfirmReader, RecvR
  <1>3. rd.on => Head(toR).n = rd.num /\ rd.open
    BY <1>1, <1>2 DEF IInv, OneQuestion, Took, Answers
  <1>4. /\ ~rd.on => rd' = rd
        /\ rd.on => /\ IsRead(rd') /\ rd'.on
                    /\ rd'.open => rd'.num = rd.num /\ rd'.confirmed
                    /\ rd.hadSkip => rd'.hadSkip
                    /\ skip => rd'.hadSkip
    <2>1. IF rd.on THEN \E k : rd' = ReadConfirm(rd, Head(toR).n, skip, k) ELSE rd' = rd
      BY DEF ConfirmReader
    <2> QED  BY <1>3, <2>1, ReadConfirmFacts DEF IInv, Shapes
  <1>5. Shapes' /\ JobSound'
    BY <1>1, <1>2, <1>3, <1>4 DEF IInv, Shapes, JobSound, Took
  <1>6. GoneEnds' /\ NotStarted'
    BY <1>1 DEF IInv, GoneEnds, NotStarted, Reader, Writer
  <1>7. StartFirst'
    BY <1>1, <1>2 DEF IInv, StartFirst, Took
  <1>8. OneQuestion'
    BY <1>1, <1>2, NoneFacts DEF IInv, OneQuestion, Took, Answers
  <1>9. PartnerThere'
    BY <1>1, <1>2, <1>4 DEF IInv, PartnerThere, GivenUp, Both, Took, SameFaults
  <1>10. QuestionOut'
    BY <1>4, NoJobs DEF IInv, QuestionOut, JobSound
  <1>11. AuditOpen' /\ SkipKnown'
    BY <1>1, <1>2, <1>4, NoJobs DEF IInv, AuditOpen, SkipKnown, Took
  <1> QED  BY <1>5, <1>6, <1>7, <1>8, <1>9, <1>10, <1>11 DEF IInv

\* A confirmation of the client reaches the host.
LEMMA ConfirmWriterKeeps ==
    ASSUME IInv, NEW skip \in BOOLEAN, ConfirmWriter(skip)
    PROVE  IInv'
  <1>1. /\ IInv /\ Writer \in alive /\ toW # <<>>
        /\ Head(toW).t = (IF skip THEN "skip" ELSE "confirm")
        /\ UNCHANGED <<upload, audited, started, alive, rd, toR, prompt, pending, audit, skips>>
        /\ SameFaults
    BY PositionedFaults DEF ConfirmWriter, RecvW, link, ui, log, SameFaults
  <1>2. Took(toW, toW')
    BY TookFacts DEF IInv, Shapes, ConfirmWriter, RecvW
  <1>3. /\ ~wr.on => wr' = wr
        /\ wr.on => IsWrite(wr') /\ wr'.on
    <2> DEFINE w == [wr EXCEPT !.hadSkip = @ \/ skip]
    <2>1. IsWrite(w) /\ w.on = wr.on
      BY DEF IInv, Shapes, IsWrite
    <2>2. IF wr.on THEN \E k : wr' = WriteConfirm(w, Head(toW).n, skip, k) ELSE wr' = wr
      BY DEF ConfirmWriter
    <2> HIDE DEF w
    <2> QED  BY <2>1, <2>2, WriteConfirmFacts
  <1>4. Shapes' /\ JobSound'
    BY <1>1, <1>2, <1>3 DEF IInv, Shapes, JobSound, Took
  <1>5. GoneEnds' /\ NotStarted'
    BY <1>1 DEF IInv, GoneEnds, NotStarted, Reader, Writer
  <1>6. StartFirst'
    BY <1>1, <1>2 DEF IInv, StartFirst, Took
  <1>7. OneQuestion'
    BY <1>1, <1>2 DEF IInv, OneQuestion, Took
  <1>8. PartnerThere'
    BY <1>1, <1>2, <1>3 DEF IInv, PartnerThere, GivenUp, Both, Took, SameFaults
  <1>9. QuestionOut'
    BY <1>1, <1>2 DEF IInv, QuestionOut, GivenUp, Both, Took, SameFaults
  <1>10. AuditOpen' /\ SkipKnown'
    BY <1>1, <1>2 DEF IInv, AuditOpen, SkipKnown, Took
  <1> QED  BY <1>4, <1>5, <1>6, <1>7, <1>8, <1>9, <1>10 DEF IInv

\* A block is written.
LEMMA BlockKeeps ==
    ASSUME IInv, Block
    PROVE  IInv'
  <1>1. /\ IInv /\ Writer \in alive /\ toW # <<>> /\ Head(toW).t = "block"
        /\ UNCHANGED <<upload, audited, started, alive, rd, toR, prompt, pending, audit,
                       skips, faults>>
    BY DEF Block, RecvW, link, ui, log, hist
  <1>2. Took(toW, toW')
    BY TookFacts DEF IInv, Shapes, Block, RecvW
  <1>3. /\ ~wr.on => wr' = wr
        /\ wr.on => IsWrite(wr') /\ wr'.on
    BY DEF IInv, Shapes, Block, TakeBlock, IsWrite
  <1>4. Shapes' /\ JobSound'
    BY <1>1, <1>2, <1>3 DEF IInv, Shapes, JobSound, Took
  <1>5. GoneEnds' /\ NotStarted'
    BY <1>1 DEF IInv, GoneEnds, NotStarted, Reader, Writer
  <1>6. StartFirst'
    BY <1>1, <1>2 DEF IInv, StartFirst, Took
  <1>7. OneQuestion'
    BY <1>1, <1>2 DEF IInv, OneQuestion, Took
  <1>8. PartnerThere'
    BY <1>1, <1>2, <1>3 DEF IInv, PartnerThere, GivenUp, Both, Took
  <1>9. QuestionOut'
    BY <1>1, <1>2 DEF IInv, QuestionOut, GivenUp, Both, Took
  <1>10. AuditOpen' /\ SkipKnown'
    BY <1>1, <1>2 DEF IInv, AuditOpen, SkipKnown, Took
  <1> QED  BY <1>4, <1>5, <1>6, <1>7, <1>8, <1>9, <1>10 DEF IInv

\* A failed write: the client gives its job up and says so, the host keeps its job.
LEMMA WriteFailsKeeps ==
    ASSUME IInv, RecvW("block"), wr.on, WriteFails(Head(toW).n),
           NEW k \in {"write", "finalize"}, Fault(k),
           IF upload THEN IsWrite(wr') /\ wr'.on ELSE wr' = NoWrite
    PROVE  IInv'
  <1> DEFINE m == Msg("error", Head(toW).n, EOF)
  <1>1. /\ IInv /\ Writer \in alive /\ toW # <<>> /\ Head(toW).t = "block" /\ wr.on
        /\ faults' = faults \cup {k}
        /\ UNCHANGED <<upload, audited, started, alive, rd, prompt, skips>>
    BY DEF WriteFails, RecvW, Fault, link
  <1>2. Took(toW, toW')
    BY TookFacts DEF IInv, Shapes, RecvW
  <1>3. m.t = "error"
    BY DEF Msg
  <1>4. IF Reader \in alive THEN Sent(toR, toR', m) ELSE toR' = toR
    BY SentFacts DEF IInv, Shapes, WriteFails, SendR
  <1>5. IF upload
        THEN /\ IsWrite(wr') /\ wr'.on /\ pending' = "none"
             /\ audit' = (IF pending = "none" THEN audit ELSE "FAILED")
        ELSE wr' = NoWrite /\ UNCHANGED <<pending, audit>>
    BY DEF WriteFails, Outcome, log
  <1> HIDE DEF m
  <1>6. Shapes' /\ JobSound'
    BY <1>1, <1>2, <1>4, <1>5, NoJobs DEF IInv, Shapes, JobSound, Sent, Took
  <1>7. GoneEnds' /\ NotStarted'
    BY <1>1, <1>4, <1>5 DEF IInv, GoneEnds, NotStarted, Reader, Writer
  <1>8. StartFirst'
    BY <1>1, <1>2, <1>3, <1>4 DEF IInv, StartFirst, Sent, Took
  <1>9. OneQuestion'
    BY <1>1, <1>2, <1>3, <1>4 DEF IInv, OneQuestion, Sent, Took, Answers
  <1>10. PartnerThere'
    BY <1>1, <1>2, <1>3, <1>4, <1>5, NoJobs
       DEF IInv, PartnerThere, GivenUp, Both, GoneEnds, Sent, Took
  <1>11. QuestionOut'
    BY <1>1, <1>2, <1>4 DEF IInv, QuestionOut, GivenUp, Both, Sent, Took
  <1>12. AuditOpen' /\ SkipKnown'
    BY <1>1, <1>2, <1>3, <1>4, <1>5 DEF IInv, AuditOpen, SkipKnown, Sent, Took
  <1> QED  BY <1>6, <1>7, <1>8, <1>9, <1>10, <1>11, <1>12 DEF IInv

\* ... whether it is the block, a new file or the file before that cannot be written.
LEMMA BlockFaultKeeps ==
    ASSUME IInv, BlockFault \/ CreateFault \/ FinalizeFault
    PROVE  IInv'
  <1>1. RecvW("block") /\ wr.on /\ WriteFails(Head(toW).n)
    BY DEF BlockFault, CreateFault, FinalizeFault
  <1>2. Fault("write") \/ Fault("finalize")
    BY DEF BlockFault, CreateFault, FinalizeFault, FinalizeFails
  <1>3. IF upload THEN IsWrite(wr') /\ wr'.on ELSE wr' = NoWrite
    BY <1>1 DEF IInv, Shapes, IsWrite, BlockFault, CreateFault, FinalizeFault
  <1> QED  BY <1>1, <1>2, <1>3, WriteFailsKeeps

\* Done reaches the writer.
LEMMA DoneKeeps ==
    ASSUME IInv, Done
    PROVE  IInv'
  <1> DEFINE bad == ~upload /\ wr.skipped /\ NumFiles = 1
             m == Msg(IF bad THEN "error" ELSE "done", 0, EOF)
  <1>1. /\ IInv /\ Writer \in alive /\ toW # <<>> /\ Head(toW).t = "done"
        /\ UNCHANGED <<upload, audited, started, alive, rd, prompt, skips, faults>>
    BY DEF Done, RecvW, link, hist
  <1>2. Took(toW, toW')
    BY TookFacts DEF IInv, Shapes, Done, RecvW
  <1>3. m.t \in {"error", "done"}
    BY DEF Msg
  <1>4. \/ toR' = toR /\ ~wr.on
        \/ IF Reader \in alive THEN Sent(toR, toR', m) ELSE toR' = toR
    BY SentFacts DEF IInv, Shapes, Done, SendR
  <1>5. \/ UNCHANGED <<wr, pending, audit>>
        \/ wr' = NoWrite /\ ~upload /\ UNCHANGED <<pending, audit>>
        \/ wr' = NoWrite /\ upload /\ pending' = "none"
    BY DEF Done, Outcome, log
  <1> HIDE DEF m, bad
  <1>6. Shapes' /\ JobSound'
    BY <1>1, <1>2, <1>4, <1>5, NoJobs DEF IInv, Shapes, JobSound, Sent, Took
  <1>7. GoneEnds' /\ NotStarted'
    BY <1>1, <1>4, <1>5 DEF IInv, GoneEnds, NotStarted, Reader, Writer
  <1>8. StartFirst'
    BY <1>1, <1>2, <1>3, <1>4 DEF IInv, StartFirst, Sent, Took
  <1>9. OneQuestion'
    BY <1>1, <1>2, <1>3, <1>4 DEF IInv, OneQuestion, Sent, Took, Answers
  <1>10. PartnerThere'
    BY <1>1, <1>2 DEF IInv, PartnerThere, Both, Took
  <1>11. QuestionOut'
    BY <1>1, <1>2, NoJobs DEF IInv, PartnerThere, QuestionOut, JobSound, Both, Took
  <1>12. AuditOpen' /\ SkipKnown'
    BY <1>1, <1>2, <1>3, <1>4, <1>5 DEF IInv, AuditOpen, SkipKnown, Sent, Took
  <1> QED  BY <1>6, <1>7, <1>8, <1>9, <1>10, <1>11, <1>12 DEF IInv

\* Done reaches the writer, which cannot finalize its last file.
LEMMA DoneFaultKeeps ==
    ASSUME IInv, DoneFault
    PROVE  IInv'
  <1> DEFINE m == Msg("error", 0, EOF)
  <1>1. /\ IInv /\ Writer \in alive /\ toW # <<>> /\ Head(toW).t = "done"
        /\ wr' = NoWrite /\ faults' = faults \cup {"finalize"}
        /\ UNCHANGED <<upload, audited, started, alive, rd, prompt, skips>>
    BY DEF DoneFault, FinalizeFails, Fault, RecvW, link, hist
  <1>2. Took(toW, toW')
    BY TookFacts DEF IInv, Shapes, DoneFault, RecvW
  <1>3. m.t = "error"
    BY DEF Msg
  <1>4. IF Reader \in alive THEN Sent(toR, toR', m) ELSE toR' = toR
    BY SentFacts DEF IInv, Shapes, DoneFault, SendR
  <1>5. \/ ~upload /\ UNCHANGED <<pending, audit>>
        \/ upload /\ pending' = "none"
    BY DEF DoneFault, Outcome, log
  <1> HIDE DEF m
  <1>6. Shapes' /\ JobSound'
    BY <1>1, <1>2, <1>4, <1>5, NoJobs DEF IInv, Shapes, JobSound, Sent, Took
  <1>7. GoneEnds' /\ NotStarted'
    BY <1>1, <1>4, <1>5 DEF IInv, GoneEnds, NotStarted, Reader, Writer
  <1>8. StartFirst'
    BY <1>1, <1>2, <1>3, <1>4 DEF IInv, StartFirst, Sent, Took
  <1>9. OneQuestion'
    BY <1>1, <1>2, <1>3, <1>4 DEF IInv, OneQuestion, Sent, Took, Answers
  <1>10. PartnerThere'
    BY <1>1, <1>2 DEF IInv, PartnerThere, Both, Took
  <1>11. QuestionOut'
    BY <1>1, <1>2, NoJobs DEF IInv, PartnerThere, QuestionOut, JobSound, Both, Took
  <1>12. AuditOpen' /\ SkipKnown'
    BY <1>1, <1>2, <1>3, <1>4, <1>5 DEF IInv, AuditOpen, SkipKnown, Sent, Took
  <1> QED  BY <1>6, <1>7, <1>8, <1>9, <1>10, <1>11, <1>12 DEF IInv

\* An Error of the reader reaches the writer.
LEMMA FailedKeeps ==
    ASSUME IInv, Failed
    PROVE  IInv'
  <1> DEFINE m == Msg("error", 0, EOF)
  <1>1. /\ IInv /\ Writer \in alive /\ toW # <<>> /\ Head(toW).t = "error"
        /\ wr' = NoWrite
        /\ UNCHANGED <<upload, audited, started, alive, rd, prompt, skips, faults>>
    BY DEF Failed, RecvW, link, hist
  <1>2. Took(toW, toW')
    BY TookFacts DEF IInv, Shapes, Failed, RecvW
  <1>3. m.t = "error"
    BY DEF Msg
  <1>4. \/ toR' = toR
        \/ IF Reader \in alive THEN Sent(toR, toR', m) ELSE toR' = toR
    BY SentFacts DEF IInv, Shapes, Failed, SendR
  <1>5. \/ UNCHANGED <<pending, audit>>
        \/ upload /\ pending' = "none"
    BY DEF Failed, Outcome, log
  <1> HIDE DEF m
  <1>6. Shapes' /\ JobSound'
    BY <1>1, <1>2, <1>4, <1>5, NoJobs DEF IInv, Shapes, JobSound, Sent, Took
  <1>7. GoneEnds' /\ NotStarted'
    BY <1>1, <1>4, <1>5 DEF IInv, GoneEnds, NotStarted, Reader, Writer
  <1>8. StartFirst'
    BY <1>1, <1>2, <1>3, <1>4 DEF IInv, StartFirst, Sent, Took
  <1>9. OneQuestion'
    BY <1>1, <1>2, <1>3, <1>4 DEF IInv, OneQuestion, Sent, Took, Answers
  <1>10. PartnerThere'
    BY <1>1, <1>2 DEF IInv, PartnerThere, Both, Took
  <1>11. QuestionOut'
    BY <1>1, <1>2, NoJobs DEF IInv, PartnerThere, QuestionOut, JobSound, Both, Took
  <1>12. AuditOpen' /\ SkipKnown'
    BY <1>1, <1>2, <1>3, <1>4, <1>5 DEF IInv, AuditOpen, SkipKnown, Sent, Took
  <1> QED  BY <1>6, <1>7, <1>8, <1>9, <1>10, <1>11, <1>12 DEF IInv

\* The host starts its job on the first message of the session.
LEMMA HostStartKeeps ==
    ASSUME IInv, HostStart
    PROVE  IInv'
  <1>1. /\ IInv /\ pending' = (IF audited THEN "open" ELSE "none")
        /\ UNCHANGED <<upload, audited, started, alive, prompt, audit, skips, faults>>
    BY DEF HostStart, link, ui, hist
  <1>2. IF upload
        THEN /\ toW # <<>> /\ Head(toW).t = "start" /\ Writer \in alive
             /\ wr' = NewWrite(Head(toW).n, FALSE) /\ UNCHANGED <<rd, toR>>
        ELSE /\ toR # <<>> /\ Head(toR).t = "start" /\ Reader \in alive
             /\ rd' = NewRead(Head(toR).n, FALSE) /\ UNCHANGED <<wr, toW>>
    BY DEF HostStart, RecvW, RecvR
  <1>3. /\ \A n : LET r == NewRead(n, FALSE) IN IsRead(r) /\ r.on /\ ~r.open /\ ~r.hadSkip
        /\ \A n : LET w == NewWrite(n, FALSE) IN IsWrite(w) /\ w.on
    BY DEF NewRead, NewWrite, NoRead, NoWrite, IsRead, IsWrite
  <1>4. IF upload THEN Took(toW, toW') ELSE Took(toR, toR')
    BY TookFacts DEF IInv, Shapes, HostStart, RecvW, RecvR
  <1>5. ~upload => /\ rd = NoRead /\ toW = <<>> /\ toW' = <<>> /\ prompt' = {}
                   /\ ~Has(toR', Answers) /\ ~Has(toW', {"digest"})
                   /\ \A n : About(toR', Answers, n) /\ About(toW', {"digest"}, n)
    BY <1>1, <1>2, <1>4, EmptyFacts, NoneFacts DEF IInv, StartFirst, Took
  <1>6. Shapes' /\ JobSound'
    BY <1>1, <1>2, <1>3, <1>4 DEF IInv, Shapes, JobSound, Took
  <1>7. GoneEnds' /\ NotStarted'
    BY <1>1, <1>2 DEF IInv, GoneEnds, NotStarted, Reader, Writer
  <1>8. StartFirst'
    BY <1>1, <1>2, <1>4 DEF IInv, StartFirst, Took
  <1>9. OneQuestion'
    BY <1>1, <1>2, <1>4, <1>5 DEF IInv, OneQuestion, Took
  <1>10. PartnerThere'
    BY <1>1, <1>2, <1>3, <1>4, EmptyFacts
       DEF IInv, PartnerThere, GivenUp, Both, StartFirst, NotStarted, AuditOpen, Reader,
           Writer, Sent, Took
  <1>11. QuestionOut'
    <2>1. CASE upload
      BY <1>1, <1>2, <1>4, <2>1 DEF IInv, QuestionOut, Both, Took
    <2>2. CASE ~upload
      BY <1>2, <1>3, <2>2 DEF QuestionOut
    <2> QED  BY <2>1, <2>2
  <1>12. AuditOpen' /\ SkipKnown'
    BY <1>1, <1>2, <1>4 DEF IInv, AuditOpen, SkipKnown, StartFirst, Took
  <1> QED  BY <1>6, <1>7, <1>8, <1>9, <1>10, <1>11, <1>12 DEF IInv

\* The host of a download cannot start its job: there is none, and there will be none.
LEMMA HostStartFaultKeeps ==
    ASSUME IInv, HostStartFault
    PROVE  IInv'
  <1> DEFINE m == Msg("error", 0, EOF)
  <1>1. /\ IInv /\ ~upload /\ Reader \in alive /\ toR # <<>> /\ Head(toR).t = "start"
        /\ UNCHANGED <<upload, audited, started, alive, rd, wr, prompt, pending, audit, skips>>
    BY DEF HostStartFault, RecvR, link, ends, ui, log, hist
  <1>2. Took(toR, toR')
    BY TookFacts DEF IInv, Shapes, HostStartFault, RecvR
  <1>3. m.t = "error"
    BY DEF Msg
  <1>4. IF Writer \in alive THEN Sent(toW, toW', m) ELSE toW' = toW
    BY SentFacts DEF IInv, Shapes, HostStartFault, SendW
  <1>5. /\ rd = NoRead /\ toW = <<>> /\ prompt = {} /\ ~Has(toR', Answers)
        /\ skips = {} /\ started /\ ~Has(toR', {"start"})
    BY <1>1, <1>2 DEF IInv, StartFirst, Took
  <1> HIDE DEF m
  <1>6. Shapes' /\ JobSound'
    BY <1>1, <1>2, <1>4 DEF IInv, Shapes, JobSound, Sent, Took
  <1>7. GoneEnds' /\ NotStarted'
    BY <1>1, <1>4, <1>5 DEF IInv, GoneEnds, NotStarted, Reader, Writer
  <1>8. StartFirst'
    BY <1>1, <1>2, <1>5 DEF IInv, StartFirst, Took
  <1>9. OneQuestion'
    BY <1>1, <1>2, <1>3, <1>4, <1>5, NoJobs, NoneFacts, EmptyFacts
       DEF IInv, OneQuestion, Sent, Took
  <1>10. PartnerThere' /\ QuestionOut'
    BY <1>1, <1>5, NoJobs DEF PartnerThere, QuestionOut
  <1>11. AuditOpen' /\ SkipKnown'
    BY <1>1, <1>3, <1>4, <1>5, NoJobs, EmptyFacts DEF IInv, AuditOpen, SkipKnown, Sent
  <1> QED  BY <1>6, <1>7, <1>8, <1>9, <1>10, <1>11 DEF IInv

\* The host drops its job.
LEMMA HostCancelKeeps ==
    ASSUME IInv, HostCancel
    PROVE  IInv'
  <1>1. /\ IInv /\ pending' = "none"
        /\ audit' = (IF pending = "none" THEN audit ELSE "CANCELLED")
        /\ UNCHANGED <<upload, audited, started, alive, prompt, skips, faults>>
    BY DEF HostCancel, Outcome, link, ui, hist
  <1>2. IF upload
        THEN /\ toW # <<>> /\ Head(toW).t = "cancel" /\ Writer \in alive
             /\ wr' = NoWrite /\ UNCHANGED <<rd, toR>>
        ELSE /\ toR # <<>> /\ Head(toR).t = "cancel" /\ Reader \in alive
             /\ rd' = NoRead /\ UNCHANGED <<wr, toW>>
    BY DEF HostCancel, RecvW, RecvR
  <1>3. IF upload THEN Took(toW, toW') ELSE Took(toR, toR')
    BY TookFacts DEF IInv, Shapes, HostCancel, RecvW, RecvR
  <1>4. Shapes' /\ JobSound'
    BY <1>1, <1>2, <1>3, NoJobs DEF IInv, Shapes, JobSound, Took
  <1>5. GoneEnds' /\ NotStarted'
    BY <1>1, <1>2 DEF IInv, GoneEnds, NotStarted, Reader, Writer
  <1>6. StartFirst'
    BY <1>1, <1>2, <1>3 DEF IInv, StartFirst, Took
  <1>7. OneQuestion'
    BY <1>1, <1>2, <1>3, NoJobs DEF IInv, OneQuestion, Took
  <1>8. PartnerThere'
    BY <1>1, <1>2, <1>3, NoJobs DEF IInv, PartnerThere, Both, Took
  <1>9. QuestionOut'
    BY <1>1, <1>2, <1>3, NoJobs DEF IInv, QuestionOut, Both, Took
  <1>10. AuditOpen' /\ SkipKnown'
    BY <1>1, <1>2, <1>3, NoJobs DEF IInv, AuditOpen, SkipKnown, Took
  <1> QED  BY <1>4, <1>5, <1>6, <1>7, <1>8, <1>9, <1>10 DEF IInv

\* The acknowledgement of the writer.
LEMMA AcknowledgedKeeps ==
    ASSUME IInv, NEW t \in {"done", "error"}, Acknowledged(t)
    PROVE  IInv'
  <1>1. /\ IInv /\ Reader \in alive /\ toR # <<>> /\ Head(toR).t = t
        /\ UNCHANGED <<upload, audited, started, alive, wr, toW, prompt, skips, faults>>
    BY DEF Acknowledged, RecvR, link, hist
  <1>2. Took(toR, toR')
    BY TookFacts DEF IInv, Shapes, Acknowledged, RecvR
  <1>3. \/ UNCHANGED <<rd, pending, audit>> /\ (upload \/ t = "done" \/ pending = "none")
        \/ /\ ~upload /\ t = "done" /\ pending = "finished" /\ UNCHANGED rd
           /\ pending' = "none" /\ audit' = "COMPLETED"
        \/ /\ ~upload /\ t = "error" /\ pending # "none" /\ rd' = NoRead
           /\ pending' = "none" /\ audit' = "FAILED"
    BY DEF Acknowledged, Outcome, log
  <1>4. Shapes' /\ JobSound'
    BY <1>1, <1>2, <1>3, NoJobs DEF IInv, Shapes, JobSound, Took
  <1>5. GoneEnds' /\ NotStarted'
    BY <1>1, <1>3 DEF IInv, GoneEnds, NotStarted, Reader, Writer
  <1>6. StartFirst'
    BY <1>1, <1>2 DEF IInv, StartFirst, Took
  <1>7. OneQuestion'
    BY <1>1, <1>2, <1>3, NoJobs DEF IInv, OneQuestion, Took
  <1>8. PartnerThere'
    BY <1>1, <1>2, <1>3, NoJobs DEF IInv, PartnerThere, GivenUp, Both, AuditOpen, Took
  <1>9. QuestionOut'
    BY <1>1, <1>2, <1>3, NoJobs
       DEF IInv, QuestionOut, JobSound, GivenUp, Both, AuditOpen, Took, Answers
  <1>10. AuditOpen' /\ SkipKnown'
    BY <1>1, <1>2, <1>3, NoJobs DEF IInv, AuditOpen, SkipKnown, Took
  <1> QED  BY <1>4, <1>5, <1>6, <1>7, <1>8, <1>9, <1>10 DEF IInv

\* The question of an upload reaches the host, which answers or passes it back.
LEMMA UploadDigestKeeps ==
    ASSUME IInv, UploadDigest
    PROVE  IInv'
  <1>1. /\ IInv /\ upload /\ Writer \in alive /\ toW # <<>> /\ Head(toW).t = "digest"
        /\ UNCHANGED <<upload, audited, started, alive, rd, prompt, pending, audit,
                       skips, faults>>
    BY DEF UploadDigest, RecvW, link, ui, log, hist
  <1>2. Took(toW, toW')
    BY TookFacts DEF IInv, Shapes, UploadDigest, RecvW
  <1>3. /\ ~wr.on => wr' = wr
        /\ wr.on => IsWrite(wr') /\ wr'.on
    BY DEF IInv, Shapes, UploadDigest, IsWrite
  <1>4. \/ ~wr.on /\ toR' = toR
        \/ \E m : /\ m.t \in {"need", "confirm"} /\ m.n = Head(toW).n
                  /\ IF Reader \in alive THEN Sent(toR, toR', m) ELSE toR' = toR
    <2> DEFINE f == Head(toW).n
               a == Msg("need", f, <<Len(part[f]), 0>>)
               b == Msg("need", f, EOF)
               c == Answer(f, FALSE, 0)
    <2>1. /\ a.t = "need" /\ b.t = "need" /\ c.t = "confirm"
          /\ a.n = f /\ b.n = f /\ c.n = f
      BY DEF Msg, Answer
    <2>2. Sent(toR, toR \o <<a>>, a) /\ Sent(toR, toR \o <<b>>, b) /\ Sent(toR, toR \o <<c>>, c)
      BY SentFacts DEF IInv, Shapes
    <2>3. \/ ~wr.on /\ toR' = toR
          \/ toR' = IF Reader \in alive THEN toR \o <<a>> ELSE toR
          \/ toR' = IF Reader \in alive THEN toR \o <<b>> ELSE toR
          \/ toR' = IF Reader \in alive THEN toR \o <<c>> ELSE toR
      BY DEF UploadDigest, SendR
    <2> HIDE DEF a, b, c
    <2> QED  BY <2>1, <2>2, <2>3
  <1>5. Shapes' /\ JobSound'
    BY <1>1, <1>2, <1>3, <1>4 DEF IInv, Shapes, JobSound, Sent, Took
  <1>6. GoneEnds' /\ NotStarted'
    BY <1>1, <1>4 DEF IInv, GoneEnds, NotStarted, Reader, Writer
  <1>7. StartFirst'
    BY <1>1, <1>2, <1>4 DEF IInv, StartFirst, Sent, Took
  <1>8. OneQuestion'
    BY <1>1, <1>2, <1>4 DEF IInv, OneQuestion, Sent, Took
  <1>9. PartnerThere'
    BY <1>1, <1>2, <1>3 DEF IInv, PartnerThere, Both, Took
  <1>10. QuestionOut'
    BY <1>1, <1>4, NoJobs
       DEF IInv, PartnerThere, QuestionOut, JobSound, Both, StartFirst, GoneEnds, Sent,
           Answers
  <1>11. AuditOpen' /\ SkipKnown'
    BY <1>1 DEF AuditOpen, SkipKnown
  <1> QED  BY <1>5, <1>6, <1>7, <1>8, <1>9, <1>10, <1>11 DEF IInv

\* The question of a download reaches the client, which answers or asks its user.
LEMMA DownloadDigestKeeps ==
    ASSUME IInv, DownloadDigest
    PROVE  IInv'
  <1> DEFINE f == Head(toW).n
  <1>1. /\ IInv /\ ~upload /\ Writer \in alive /\ toW # <<>> /\ Head(toW).t = "digest"
        /\ UNCHANGED <<upload, audited, started, alive, rd, pending, audit>> /\ SameFaults
    BY PositionedFaults DEF DownloadDigest, RecvW, link, log, SameFaults
  <1>2. Took(toW, toW')
    BY TookFacts DEF IInv, Shapes, DownloadDigest, RecvW
  <1>3. /\ rd.on => f = rd.num /\ rd.open /\ ~rd.confirmed
        /\ prompt = {} /\ ~Has(toR, Answers) /\ ~Has(toW', {"digest"})
        /\ \A n : About(toR, Answers, n)
    BY <1>1, <1>2, NoneFacts DEF IInv, OneQuestion, Took
  <1>4. /\ ~wr.on => wr' = wr
        /\ wr.on => IsWrite(wr') /\ wr'.on
    <2> DEFINE w == [wr EXCEPT !.ver = Head(toW).p[1]]
    <2>1. IsWrite(w) /\ w.on = wr.on
      BY DEF IInv, Shapes, IsWrite
    <2>2. \/ ~wr.on /\ wr' = wr
          \/ wr.on /\ wr' = w
          \/ wr.on /\ \E skip, o : wr' = WriteConfirm(w, f, skip, o)
      BY DEF DownloadDigest
    <2> HIDE DEF w
    <2> QED  BY <2>1, <2>2, WriteConfirmFacts DEF IInv, JobSound
  <1>5. \/ ~wr.on /\ UNCHANGED <<toR, prompt, skips>>
        \/ wr.on /\ prompt' = {f} /\ UNCHANGED <<toR, skips>>
        \/ /\ wr.on /\ UNCHANGED prompt
           /\ \E m : /\ m.t \in {"skip", "confirm"} /\ m.n = f
                     /\ m.t = "confirm" => skips' = skips
                     /\ IF Reader \in alive THEN Sent(toR, toR', m) ELSE toR' = toR
    <2>1. \/ ~wr.on /\ UNCHANGED <<toR, prompt, skips>>
          \/ wr.on /\ prompt' = prompt \cup {f} /\ UNCHANGED <<toR, skips>>
          \/ \E skip, o : /\ wr.on /\ UNCHANGED prompt
                          /\ toR' = (IF Reader \in alive
                                     THEN toR \o <<Answer(f, skip, o)>> ELSE toR)
                          /\ skips' = (IF skip THEN skips \cup {f} ELSE skips)
      BY DEF DownloadDigest, SendR, NoteSkip, hist
    <2>2. ASSUME NEW skip, NEW o
          PROVE  LET m == Answer(f, skip, o)
                 IN /\ m.n = f /\ m.t = (IF skip THEN "skip" ELSE "confirm")
                    /\ Sent(toR, toR \o <<m>>, m)
      <3>1. Answer(f, skip, o).n = f /\ Answer(f, skip, o).t = (IF skip THEN "skip" ELSE "confirm")
        BY DEF Answer, Msg
      <3> QED  BY <3>1, SentFacts DEF IInv, Shapes
    <2> HIDE DEF f
    <2>3. CASE \E skip, o : /\ wr.on /\ UNCHANGED prompt
                          /\ toR' = (IF Reader \in alive
                                     THEN toR \o <<Answer(f, skip, o)>> ELSE toR)
                          /\ skips' = (IF skip THEN skips \cup {f} ELSE skips)
      BY <2>2, <2>3
    <2> QED  BY <1>3, <2>1, <2>3
  <1> HIDE DEF f
  <1>6. Shapes' /\ JobSound'
    BY <1>1, <1>2, <1>4, <1>5 DEF IInv, Shapes, JobSound, Sent, Took
  <1>7. GoneEnds' /\ NotStarted'
    BY <1>1, <1>5 DEF IInv, GoneEnds, NotStarted, Reader, Writer
  <1>8. StartFirst'
    BY <1>1, <1>5 DEF IInv, StartFirst, Sent
  <1>9. OneQuestion'
    BY <1>1, <1>3, <1>5, NoneFacts DEF OneQuestion, Sent
  <1>10. PartnerThere'
    BY <1>1, <1>2, <1>4, <1>5 DEF IInv, PartnerThere, GivenUp, Both, Took, SameFaults
  <1>11. QuestionOut'
    BY <1>1, <1>4, <1>5, NoJobs
       DEF IInv, PartnerThere, QuestionOut, JobSound, GivenUp, Both, GoneEnds, AuditOpen,
           Sent, Took, Answers, SameFaults
  <1>12. AuditOpen' /\ SkipKnown'
    BY <1>1, <1>2, <1>5, NoJobs DEF IInv, AuditOpen, SkipKnown, GoneEnds, Sent, Took
  <1> QED  BY <1>6, <1>7, <1>8, <1>9, <1>10, <1>11, <1>12 DEF IInv

\* The file a question is about cannot be looked at: the reader gets no answer.
LEMMA DigestFaultKeeps ==
    ASSUME IInv, DigestFault
    PROVE  IInv'
  <1> DEFINE m == Msg("error", Head(toW).n, EOF)
  <1>1. /\ IInv /\ Writer \in alive /\ toW # <<>> /\ Head(toW).t = "digest"
        /\ faults' = faults \cup {"stat"}
        /\ UNCHANGED <<upload, audited, started, alive, rd, prompt, skips>>
    BY DEF DigestFault, RecvW, Fault, link, ui, hist
  <1>2. Took(toW, toW')
    BY TookFacts DEF IInv, Shapes, DigestFault, RecvW
  <1>3. m.t = "error"
    BY DEF Msg
  <1>4. wr.on /\ wr'.on /\ IsWrite(wr')
    BY DEF IInv, Shapes, DigestFault, IsWrite
  <1>5. IF upload
        THEN /\ IF Reader \in alive THEN Sent(toR, toR', m) ELSE toR' = toR
             /\ pending' = "none"
        ELSE UNCHANGED <<toR, pending, audit>>
    BY SentFacts DEF IInv, Shapes, DigestFault, Outcome, SendR, log
  <1> HIDE DEF m
  <1>6. Shapes' /\ JobSound'
    BY <1>1, <1>2, <1>4, <1>5 DEF IInv, Shapes, JobSound, Sent, Took
  <1>7. GoneEnds' /\ NotStarted'
    BY <1>1, <1>5 DEF IInv, GoneEnds, NotStarted, Reader, Writer
  <1>8. StartFirst'
    BY <1>1, <1>2, <1>3, <1>4, <1>5 DEF IInv, StartFirst, Sent, Took
  <1>9. OneQuestion'
    BY <1>1, <1>2, <1>3, <1>5 DEF IInv, OneQuestion, Sent, Took, Answers
  <1>10. PartnerThere'
    BY <1>1, <1>2, <1>4, <1>5 DEF IInv, PartnerThere, GivenUp, Both, Took
  <1>11. QuestionOut'
    BY <1>1 DEF QuestionOut
  <1>12. AuditOpen' /\ SkipKnown'
    BY <1>1, <1>2, <1>5 DEF IInv, AuditOpen, SkipKnown, Took
  <1> QED  BY <1>6, <1>7, <1>8, <1>9, <1>10, <1>11, <1>12 DEF IInv

\* A question the host passed back: the client answers it or asks its user.
LEMMA UploadNeedKeeps ==
    ASSUME IInv, UploadNeed
    PROVE  IInv'
  <1> DEFINE f == Head(toR).n
  <1>1. /\ IInv /\ Reader \in alive /\ toR # <<>> /\ Head(toR).t = "need"
        /\ UNCHANGED <<upload, audited, started, alive, wr, pending, audit>> /\ SameFaults
    BY PositionedFaults DEF UploadNeed, RecvR, link, log, SameFaults
  <1>2. Took(toR, toR')
    BY TookFacts DEF IInv, Shapes, UploadNeed, RecvR
  <1>3. /\ upload
        /\ rd.on => f = rd.num /\ rd.open /\ ~rd.confirmed
        /\ prompt = {} /\ ~Has(toR', Answers) /\ ~Has(toW, {"digest"})
    BY <1>1, <1>2 DEF IInv, OneQuestion, StartFirst, Took, Answers
  <1>4. \/ ~rd.on /\ UNCHANGED <<rd, toW, prompt, skips>>
        \/ rd.on /\ prompt' = {f} /\ UNCHANGED <<rd, toW, skips>>
        \/ /\ rd.on /\ UNCHANGED prompt
           /\ \E skip, k : rd' = ReadConfirm(rd, f, skip, k)
           /\ \E m : /\ m.t \in {"skip", "confirm"}
                     /\ IF Writer \in alive THEN Sent(toW, toW', m) ELSE toW' = toW
    <2>1. \/ ~rd.on /\ UNCHANGED <<rd, toW, prompt, skips>>
          \/ rd.on /\ prompt' = prompt \cup {f} /\ UNCHANGED <<rd, toW, skips>>
          \/ \E skip, o : /\ rd.on /\ UNCHANGED prompt
                          /\ \E k : rd' = ReadConfirm(rd, f, skip, k)
                          /\ toW' = (IF Writer \in alive
                                     THEN toW \o <<Answer(f, skip, o)>> ELSE toW)
      BY DEF UploadNeed, SendW, hist
    <2>2. ASSUME NEW skip, NEW o
          PROVE  LET m == Answer(f, skip, o)
                 IN m.t \in {"skip", "confirm"} /\ Sent(toW, toW \o <<m>>, m)
      <3>1. Answer(f, skip, o).t \in {"skip", "confirm"}
        BY DEF Answer, Msg
      <3> QED  BY <3>1, SentFacts DEF IInv, Shapes
    <2> HIDE DEF f
    <2>3. CASE \E skip, o : /\ rd.on /\ UNCHANGED prompt
                          /\ \E k : rd' = ReadConfirm(rd, f, skip, k)
                          /\ toW' = (IF Writer \in alive
                                     THEN toW \o <<Answer(f, skip, o)>> ELSE toW)
      BY <2>2, <2>3
    <2> QED  BY <1>3, <2>1, <2>3
  <1>5. /\ ~rd.on => rd' = rd
        /\ rd.on => /\ IsRead(rd') /\ rd'.on
                    /\ rd'.open => rd'.num = rd.num
                    /\ rd' = rd \/ (rd'.open => rd'.confirmed)
    BY <1>3, <1>4, ReadConfirmFacts DEF IInv, Shapes
  <1>6. \/ ~rd.on /\ UNCHANGED <<rd, toW, prompt>>
        \/ rd.on /\ prompt' = {f} /\ UNCHANGED <<rd, toW>>
        \/ /\ rd.on /\ prompt' = {} /\ (rd'.open => rd'.confirmed)
           /\ \E m : /\ m.t \in {"skip", "confirm"}
                     /\ IF Writer \in alive THEN Sent(toW, toW', m) ELSE toW' = toW
    BY <1>3, <1>4, ReadConfirmFacts DEF IInv, Shapes
  <1> HIDE DEF f
  <1>7. Shapes' /\ JobSound'
    BY <1>1, <1>2, <1>3, <1>4, <1>5 DEF IInv, Shapes, JobSound, Sent, Took
  <1>8. GoneEnds' /\ NotStarted'
    BY <1>1, <1>3, <1>4 DEF IInv, GoneEnds, NotStarted, Reader, Writer
  <1>9. StartFirst'
    BY <1>1, <1>3, <1>4, EmptyFacts, SkipIsAnswer DEF IInv, StartFirst, Sent
  <1>10. OneQuestion'
    BY <1>3, <1>4, NoneFacts DEF OneQuestion, Sent
  <1>11. PartnerThere'
    BY <1>1, <1>3, <1>4 DEF IInv, PartnerThere, Both, Sent, SameFaults
  <1>12. QuestionOut'
    BY <1>6, NoJobs DEF IInv, QuestionOut, JobSound
  <1>13. AuditOpen' /\ SkipKnown'
    BY <1>1, <1>3 DEF AuditOpen, SkipKnown
  <1> QED  BY <1>7, <1>8, <1>9, <1>10, <1>11, <1>12, <1>13 DEF IInv

\* The answer of the user.
LEMMA UserAnswerKeeps ==
    ASSUME IInv, NEW n \in prompt, NEW skip \in BOOLEAN, NEW remember \in BOOLEAN,
           SetConfirmOverrideFile(n, skip, remember)
    PROVE  IInv'
  <1>1. /\ IInv /\ "client" \in alive /\ prompt' = prompt \ {n}
        /\ UNCHANGED <<upload, audited, started, alive, toW, pending, audit, faults>>
    BY DEF SetConfirmOverrideFile, link, log
  <1>2. /\ prompt' = {} /\ started /\ ~Has(toR, Answers) /\ ~Has(toW, {"digest"})
        /\ rd.on => n = rd.num /\ rd.open /\ ~rd.confirmed
        /\ \A k : About(toR, Answers, k)
    BY <1>1, NoneFacts DEF IInv, OneQuestion, NotStarted
  <1>3. CASE upload
    <2>1. UNCHANGED <<wr, toR>>
      BY <1>3 DEF SetConfirmOverrideFile
    <2>2. /\ ~rd.on => rd' = rd
          /\ rd.on => /\ IsRead(rd') /\ rd'.on
                      /\ rd'.open => rd'.num = rd.num /\ rd'.confirmed
      <3> DEFINE a == IF skip THEN "skip" ELSE "overwrite"
                 r == IF remember THEN [rd EXCEPT !.always = a] ELSE rd
      <3>1. IsRead(r) /\ r.on = rd.on /\ r.num = rd.num /\ r.open = rd.open
        BY DEF IInv, Shapes, IsRead
      <3>2. rd' = IF rd.on THEN ReadConfirm(r, n, skip, 0) ELSE rd
        BY <1>3 DEF SetConfirmOverrideFile
      <3> HIDE DEF r
      <3> QED  BY <1>2, <3>1, <3>2, ReadConfirmFacts
    <2>3. Shapes' /\ JobSound'
      BY <1>1, <1>2, <2>1, <2>2 DEF IInv, Shapes, JobSound
    <2>4. GoneEnds' /\ NotStarted'
      BY <1>1, <1>3, <2>1 DEF IInv, GoneEnds, NotStarted, Reader, Writer
    <2>5. StartFirst'
      BY <1>1, <2>1 DEF IInv, StartFirst
    <2>6. OneQuestion'
      BY <1>1, <1>2, <2>1, NoneFacts DEF OneQuestion
    <2>7. PartnerThere'
      BY <1>1, <1>3, <2>1, <2>2 DEF IInv, PartnerThere, Both
    <2>8. QuestionOut'
      BY <2>2, NoJobs DEF IInv, QuestionOut, JobSound
    <2>9. AuditOpen' /\ SkipKnown'
      BY <1>1, <1>3 DEF AuditOpen, SkipKnown
    <2> QED  BY <2>3, <2>4, <2>5, <2>6, <2>7, <2>8, <2>9 DEF IInv
  <1>4. CASE ~upload
    <2>1. UNCHANGED rd
      BY <1>4 DEF SetConfirmOverrideFile
    <2>2. /\ ~wr.on => wr' = wr
          /\ wr.on => IsWrite(wr') /\ wr'.on
      <3> DEFINE a == IF skip THEN "skip" ELSE "overwrite"
                 w == IF remember THEN [wr EXCEPT !.always = a] ELSE wr
      <3>1. IsWrite(w) /\ w.on = wr.on
        BY DEF IInv, Shapes, IsWrite
      <3>2. wr' = IF wr.on THEN WriteConfirm(w, n, skip, 0) ELSE wr
        BY <1>4 DEF SetConfirmOverrideFile
      <3> HIDE DEF w
      <3> QED  BY <3>1, <3>2, WriteConfirmFacts
    <2>3. \/ ~wr.on /\ UNCHANGED <<toR, skips>>
          \/ /\ wr.on
             /\ \E m : /\ m.t \in {"skip", "confirm"} /\ m.n = n
                       /\ m.t = "confirm" => skips' = skips
                       /\ IF Reader \in alive THEN Sent(toR, toR', m) ELSE toR' = toR
      <3> DEFINE m == Answer(n, skip, 0)
      <3>1. m.n = n /\ m.t = (IF skip THEN "skip" ELSE "confirm")
        BY DEF Answer, Msg
      <3>2. Sent(toR, toR \o <<m>>, m)
        BY SentFacts DEF IInv, Shapes
      <3>3. IF wr.on THEN /\ toR' = (IF Reader \in alive THEN toR \o <<m>> ELSE toR)
                          /\ skips' = (IF skip THEN skips \cup {n} ELSE skips)
                     ELSE UNCHANGED <<toR, skips>>
        BY <1>4 DEF SetConfirmOverrideFile, SendR, NoteSkip, JobNumber
      <3> HIDE DEF m
      <3> QED  BY <3>1, <3>2, <3>3
    <2>4. Shapes' /\ JobSound'
      BY <1>1, <2>1, <2>2, <2>3 DEF IInv, Shapes, JobSound, Sent
    <2>5. GoneEnds' /\ NotStarted'
      BY <1>1, <1>4, <2>1, <2>3 DEF IInv, GoneEnds, NotStarted, Reader, Writer
    <2>6. StartFirst'
      BY <1>1, <1>4, <2>3 DEF IInv, StartFirst, Sent
    <2>7. OneQuestion'
      BY <1>1, <1>2, <2>1, <2>3, NoneFacts DEF OneQuestion, Sent
    <2>8. PartnerThere'
      BY <1>1, <2>1, <2>2, <2>3 DEF IInv, PartnerThere, GivenUp, Both
    <2>9. QuestionOut'
      BY <1>1, <1>4, <2>1, <2>3, NoJobs
         DEF IInv, PartnerThere, QuestionOut, JobSound, GivenUp, Both, GoneEnds, Sent,
             Answers
    <2>10. AuditOpen' /\ SkipKnown'
      BY <1>1, <2>1, <2>3, NoJobs DEF IInv, AuditOpen, SkipKnown, GoneEnds, Sent
    <2> QED  BY <2>4, <2>5, <2>6, <2>7, <2>8, <2>9, <2>10 DEF IInv
  <1> QED  BY <1>3, <1>4

----------------------------------------------------------------------------
(* The inductive invariant, and what follows from it.                      *)

\* At first nothing is started.
LEMMA InitHolds == Init => IInv
  <1> SUFFICES ASSUME Init  PROVE  IInv
    OBVIOUS
  <1>1. /\ upload \in BOOLEAN /\ audited \in BOOLEAN /\ started = FALSE
        /\ alive = {"client", "host"} /\ rd = NoRead /\ wr = NoWrite
        /\ toR = <<>> /\ toW = <<>> /\ prompt = {} /\ pending = "none"
        /\ audit = "none" /\ skips = {}
    BY DEF Init
  <1>2. Shapes /\ JobSound
    BY <1>1, NoJobs, EmptyFacts DEF Shapes, JobSound
  <1>3. GoneEnds /\ NotStarted /\ StartFirst
    BY <1>1, EmptyFacts DEF GoneEnds, NotStarted, StartFirst, Reader, Writer
  <1>4. OneQuestion /\ PartnerThere /\ QuestionOut
    BY <1>1, NoJobs, EmptyFacts DEF OneQuestion, PartnerThere, QuestionOut
  <1>5. AuditOpen /\ SkipKnown
    BY <1>1, NoJobs DEF AuditOpen, SkipKnown
  <1> QED  BY <1>2, <1>3, <1>4, <1>5 DEF IInv

\* Every step keeps the invariant.
LEMMA NextKeeps == IInv /\ [Next]_vars => IInv'
  <1> SUFFICES ASSUME IInv, [Next]_vars  PROVE  IInv'
    OBVIOUS
  <1>1. CASE ReaderStep
    BY <1>1, ReadOpenKeeps, ReadOpenFaultKeeps, ReadBlockKeeps, ReadFaultKeeps, ReadFinishKeeps
       DEF ReaderStep
  <1>2. CASE WriterStep
    BY <1>2, DownloadDigestKeeps, UploadDigestKeeps, ConfirmWriterKeeps, BlockKeeps,
       BlockFaultKeeps, DoneKeeps, DoneFaultKeeps, DigestFaultKeeps, FailedKeeps
       DEF WriterStep
  <1>3. CASE ReplyStep
    BY <1>3, UploadNeedKeeps, ConfirmReaderKeeps, AcknowledgedKeeps DEF ReplyStep
  <1>4. CASE HostStep
    BY <1>4, HostStartKeeps, HostStartFaultKeeps, HostCancelKeeps DEF HostStep
  <1>5. CASE UserAnswer
    BY <1>5, UserAnswerKeeps DEF UserAnswer
  <1>6. CASE UserStep
    <2>1. CASE SendFiles
      <3>1. Begin(0, FALSE) /\ UNCHANGED <<upload, audited, alive, prompt, pending, audit, faults>>
        BY <2>1 DEF SendFiles, link, log
      <3> QED  BY <3>1, BeginKeeps
    <2>2. ASSUME NEW n \in paused, ResumeJob(n)  PROVE  IInv'
      <3>1. Begin(n, TRUE) /\ UNCHANGED <<upload, audited, alive, prompt, pending, audit, faults>>
        BY <2>2 DEF ResumeJob, link, log
      <3> QED  BY <3>1, BeginKeeps
    <2>3. CASE SendFilesFault
      <3>1. /\ UNCHANGED <<upload, audited, alive, rd, wr, toR, toW, prompt, pending, audit, skips>>
            /\ started' = TRUE /\ SameFaults
        BY <2>3 DEF SendFilesFault, Fault, SameFaults, link, ends, net, log, hist
      <3> QED  BY <3>1, QuietKeeps
    <2> QED  BY <1>6, <2>1, <2>2, <2>3, CancelKeeps DEF UserStep
  <1>7. CASE LinkStep
    BY <1>7, ClientEndsKeeps, HostCloseKeeps, ConnectKeeps
       DEF LinkStep, ClientClose, ClientCrash, Connect, ConnectFault
  <1>8. ASSUME NEW f \in Files, Edit(f)  PROVE  IInv'
    <2>1. /\ UNCHANGED <<upload, audited, started, alive, rd, wr, toR, toW, prompt, pending,
                         audit, skips>>
          /\ SameFaults
      BY <1>8 DEF Edit, SameFaults, link, ends, net, ui, log, hist
    <2> QED  BY <2>1, QuietKeeps
  <1>9. CASE UNCHANGED vars
    <2>1. /\ UNCHANGED <<upload, audited, started, alive, rd, wr, toR, toW, prompt, pending,
                         audit, skips>>
          /\ SameFaults
      BY <1>9 DEF vars, SameFaults, link, ends, net, ui, log, hist
    <2> QED  BY <2>1, QuietKeeps
  <1> QED  BY <1>1, <1>2, <1>3, <1>4, <1>5, <1>6, <1>7, <1>8, <1>9 DEF Next

\* The invariant holds in every behaviour.
LEMMA IInvHolds == Spec => []IInv
  BY InitHolds, NextKeeps, PTL DEF Spec

\* A reader that waits for the answer about a file (its file is open and not
\* confirmed, in handle_read_jobs) gets one, whatever the sizes of the job and
\* however sessions, cancels, faults and remembered answers interleave: the digest,
\* the answer or the user's prompt is out, but for the two exceptions the property
\* names.
THEOREM ConfirmationComingHolds == Spec => []ConfirmationComing
  <1>1. IInv => ConfirmationComing
    <2> SUFFICES ASSUME IInv, Both, rd.open, ~rd.confirmed, toW = <<>>, toR = <<>>,
                        prompt = {}, "read" \notin faults, "stat" \notin faults
                 PROVE  ("write" \in faults \/ "finalize" \in faults) /\ ~upload /\ ~audited
      BY DEF ConfirmationComing, Both
    <2> QED  BY EmptyFacts DEF IInv, QuestionOut, GivenUp
  <1> QED  BY <1>1, IInvHolds, PTL

\* A download whose user skipped a file is not reported COMPLETED by the host
\* (audit_error of the read job): the skip travels on the channel that also
\* carries the writer's Done, and reaches the reader before it can finish.
THEOREM SkippedNotCompletedHolds == Spec => []SkippedNotCompleted
  <1>1. IInv => SkippedNotCompleted
    BY DEF IInv, SkipKnown, SkippedNotCompleted
  <1> QED  BY <1>1, IInvHolds, PTL

----------------------------------------------------------------------------
(* The writer and what it can take.                                        *)

\* Files of which more can be wrong than that they are missing.
Spoiled == ignored \cup holed
Ok(f) == f \notin Spoiled
Kept(f) == Stored(f) \/ f \in omitted \cup passed \cup ignored \cup holed
KeptBefore(n) == \A f \in Files : f < n => Kept(f)

\* The host of an upload has noted an outcome, or notes none.
Settled == upload /\ pending = "none"

\* Files before n are kept, or the writer has one to finalize; a host that failed to
\* finalize one has noted that.
Behind(n) == Settled \/ \A f \in Files : f < n => Kept(f) \/ (wr.open /\ wr.num = f)

\* The file of the writer is all there.
Full == Ok(wr.num) => wr.pos = NumBlocks

\* The writer is between files and comes to file n.
AtRest(n) == (wr.open => Full /\ wr.num < n) /\ Behind(n)

\* The writer can take block k of file n.
Ready(n, k) ==
    /\ wr.ver = src[n] /\ Behind(n)
    /\ IF wr.open /\ wr.num = n THEN Ok(n) => wr.pos = k - 1
                                ELSE (Ok(n) => k = 1) /\ (wr.open => Full /\ wr.num < n)

\* The writer can take file n from offset o, once it is told.
Offers(n, o) ==
    /\ wr.ver = src[n] /\ AtRest(n)
    /\ o > 0 => o = Len(part[n]) /\ digest[n] = src[n] /\ Exists(n, part)

----------------------------------------------------------------------------
(* Messages.                                                               *)

Elems(s) == {s[i] : i \in 1 .. Len(s)}
First(s) == s[1]
Final(s) == s[Len(s)]

\* The place of a block in its file; the empty block comes after the last.
Index(m) == IF m.p = EOF THEN NumBlocks + 1 ELSE m.p[2]

\* A message to the writer: what it says of the source is true, because the
\* source does not change during a session; a job starts behind files that are kept.
ToWriter(m) ==
    /\ m.t = "start" => m.n \in 0 .. NumFiles /\ KeptBefore(m.n)
    /\ m.t = "done" => m.n = NumFiles
    /\ m.t \in {"digest", "confirm", "skip", "block"} => m.n \in Files
    /\ m.t = "digest" => m.p[1] = src[m.n]
    /\ m.t = "confirm" => m.p[1] \in Nat
    /\ m.t = "block" => \/ m.p = EOF
                        \/ m.p[2] \in 1 .. NumBlocks /\ m.p = <<src[m.n], m.p[2]>>

\* A message to the reader: the writer is ready for what the reader will do then;
\* the acknowledgement of a download says that all files are kept.
ToReader(m) ==
    /\ m.t = "start" => m.n \in 0 .. NumFiles
    /\ (~upload /\ m.t = "start") => ~wr.open /\ KeptBefore(m.n)
    /\ (~upload /\ m.t = "done") => KeptBefore(NumFiles)
    /\ m.t \in Answers => /\ m.n \in Files /\ m.p[1] \in Nat
                          /\ Ok(m.n) => m.p[1] <= NumBlocks
    /\ (rd.on /\ wr.on) => /\ m.t = "confirm" => Ready(m.n, m.p[1] + 1)
                           /\ m.t = "need" => Offers(m.n, m.p[1])
                           /\ m.t = "skip" => AtRest(m.n + 1)

Messages == /\ \A m \in Elems(toW) : ToWriter(m)
            /\ \A m \in Elems(toR) : ToReader(m)

\* Behind message a comes block k of file n, or any block of one in I.
Sends(a, n, k, I) ==
    /\ a.n = n
    /\ \/ a.t = "confirm" /\ (n \in I \/ k = a.p[1] + 1)
       \/ a.t = "block" /\ a.p # EOF /\ (n \in I \/ k = a.p[2] + 1)

\* With message a the reader has come to file n, or has given up.
Ends(a, n) ==
    \/ a.t = "error"
    \/ a.t = "start" /\ n = a.n
    \/ a.t = "skip" /\ n = a.n + 1
    \/ a.t = "block" /\ a.p = EOF /\ n = a.n + 1

\* Message b may come right behind a: blocks are in order and end with the empty
\* block, a digest or Done comes between files, and behind a digest the reader
\* waits.
Follows(a, b, I) ==
    /\ b.t \notin {"start", "confirm", "skip"}
    /\ b.t = "block" => Sends(a, b.n, Index(b), I)
    /\ b.t \in {"digest", "done"} => Ends(a, b.n)
    /\ a.t # "cancel" /\ (a.t = "digest" => b.t = "cancel")

Chain(s, I) == \A i \in 1 .. Len(s) - 1 : Follows(s[i], s[i + 1], I)
InOrder == Chain(toW, Spoiled)

----------------------------------------------------------------------------
(* The inductive invariant.  The writer is ready for what comes first,     *)

CanTake(m) ==
    /\ m.t = "block" => Ready(m.n, Index(m))
    /\ m.t = "confirm" => Offers(m.n, m.p[1])
    /\ m.t \in {"digest", "done"} => AtRest(m.n)
    /\ m.t = "skip" => AtRest(m.n) /\ m.n \in omitted
HeadReady == (toW # <<>> /\ wr.on) => CanTake(First(toW))

\* for what will come last,
TailReady ==
    (rd.on /\ toW # <<>>) =>
        LET a == Final(toW) IN
        /\ ~rd.open => Ends(a, rd.num)
        /\ (rd.open /\ rd.confirmed) => Sends(a, rd.num, rd.pos + 1, Spoiled)
        /\ (rd.open /\ ~rd.confirmed) => a.t = "digest"

\* for what the reader does next when nothing is on its way,
ReaderReady ==
    (rd.on /\ toW = <<>> /\ wr.on) =>
        /\ ~rd.open => AtRest(rd.num)
        /\ (rd.open /\ rd.confirmed) => Ready(rd.num, rd.pos + 1)

\* and for what the user says; while the user is asked the reader sends nothing.
Prompts ==
    /\ (rd.on /\ wr.on) => \A n \in prompt : Offers(n, 0)
    /\ (prompt # {} /\ toW # <<>>) => First(toW).t = "cancel"

\* A job to be resumed starts behind files that are kept.
SavedKept == \A n \in saved \cup paused : KeptBefore(n)

Content == Seq(Nat \X Nat)
FileTypes ==
    /\ dst \in [Files -> Content] /\ part \in [Files -> Content]
    /\ \A f \in Files : Ok(f) => Len(part[f]) <= NumBlocks

\* The open file of the writer ends where the writer is, and holds the blocks of
\* the version its digest names.
PartSound ==
    wr.open =>
        /\ wr.num \in Files /\ wr.pos = Len(part[wr.num])
        /\ Ok(wr.num) => /\ digest[wr.num] = src[wr.num]
                         /\ \A i \in 1 .. Len(part[wr.num]) : part[wr.num][i] = <<src[wr.num], i>>

ReadSound ==
    rd.open => /\ rd.ver = src[rd.num] /\ (~rd.confirmed => rd.pos = 0)
               /\ Ok(rd.num) => rd.pos <= NumBlocks

DInv ==
    /\ TypeOK /\ FileTypes /\ PartSound /\ StoredIntact /\ ReadSound /\ SavedKept
    /\ Messages /\ InOrder /\ HeadReady /\ TailReady /\ ReaderReady /\ Prompts

----------------------------------------------------------------------------
(* The channels.                                                           *)

\* What sending m on s does: s2 is the channel afterwards.
Pushed(s, s2, m) ==
    /\ s2 # <<>> /\ Elems(s2) = Elems(s) \cup {m}
    /\ First(s2) = (IF s = <<>> THEN m ELSE First(s)) /\ Final(s2) = m
    /\ \A I : (Chain(s, I) /\ (s # <<>> => Follows(Final(s), m, I))) => Chain(s2, I)

\* What taking the first message of s does.
Popped(s, s2) ==
    /\ First(s) \in Elems(s) /\ Elems(s2) \subseteq Elems(s) /\ Head(s) = First(s)
    /\ s2 = <<>> => Final(s) = First(s)
    /\ s2 # <<>> => Final(s2) = Final(s)
    /\ \A I : Chain(s, I) => Chain(s2, I) /\ (s2 # <<>> => Follows(First(s), First(s2), I))

\* An empty channel holds nothing.
LEMMA NothingSent == Elems(<<>>) = {} /\ \A I : Chain(<<>>, I)
  BY DEF Elems, Chain

\* The more files are spoiled, the less is asked of the order.
LEMMA ChainGrows ==
    ASSUME NEW s, NEW I, NEW J, I \subseteq J, Chain(s, I)
    PROVE  Chain(s, J)
  <1> SUFFICES ASSUME NEW i \in 1 .. Len(s) - 1  PROVE  Follows(s[i], s[i + 1], J)
    BY DEF Chain
  <1>1. Follows(s[i], s[i + 1], I)
    BY DEF Chain
  <1>2. \A a, n, k : Sends(a, n, k, I) => Sends(a, n, k, J)
    BY DEF Sends
  <1> QED  BY <1>1, <1>2 DEF Follows

\* Messages by type are messages.
LEMMA HasElems == \A s, T : Has(s, T) <=> \E m \in Elems(s) : m.t \in T
  BY DEF Has, Elems

\* The last message is one of the channel.
LEMMA FinalIn ==
    ASSUME NEW s, IsChannel(s), s # <<>>
    PROVE  Final(s) \in Elems(s)
  <1> PICK M : s \in Seq(M)
    BY DEF IsChannel
  <1>1. Len(s) \in 1 .. Len(s)
    OBVIOUS
  <1> QED  BY <1>1 DEF Final, Elems

\* Sending appends one message.
LEMMA PushedFacts ==
    ASSUME NEW s, IsChannel(s), NEW m
    PROVE  Pushed(s, s \o <<m>>, m)
  <1> PICK M : s \in Seq(M)
    BY DEF IsChannel
  <1> DEFINE N == M \cup {m}
  <1>1. s \in Seq(N) /\ <<m>> \in Seq(N)
    OBVIOUS
  <1> DEFINE s2 == s \o <<m>>
  <1>2. s2 \in Seq(N) /\ Len(s2) = Len(s) + 1 /\ s2[Len(s) + 1] = m
        /\ \A i \in 1 .. Len(s) : s2[i] = s[i]
    BY <1>1
  <1>3. Len(s) \in Nat /\ (s = <<>> <=> Len(s) = 0)
    OBVIOUS
  <1> HIDE DEF s2, N
  <1>4. Elems(s2) = Elems(s) \cup {m}
    <2>1. ASSUME NEW x \in Elems(s2)  PROVE  x \in Elems(s) \cup {m}
      BY <1>2, <1>3 DEF Elems
    <2>2. ASSUME NEW x \in Elems(s)  PROVE  x \in Elems(s2)
      BY <1>2, <1>3 DEF Elems
    <2>3. m \in Elems(s2)
      BY <1>2, <1>3 DEF Elems
    <2> QED  BY <2>1, <2>2, <2>3
  <1>5. First(s2) = (IF s = <<>> THEN m ELSE First(s)) /\ Final(s2) = m
    BY <1>2, <1>3 DEF First, Final
  <1>6. ASSUME NEW I, Chain(s, I), s # <<>> => Follows(Final(s), m, I)  PROVE  Chain(s2, I)
    <2> SUFFICES ASSUME NEW i \in 1 .. Len(s2) - 1  PROVE  Follows(s2[i], s2[i + 1], I)
      BY DEF Chain
    <2>1. CASE i = Len(s)
      BY <1>2, <1>6, <2>1 DEF Final
    <2>2. CASE i # Len(s)
      <3>1. i \in 1 .. Len(s) - 1 /\ s2[i] = s[i] /\ s2[i + 1] = s[i + 1]
        BY <1>2, <1>3, <2>2
      <3> QED  BY <1>6, <3>1 DEF Chain
    <2> QED  BY <2>1, <2>2
  <1> QED  BY <1>4, <1>5, <1>6 DEF Pushed, s2

\* Receiving removes the first message.
LEMMA PoppedFacts ==
    ASSUME NEW s, IsChannel(s), s # <<>>
    PROVE  Popped(s, Tail(s))
  <1> PICK M : s \in Seq(M)
    BY DEF IsChannel
  <1> DEFINE s2 == Tail(s)
  <1>1. s2 \in Seq(M) /\ Len(s) \in Nat \ {0} /\ Len(s2) = Len(s) - 1
        /\ Head(s) = s[1] /\ \A i \in 1 .. Len(s2) : s2[i] = s[i + 1]
    OBVIOUS
  <1> HIDE DEF s2
  <1>2. s2 = <<>> <=> Len(s) = 1
    <2>1. s2 = <<>> <=> Len(s2) = 0
      BY <1>1, EmptySeq
    <2> QED  BY <1>1, <2>1
  <1>3. First(s) \in Elems(s) /\ Head(s) = First(s)
    BY <1>1 DEF First, Elems
  <1>4. Elems(s2) \subseteq Elems(s)
    <2> SUFFICES ASSUME NEW i \in 1 .. Len(s2)  PROVE  s2[i] \in Elems(s)
      BY DEF Elems
    <2>1. i + 1 \in 1 .. Len(s) /\ s2[i] = s[i + 1]
      BY <1>1
    <2> QED  BY <2>1 DEF Elems
  <1>5. s2 = <<>> => Final(s) = First(s)
    BY <1>2 DEF First, Final
  <1>6. ASSUME s2 # <<>>
        PROVE  Final(s2) = Final(s) /\ \A I : Chain(s, I) => Follows(First(s), First(s2), I)
    <2>1. Len(s2) \in 1 .. Len(s2) /\ 1 \in 1 .. Len(s2) /\ Len(s2) + 1 = Len(s)
          /\ 1 \in 1 .. Len(s) - 1
      BY <1>1, <1>2, <1>6
    <2>2. s2[Len(s2)] = s[Len(s)] /\ s2[1] = s[1 + 1]
      BY <1>1, <2>1
    <2> QED  BY <2>1, <2>2 DEF First, Final, Chain
  <1>7. ASSUME NEW I, Chain(s, I)  PROVE  Chain(s2, I)
    <2> SUFFICES ASSUME NEW i \in 1 .. Len(s2) - 1  PROVE  Follows(s2[i], s2[i + 1], I)
      BY DEF Chain
    <2>1. /\ i + 1 \in 1 .. Len(s) - 1 /\ i \in 1 .. Len(s2) /\ i + 1 \in 1 .. Len(s2)
      BY <1>1
    <2>2. s2[i] = s[i + 1] /\ s2[i + 1] = s[(i + 1) + 1]
      BY <1>1, <2>1
    <2> QED  BY <1>7, <2>1, <2>2 DEF Chain
  <1> QED  BY <1>3, <1>4, <1>5, <1>6, <1>7 DEF Popped, s2

----------------------------------------------------------------------------
(* What stays as it is.                                                    *)

\* The histories only grow, and a noted outcome stays noted.
HistGrows == /\ omitted \subseteq omitted' /\ passed \subseteq passed'
             /\ ignored \subseteq ignored' /\ holed \subseteq holed'
Lasting == HistGrows /\ (Settled => Settled')

KeptStays == /\ \A n : KeptBefore(n) => KeptBefore(n)'
             /\ Spoiled \subseteq Spoiled'

\* What the writer was ready for it still is.
ReadyStays ==
    /\ \A n : AtRest(n) => AtRest(n)'
    /\ \A n, k : Ready(n, k) => Ready(n, k)'
    /\ \A n, k : Offers(n, k) => Offers(n, k)'

\* A file stays kept when it is not touched, or kept afterwards.
LEMMA KeptGrows ==
    ASSUME HistGrows, \A f \in Files : dst'[f] = dst[f] \/ Kept(f)'
    PROVE  KeptStays /\ \A f \in Files : Kept(f) => Kept(f)'
  <1>1. \A f \in Files : Kept(f) => Kept(f)'
    BY DEF Kept, Stored, HistGrows
  <1>2. Spoiled \subseteq Spoiled'
    BY DEF Spoiled, HistGrows
  <1> QED  BY <1>1, <1>2 DEF KeptStays, KeptBefore

\* A step that touches no file.
LEMMA FilesUntouched ==
    ASSUME DInv, UNCHANGED <<src, dst, part, digest>>, HistGrows
    PROVE  /\ FileTypes' /\ StoredIntact' /\ KeptStays
           /\ \A f \in Files : Kept(f) => Kept(f)'
           /\ \A f : Ok(f)' => Ok(f)
  <1>1. KeptStays /\ \A f \in Files : Kept(f) => Kept(f)'
    BY KeptGrows
  <1>2. \A f : Ok(f)' => Ok(f)
    BY <1>1 DEF Ok, KeptStays
  <1>3. FileTypes'
    BY <1>2 DEF DInv, FileTypes
  <1>4. StoredIntact'
    BY DEF DInv, StoredIntact, HistGrows
  <1> QED  BY <1>1, <1>2, <1>3, <1>4

\* A step that touches neither the writer nor the files.
LEMMA WriterUntouched ==
    ASSUME DInv, UNCHANGED <<wr, src, dst, part, digest>>, Lasting
    PROVE  FileTypes' /\ PartSound' /\ StoredIntact' /\ KeptStays /\ ReadyStays
  <1>1. /\ FileTypes' /\ StoredIntact' /\ KeptStays
        /\ \A f \in Files : Kept(f) => Kept(f)'
        /\ \A f : Ok(f)' => Ok(f)
    BY FilesUntouched DEF Lasting
  <1>2. PartSound'
    BY <1>1 DEF DInv, PartSound
  <1>3. \A n : Behind(n) => Behind(n)'
    BY <1>1 DEF Behind, Lasting
  <1>4. Full => Full'
    BY <1>1 DEF Full
  <1>5. \A n : AtRest(n) => AtRest(n)'
    BY <1>3, <1>4 DEF AtRest
  <1>6. \A n, k : Ready(n, k) => Ready(n, k)'
    BY <1>1, <1>3, <1>4 DEF Ready
  <1>7. \A n, k : Offers(n, k) => Offers(n, k)'
    BY <1>5 DEF Offers, Exists
  <1> QED  BY <1>1, <1>2, <1>5, <1>6, <1>7 DEF ReadyStays

\* A message to the writer stays true.
LEMMA ToWriterStays ==
    ASSUME UNCHANGED src, KeptStays
    PROVE  \A m : ToWriter(m) => ToWriter(m)'
  BY DEF ToWriter, KeptStays

\* A message to the reader stays true when the writer is not touched.
LEMMA ToReaderStays ==
    ASSUME UNCHANGED <<upload, wr>>, KeptStays, ReadyStays, rd'.on => rd.on
    PROVE  \A m : ToReader(m) => ToReader(m)'
  <1>1. \A f : Ok(f)' => Ok(f)
    BY DEF Ok, KeptStays
  <1> QED  BY <1>1 DEF ToReader, KeptStays, ReadyStays

\* The order stays, too.
LEMMA OrderStays ==
    ASSUME InOrder, KeptStays
    PROVE  Chain(toW, Spoiled')
  BY ChainGrows DEF InOrder, KeptStays

----------------------------------------------------------------------------
(* The reader and the channels.                                            *)

\* While messages are on their way to the writer the reader has no answer coming:
\* behind its digest it sends nothing.
LEMMA NoAnswerYet ==
    ASSUME IInv, DInv, rd.on, toW # <<>>
    PROVE  prompt = {} /\ ~Has(toR, Answers)
  <1> SUFFICES ASSUME prompt # {} \/ Has(toR, Answers)  PROVE  FALSE
    OBVIOUS
  <1>1. rd.open /\ ~rd.confirmed
    BY DEF IInv, OneQuestion
  <1>2. Final(toW) \in Elems(toW) /\ Final(toW).t = "digest"
    BY <1>1, FinalIn DEF DInv, TailReady, IInv, Shapes
  <1>3. Has(toW, {"digest"})
    BY <1>2, HasElems
  <1> QED  BY <1>3 DEF IInv, OneQuestion

\* The writer took a message, and is ready for what comes behind it.
LEMMA TakenReady ==
    ASSUME DInv, toW # <<>>, Popped(toW, toW'), UNCHANGED rd, KeptStays,
           wr'.on => /\ \A n, k : Sends(First(toW), n, k, Spoiled') => Ready(n, k)'
                     /\ \A n : Ends(First(toW), n) => AtRest(n)'
    PROVE  InOrder' /\ HeadReady' /\ TailReady' /\ ReaderReady'
  <1>1. Chain(toW, Spoiled')
    BY OrderStays DEF DInv
  <1>2. InOrder' /\ (toW' # <<>> => Follows(First(toW), First(toW'), Spoiled'))
    BY <1>1 DEF InOrder, Popped
  <1>3. HeadReady'
    BY <1>2 DEF HeadReady, CanTake, Follows
  <1>4. \A a, n, k : Sends(a, n, k, Spoiled) => Sends(a, n, k, Spoiled')
    BY DEF Sends, KeptStays
  <1>5. TailReady'
    BY <1>4 DEF DInv, TailReady, Popped
  <1>6. ReaderReady'
    BY <1>4 DEF DInv, TailReady, ReaderReady, Popped
  <1> QED  BY <1>2, <1>3, <1>5, <1>6

\* While the writer takes messages, what is on its way to the reader stays true.
LEMMA TakenReplies ==
    ASSUME IInv, DInv, toW # <<>>, UNCHANGED <<upload, rd>>, KeptStays
    PROVE  \A m \in Elems(toR) : ToReader(m)'
  <1> SUFFICES ASSUME NEW m \in Elems(toR)  PROVE  ToReader(m)'
    OBVIOUS
  <1>1. ToReader(m)
    BY DEF DInv, Messages
  <1>2. rd.on => m.t \notin Answers
    BY NoAnswerYet, HasElems
  <1>3. ~upload => m.t # "start"
    BY HasElems DEF IInv, StartFirst
  <1>4. Ok(m.n)' => Ok(m.n)
    BY DEF Ok, KeptStays
  <1> QED  BY <1>1, <1>2, <1>3, <1>4 DEF ToReader, Answers, KeptStays

----------------------------------------------------------------------------
(* The writer and the files.                                               *)

\* The records of no job.
LEMMA NoJobTypes ==
    /\ NoRead \in ReadJob /\ NoWrite \in WriteJob /\ ~NoWrite.open
  BY TransferAssumption DEF NoRead, NoWrite, ReadJob, WriteJob

\* A file that is not there counts as one block, at most.
LEMMA NoFileFacts == NoFile \in Content /\ Len(NoFile) = 1 /\ NumBlocks >= 1
  BY TransferAssumption DEF NoFile, Content, EOF

\* A file whose blocks are all there is a copy.
LEMMA IsCopy ==
    ASSUME NEW s \in Content, NEW v, Len(s) = NumBlocks,
           \A i \in 1 .. Len(s) : s[i] = <<v, i>>
    PROVE  s = Copy(v)
  BY TransferAssumption DEF Content, Copy

\* Once its file is finalized, a file the writer had all of is kept.
LEMMA Finalized ==
    ASSUME DInv, wr.open => Full
    PROVE  /\ DstAfter(wr) \in [Files -> Content]
           /\ PartAfter(wr) \in [Files -> Content]
           /\ DigestAfter(wr) \in [Files -> 0 .. MaxVersion]
           /\ \A f \in Files :
                 /\ ~(wr.open /\ wr.num = f) => /\ DstAfter(wr)[f] = dst[f]
                                                /\ PartAfter(wr)[f] = part[f]
                                                /\ DigestAfter(wr)[f] = digest[f]
                 /\ (wr.open /\ wr.num = f) =>
                       /\ Ok(f) => \E v \in 1 .. MaxVersion : DstAfter(wr)[f] = Copy(v)
                       /\ DstAfter(wr)[f] = part[f]
                       /\ PartAfter(wr)[f] = NoFile /\ DigestAfter(wr)[f] = 0
  <1>1. /\ dst \in [Files -> Content] /\ part \in [Files -> Content]
        /\ digest \in [Files -> 0 .. MaxVersion] /\ src \in [Files -> 1 .. MaxVersion]
    BY DEF DInv, TypeOK, FileTypes
  <1>2. CASE ~wr.open
    BY <1>1, <1>2 DEF DstAfter, PartAfter, DigestAfter
  <1>3. CASE wr.open
    <2>1. wr.num \in Files /\ wr.pos = Len(part[wr.num])
      BY <1>3 DEF DInv, PartSound
    <2>2. Ok(wr.num) => part[wr.num] = Copy(src[wr.num])
      <3> SUFFICES ASSUME Ok(wr.num)  PROVE  part[wr.num] = Copy(src[wr.num])
        OBVIOUS
      <3>1. Len(part[wr.num]) = NumBlocks
        BY <1>3, <2>1 DEF Full
      <3>2. \A i \in 1 .. Len(part[wr.num]) : part[wr.num][i] = <<src[wr.num], i>>
        BY <1>3 DEF DInv, PartSound
      <3>3. part[wr.num] \in Content
        BY <1>1, <2>1
      <3> QED  BY <3>1, <3>2, <3>3, IsCopy
    <2>3. src[wr.num] \in 1 .. MaxVersion /\ 0 \in 0 .. MaxVersion
      BY <1>1, <2>1, TransferAssumption
    <2>4. /\ DstAfter(wr) = [dst EXCEPT ![wr.num] = part[wr.num]]
          /\ PartAfter(wr) = [part EXCEPT ![wr.num] = NoFile]
          /\ DigestAfter(wr) = [digest EXCEPT ![wr.num] = 0]
      BY <1>3 DEF DstAfter, PartAfter, DigestAfter
    <2> QED  BY <1>1, <1>3, <2>1, <2>2, <2>3, <2>4, NoFileFacts
  <1> QED  BY <1>2, <1>3

\* The write job as it goes on with another version or another answer.
SameFile(w) == IsWrite(w) /\ w.num = wr.num /\ w.open = wr.open /\ w.pos = wr.pos

\* The job notes the version of a digest, or an answer of the user.
LEMMA WriterNoted ==
    ASSUME DInv, SameFile(wr'), UNCHANGED <<src, dst, part, digest>>, Lasting
    PROVE  /\ FileTypes' /\ PartSound' /\ StoredIntact' /\ KeptStays
           /\ \A n : AtRest(n) => AtRest(n)'
  <1>1. /\ FileTypes' /\ StoredIntact' /\ KeptStays
        /\ \A f \in Files : Kept(f) => Kept(f)'
        /\ \A f : Ok(f)' => Ok(f)
    BY FilesUntouched DEF Lasting
  <1>2. PartSound'
    BY <1>1 DEF DInv, PartSound, SameFile
  <1>3. \A n : AtRest(n) => AtRest(n)'
    BY <1>1 DEF AtRest, Behind, Full, SameFile, Lasting
  <1> QED  BY <1>1, <1>2, <1>3

\* The job is told to take file n from offset o, and is positioned at k.
LEMMA WriterConfirmed ==
    ASSUME DInv, NEW n \in Files, NEW o \in Nat, NEW k \in {0, o}, NEW w, SameFile(w),
           w.ver = src[n], AtRest(n),
           o > 0 => o = Len(part[n]) /\ digest[n] = src[n] /\ Exists(n, part),
           wr' = WriteConfirm(w, n, FALSE, k), UNCHANGED <<src, dst, part, digest>>,
           Lasting, (k # o \/ (wr.num # n /\ o > 0)) => n \in ignored'
    PROVE  FileTypes' /\ PartSound' /\ StoredIntact' /\ KeptStays /\ Ready(n, o + 1)'
  <1>1. /\ FileTypes' /\ StoredIntact' /\ KeptStays
        /\ \A f \in Files : Kept(f) => Kept(f)'
        /\ \A f : Ok(f)' => Ok(f)
    BY FilesUntouched DEF Lasting
  <1>2. CASE wr.num # n \/ k = 0
    <2>1. SameFile(wr') /\ wr'.ver = src[n]
      BY <1>2 DEF SameFile, WriteConfirm, IsWrite
    <2>2. PartSound' /\ AtRest(n)'
      BY <2>1, WriterNoted
    <2>3. ~(n < n)
      BY TransferAssumption DEF Files
    <2>4. ~(wr'.open /\ wr'.num = n)
      BY <2>2, <2>3 DEF AtRest
    <2>5. Ok(n)' => o + 1 = 1
      <3>1. o = 0 \/ o > 0
        OBVIOUS
      <3>2. o = 0 => o + 1 = 1
        OBVIOUS
      <3> QED  BY <1>2, <3>1, <3>2 DEF Ok, Spoiled
    <2>6. Ready(n, o + 1)'
      BY <2>1, <2>2, <2>4, <2>5 DEF Ready, AtRest
    <2> QED  BY <1>1, <2>2, <2>6
  <1>3. CASE wr.num = n /\ k # 0
    <2>1. wr'.num = n /\ wr'.open /\ wr'.pos = o /\ wr'.ver = src[n] /\ o # 0
      BY <1>3 DEF SameFile, WriteConfirm, IsWrite
    <2>2. o > 0 /\ ~wr.open /\ n \in Nat
      BY <1>3, <2>1, TransferAssumption DEF AtRest, Files
    <2>3. PartSound'
      <3>1. Ok(n)' => \A i \in 1 .. Len(part[n]) : part[n][i] = <<src[n], i>>
        <4> SUFFICES ASSUME Ok(n)
                     PROVE  \A i \in 1 .. Len(part[n]) : part[n][i] = <<src[n], i>>
          BY <1>1
        <4>1. digest[n] # 0 /\ digest[n] = src[n] /\ part[n] # NoFile
          BY <2>2 DEF DInv, TypeOK, Exists
        <4> QED  BY <4>1 DEF DInv, StoredIntact, Begins, Ok, Spoiled
      <3> QED  BY <2>1, <2>2, <3>1 DEF PartSound
    <2>4. Behind(n)'
      BY <1>1, <2>2 DEF AtRest, Behind, Lasting
    <2>5. o = (o + 1) - 1
      BY SMT
    <2>6. Ready(n, o + 1)'
      BY <2>1, <2>4, <2>5 DEF Ready
    <2> QED  BY <1>1, <2>3, <2>6
  <1> QED  BY <1>2, <1>3

\* The job is told to skip file n.
LEMMA WriterSkipped ==
    ASSUME DInv, NEW n \in Files, NEW o, NEW w, SameFile(w), AtRest(n),
           wr' = WriteConfirm(w, n, TRUE, o), UNCHANGED <<src, dst, part, digest>>,
           Lasting, n \in omitted'
    PROVE  FileTypes' /\ PartSound' /\ StoredIntact' /\ KeptStays /\ AtRest(n + 1)'
  <1>1. /\ FileTypes' /\ StoredIntact' /\ KeptStays
        /\ \A f \in Files : Kept(f) => Kept(f)'
        /\ \A f : Ok(f)' => Ok(f)
    BY FilesUntouched DEF Lasting
  <1>2. n \in Nat /\ Files \subseteq Nat
    BY TransferAssumption DEF Files
  <1>3. CASE wr.num # n
    <2>1. SameFile(wr')
      BY <1>3 DEF SameFile, WriteConfirm
    <2>2. PartSound' /\ AtRest(n)'
      BY <2>1, WriterNoted
    <2>3. wr.open => wr.num \in Files
      BY DEF DInv, PartSound
    <2>4. Behind(n + 1)'
      <3> SUFFICES ASSUME ~Settled', NEW f \in Files, f < n + 1
                   PROVE  Kept(f)' \/ (wr'.open /\ wr'.num = f)
        BY DEF Behind
      <3>1. f < n \/ f = n
        BY <1>2
      <3> QED  BY <2>2, <3>1 DEF AtRest, Behind, Kept
    <2>5. \A k \in Files : k < n => k < n + 1
      BY <1>2
    <2>6. wr'.open => Full' /\ wr'.num < n + 1
      BY <2>1, <2>2, <2>3, <2>5 DEF AtRest, SameFile
    <2>7. AtRest(n + 1)'
      BY <2>4, <2>6 DEF AtRest
    <2> QED  BY <1>1, <2>2, <2>7
  <1>4. CASE wr.num = n
    <2>1. ~wr'.open /\ ~wr.open
      BY <1>2, <1>4 DEF SameFile, WriteConfirm, AtRest
    <2>2. PartSound'
      BY <2>1 DEF PartSound
    <2>3. Behind(n + 1)'
      <3> SUFFICES ASSUME ~Settled', NEW f \in Files, f < n + 1  PROVE  Kept(f)'
        BY DEF Behind
      <3>1. f < n \/ f = n
        BY <1>2
      <3>2. f < n => Kept(f)
        BY <2>1 DEF AtRest, Behind, Lasting
      <3> QED  BY <1>1, <3>1, <3>2 DEF Kept
    <2>4. AtRest(n + 1)'
      BY <2>1, <2>3 DEF AtRest
    <2> QED  BY <1>1, <2>2, <2>4
  <1> QED  BY <1>3, <1>4

\* What a confirmation makes of a job is a job.
LEMMA WriteConfirmType ==
    ASSUME NEW w \in WriteJob, NEW n \in Files, NEW skip \in BOOLEAN, NEW o \in Nat
    PROVE  WriteConfirm(w, n, skip, o) \in WriteJob
  <1>1. n + 1 \in 0 .. NumFiles
    BY TransferAssumption DEF Files
  <1> QED  BY <1>1 DEF WriteConfirm, WriteJob

\* A read job that is confirmed or told to skip is one, too.
LEMMA ReadConfirmType ==
    ASSUME src \in [Files -> 1 .. MaxVersion], NEW r \in ReadJob, NEW n \in Files,
           NEW skip \in BOOLEAN, NEW o \in Nat
    PROVE  ReadConfirm(r, n, skip, o) \in ReadJob
  <1>1. n + 1 \in 0 .. NumFiles /\ src[n] \in 0 .. MaxVersion
    BY TransferAssumption DEF Files
  <1> QED  BY ZenonT(30), <1>1 DEF ReadConfirm, Advance, ReadJob

\* The files and the position once the writer has file n open, before it writes a
\* block: a block of another file finalizes the current one.
Fresh(n) == n # wr.num \/ ~wr.open
OpenDst(n)    == IF Fresh(n) THEN DstAfter(wr) ELSE dst
OpenPart(n)   == IF Fresh(n) THEN [PartAfter(wr) EXCEPT ![n] = <<>>] ELSE part
OpenDigest(n) == IF Fresh(n) THEN [DigestAfter(wr) EXCEPT ![n] = wr.ver] ELSE digest
OpenPos(n)    == IF Fresh(n) THEN 0 ELSE wr.pos
OpenJob(n)    == [wr EXCEPT !.num = n, !.open = TRUE, !.pos = OpenPos(n)]
NoStream(n)   == [wr EXCEPT !.num = n, !.open = FALSE]

\* The file is open where the block belongs, and what was there before is kept.
LEMMA Opened ==
    ASSUME DInv, NEW n \in Files, NEW k \in Nat \ {0}, Ready(n, k)
    PROVE  /\ OpenDst(n) \in [Files -> Content] /\ OpenPart(n) \in [Files -> Content]
           /\ OpenDigest(n) \in [Files -> 0 .. MaxVersion]
           /\ \A f \in Files : Ok(f) => Len(OpenPart(n)[f]) <= NumBlocks
           /\ OpenPos(n) = Len(OpenPart(n)[n])
           /\ Ok(n) => /\ OpenPos(n) = k - 1 /\ OpenDigest(n)[n] = src[n]
                       /\ \A i \in 1 .. Len(OpenPart(n)[n]) : OpenPart(n)[n][i] = <<src[n], i>>
           /\ \A f \in Files : Ok(f) =>
                 /\ Whole(OpenDst(n)[f])
                 /\ (f # n /\ OpenDigest(n)[f] # 0) => Begins(OpenPart(n)[f], OpenDigest(n)[f])
           /\ \A f \in Files : \/ OpenDst(n)[f] = dst[f] \/ ~Ok(f)
                               \/ \E v \in 1 .. MaxVersion : OpenDst(n)[f] = Copy(v)
           /\ Settled \/ \A f \in Files : f < n =>
                 \/ f \in omitted \cup passed \cup ignored \cup holed
                 \/ \E v \in 1 .. MaxVersion : OpenDst(n)[f] = Copy(v)
  <1>1. /\ dst \in [Files -> Content] /\ part \in [Files -> Content]
        /\ digest \in [Files -> 0 .. MaxVersion] /\ src \in [Files -> 1 .. MaxVersion]
        /\ \A f \in Files : Ok(f) => /\ Len(part[f]) <= NumBlocks /\ Whole(dst[f])
                                     /\ digest[f] # 0 => Begins(part[f], digest[f])
    BY DEF DInv, TypeOK, FileTypes, StoredIntact, Ok, Spoiled
  <1>2. CASE Fresh(n)
    <2>1. wr.ver = src[n] /\ Behind(n) /\ (Ok(n) => k = 1) /\ (wr.open => Full)
      BY <1>2 DEF Ready, Fresh
    <2> DEFINE D == DstAfter(wr)  P == PartAfter(wr)  G == DigestAfter(wr)
    <2>2. /\ D \in [Files -> Content] /\ P \in [Files -> Content]
          /\ G \in [Files -> 0 .. MaxVersion]
          /\ \A f \in Files :
                /\ ~(wr.open /\ wr.num = f) => D[f] = dst[f] /\ P[f] = part[f] /\ G[f] = digest[f]
                /\ (wr.open /\ wr.num = f) =>
                      /\ Ok(f) => \E v \in 1 .. MaxVersion : D[f] = Copy(v)
                      /\ D[f] = part[f] /\ P[f] = NoFile /\ G[f] = 0
      BY <2>1, Finalized
    <2>3. /\ OpenDst(n) = D /\ OpenPart(n) = [P EXCEPT ![n] = <<>>]
          /\ OpenDigest(n) = [G EXCEPT ![n] = wr.ver] /\ OpenPos(n) = 0
      BY <1>2 DEF OpenDst, OpenPart, OpenDigest, OpenPos
    <2> HIDE DEF D, P, G
    <2>4. <<>> \in Content /\ Len(<<>>) = 0 /\ wr.ver \in 0 .. MaxVersion
      BY <1>1, <2>1 DEF Content
    <2>5. OpenPart(n) \in [Files -> Content] /\ OpenDigest(n) \in [Files -> 0 .. MaxVersion]
      BY <2>2, <2>3, <2>4
    <2>6. \A f \in Files : Ok(f) => Len(P[f]) <= NumBlocks
      BY <1>1, <2>2, NoFileFacts
    <2>7. /\ OpenPart(n)[n] = <<>> /\ OpenDigest(n)[n] = src[n]
          /\ \A f \in Files : f # n => OpenPart(n)[f] = P[f] /\ OpenDigest(n)[f] = G[f]
      BY <2>1, <2>2, <2>3
    <2>8. \A f \in Files : Ok(f) => Len(OpenPart(n)[f]) <= NumBlocks
      BY <2>4, <2>6, <2>7, TransferAssumption
    <2>9. ASSUME NEW f \in Files, Ok(f)
           PROVE  Whole(D[f]) /\ (G[f] # 0 => Begins(P[f], G[f]))
      <3>1. \A v \in 1 .. MaxVersion : Whole(Copy(v))
        BY TransferAssumption DEF Whole, Contents
      <3> QED  BY <1>1, <2>2, <2>9, <3>1
    <2>10. ASSUME ~Settled, NEW f \in Files, f < n
           PROVE  \/ f \in omitted \cup passed \cup ignored \cup holed
                  \/ \E v \in 1 .. MaxVersion : D[f] = Copy(v)
      <3>1. Kept(f) \/ (wr.open /\ wr.num = f)
        BY <2>1, <2>10 DEF Behind
      <3>2. CASE wr.open /\ wr.num = f
        BY <2>2, <3>2 DEF Ok, Spoiled
      <3>3. CASE Kept(f) /\ ~(wr.open /\ wr.num = f)
        BY <2>2, <3>3 DEF Kept, Stored
      <3> QED  BY <3>1, <3>2, <3>3
    <2>11. \A f \in Files : \/ D[f] = dst[f] \/ ~Ok(f)
                            \/ \E v \in 1 .. MaxVersion : D[f] = Copy(v)
      BY <2>2
    <2>12. OpenPos(n) = Len(OpenPart(n)[n]) /\ (k = 1 => OpenPos(n) = k - 1)
      BY <2>3, <2>4, <2>7
    <2>13. \A i \in 1 .. Len(OpenPart(n)[n]) : OpenPart(n)[n][i] = <<src[n], i>>
      BY <2>4, <2>7
    <2>14. OpenDst(n) \in [Files -> Content]
      BY <2>2, <2>3
    <2>15. Ok(n) => OpenPos(n) = k - 1 /\ OpenDigest(n)[n] = src[n]
      BY <2>1, <2>7, <2>12
    <2>16. \A f \in Files : Ok(f) =>
              /\ Whole(OpenDst(n)[f])
              /\ (f # n /\ OpenDigest(n)[f] # 0) => Begins(OpenPart(n)[f], OpenDigest(n)[f])
      BY <2>3, <2>7, <2>9
    <2>17. /\ \A f \in Files : \/ OpenDst(n)[f] = dst[f] \/ ~Ok(f)
                                \/ \E v \in 1 .. MaxVersion : OpenDst(n)[f] = Copy(v)
           /\ Settled \/ \A f \in Files : f < n =>
                 \/ f \in omitted \cup passed \cup ignored \cup holed
                 \/ \E v \in 1 .. MaxVersion : OpenDst(n)[f] = Copy(v)
      BY <2>3, <2>10, <2>11
    <2> QED  BY <2>5, <2>8, <2>12, <2>13, <2>14, <2>15, <2>16, <2>17
  <1>3. CASE ~Fresh(n)
    <2>1. wr.open /\ wr.num = n /\ Behind(n) /\ (Ok(n) => wr.pos = k - 1)
      BY <1>3 DEF Ready, Fresh
    <2>2. /\ OpenDst(n) = dst /\ OpenPart(n) = part
          /\ OpenDigest(n) = digest /\ OpenPos(n) = wr.pos
      BY <1>3 DEF OpenDst, OpenPart, OpenDigest, OpenPos
    <2>3. /\ wr.pos = Len(part[n])
          /\ Ok(n) => /\ digest[n] = src[n]
                      /\ \A i \in 1 .. Len(part[n]) : part[n][i] = <<src[n], i>>
      BY <2>1 DEF DInv, PartSound
    <2>4. Settled \/ \A f \in Files : f < n =>
             \/ f \in omitted \cup passed \cup ignored \cup holed
             \/ \E v \in 1 .. MaxVersion : dst[f] = Copy(v)
      <3>1. ~(n < n)
        BY TransferAssumption DEF Files
      <3> QED  BY <2>1, <3>1 DEF Behind, Kept, Stored
    <2> QED  BY <1>1, <2>1, <2>2, <2>3, <2>4
  <1> QED  BY <1>2, <1>3

\* A block behind the last one is appended.
LEMMA PutFacts ==
    ASSUME NEW s \in Content, NEW b \in Nat \X Nat
    PROVE  LET s2 == Put(s, Len(s), b)
           IN /\ s2 \in Content /\ Len(s2) = Len(s) + 1 /\ s2[Len(s) + 1] = b
              /\ \A i \in 1 .. Len(s) : s2[i] = s[i]
  <1> DEFINE N == Len(s)
             s2 == Put(s, N, b)
  <1>1. N \in Nat /\ s \in Seq(Nat \X Nat)
    BY DEF Content
  <1>2. s2 = [i \in 1 .. N + 1 |-> IF i = N + 1 THEN b ELSE s[i]]
    BY <1>1 DEF Put
  <1>3. \A i \in 1 .. N : s[i] \in Nat \X Nat
    BY <1>1
  <1> HIDE DEF N
  <1>4. \A i \in 1 .. N + 1 : (IF i = N + 1 THEN b ELSE s[i]) \in Nat \X Nat
    BY <1>1, <1>3
  <1>5. s2 \in Seq(Nat \X Nat) /\ Len(s2) = N + 1
    BY <1>1, <1>2, <1>4
  <1>6. s2[N + 1] = b /\ \A i \in 1 .. N : s2[i] = s[i]
    BY <1>1, <1>2
  <1> QED  BY <1>5, <1>6 DEF N, Content

\* Where a block of the message m belongs.
BlockOf(m) ==
    /\ m.n \in Files
    /\ m.p = EOF \/ (m.p[2] \in 1 .. NumBlocks /\ m.p = <<src[m.n], m.p[2]>>)

\* A block has a place in its file.
LEMMA IndexType ==
    ASSUME NEW m, BlockOf(m)
    PROVE  /\ Index(m) \in Nat \ {0}
           /\ m.p = EOF => Index(m) = NumBlocks + 1
           /\ m.p # EOF => Index(m) = m.p[2] /\ m.p[2] \in 1 .. NumBlocks
  BY TransferAssumption DEF BlockOf, Index

\* What is kept once the writer has file n open.
LEMMA OpenedKeeps ==
    ASSUME DInv, NEW n \in Files, NEW k \in Nat \ {0}, Ready(n, k), dst' = OpenDst(n), HistGrows
    PROVE  KeptStays /\ (Settled \/ KeptBefore(n)')
  <1>1. /\ \A f \in Files : \/ dst'[f] = dst[f] \/ ~Ok(f)
                            \/ \E v \in 1 .. MaxVersion : dst'[f] = Copy(v)
        /\ Settled \/ \A f \in Files : f < n =>
              \/ f \in omitted \cup passed \cup ignored \cup holed
              \/ \E v \in 1 .. MaxVersion : dst'[f] = Copy(v)
    BY Opened
  <1>2. \A f \in Files : dst'[f] = dst[f] \/ Kept(f)'
    BY <1>1 DEF Kept, Stored, Ok, Spoiled, HistGrows
  <1>3. Settled \/ KeptBefore(n)'
    BY <1>1 DEF KeptBefore, Kept, Stored, HistGrows
  <1> QED  BY <1>2, <1>3, KeptGrows

\* The writer takes a block it is ready for.
LEMMA BlockTaken ==
    ASSUME DInv, NEW m, BlockOf(m), Ready(m.n, Index(m)), TakeBlock(m),
           UNCHANGED <<upload, pending, src, omitted, passed, ignored, holed>>
    PROVE  /\ wr' \in WriteJob /\ digest' \in [Files -> 0 .. MaxVersion]
           /\ FileTypes' /\ PartSound' /\ StoredIntact' /\ KeptStays
           /\ m.p # EOF => Ready(m.n, m.p[2] + 1)'
           /\ m.p = EOF => AtRest(m.n + 1)'
  <1> DEFINE n == m.n
             k == Index(m)
             i == OpenPos(n)
             P == OpenPart(n)
             last == m.p = EOF
  <1>1. /\ n \in Files /\ k \in Nat \ {0}
        /\ last => k = NumBlocks + 1
        /\ ~last => k = m.p[2] /\ k \in 1 .. NumBlocks /\ m.p = <<src[n], k>>
    BY IndexType DEF BlockOf
  <1>2. /\ dst' = OpenDst(n) /\ digest' = OpenDigest(n)
        /\ part' = (IF last THEN P ELSE [P EXCEPT ![n] = Put(@, i, m.p)])
        /\ wr' = [wr EXCEPT !.num = n, !.open = TRUE, !.pos = IF last THEN i ELSE i + 1]
    BY DEF TakeBlock, OpenDst, OpenDigest, OpenPart, OpenPos, Fresh
  <1>3. /\ OpenDst(n) \in [Files -> Content] /\ P \in [Files -> Content]
        /\ OpenDigest(n) \in [Files -> 0 .. MaxVersion]
        /\ \A f \in Files : Ok(f) => Len(P[f]) <= NumBlocks
        /\ i = Len(P[n])
        /\ Ok(n) => /\ i = k - 1 /\ OpenDigest(n)[n] = src[n]
                    /\ \A j \in 1 .. Len(P[n]) : P[n][j] = <<src[n], j>>
        /\ \A f \in Files : Ok(f) =>
              /\ Whole(OpenDst(n)[f])
              /\ (f # n /\ OpenDigest(n)[f] # 0) => Begins(P[f], OpenDigest(n)[f])
    BY <1>1, Opened
  <1>4. KeptStays /\ (Settled' \/ KeptBefore(n)')
    BY <1>1, <1>2, OpenedKeeps DEF HistGrows, Settled
  <1>5. wr.ver = src[n] /\ wr \in WriteJob /\ src[n] \in 1 .. MaxVersion
    BY <1>1 DEF Ready, DInv, TypeOK
  <1> HIDE DEF i, P, k, n
  <1>6. i \in Nat /\ NumBlocks \in Nat \ {0}
    BY <1>1, <1>3, TransferAssumption DEF Content
  <1>7. /\ wr'.num = n /\ wr'.open /\ wr'.ver = src[n]
        /\ wr'.pos = (IF last THEN i ELSE i + 1)
    BY <1>2, <1>5 DEF WriteJob
  <1>8. /\ part' \in [Files -> Content] /\ Len(part'[n]) = (IF last THEN i ELSE i + 1)
        /\ \A f \in Files : f # n => part'[f] = P[f]
        /\ Ok(n) => \A j \in 1 .. Len(part'[n]) : part'[n][j] = <<src[n], j>>
    <2>1. CASE last
      BY <1>1, <1>2, <1>3, <2>1
    <2>2. CASE ~last
      <3> DEFINE s2 == Put(P[n], i, m.p)
      <3>1. m.p \in Nat \X Nat /\ P[n] \in Content
        <4>1. src[n] \in Nat /\ k \in Nat /\ m.p = <<src[n], k>>
          BY <1>1, <1>5, <2>2, TransferAssumption
        <4>2. m.p \in Nat \X Nat
          BY <4>1
        <4> QED  BY <1>1, <1>3, <4>2
      <3>2. /\ s2 \in Content /\ Len(s2) = i + 1 /\ s2[i + 1] = m.p
            /\ \A j \in 1 .. i : s2[j] = P[n][j]
        BY <1>3, <3>1, PutFacts
      <3> HIDE DEF s2
      <3>3. part' = [P EXCEPT ![n] = s2]
        BY <1>2, <2>2 DEF s2
      <3>4. part' \in [Files -> Content] /\ part'[n] = s2
        BY <1>1, <1>3, <3>2, <3>3
      <3>5. \A f \in Files : f # n => part'[f] = P[f]
        BY <1>3, <3>3
      <3>6. ASSUME Ok(n), NEW j \in 1 .. i + 1  PROVE  s2[j] = <<src[n], j>>
        <4>1. i + 1 = k
          BY <1>1, <1>3, <1>6, <3>6
        <4>2. j \in 1 .. i \/ j = i + 1
          BY <1>6
        <4> QED  BY <1>1, <2>2, <3>2, <1>3, <3>6, <4>1, <4>2
      <3> QED  BY <2>2, <3>2, <3>4, <3>5, <3>6
    <2> QED  BY <2>1, <2>2
  <1>9. wr' \in WriteJob
    <2>1. n \in 0 .. NumFiles /\ (IF last THEN i ELSE i + 1) \in Nat
      BY <1>1, <1>6, TransferAssumption DEF Files
    <2> QED  BY <1>2, <1>5, <2>1 DEF WriteJob
  <1>10. \A f : Ok(f)' <=> Ok(f)
    BY DEF Ok, Spoiled
  <1>11. FileTypes'
    <2>1. Ok(n) => (~last => i + 1 <= NumBlocks)
      BY <1>1, <1>3, <1>6
    <2>2. Ok(n) => Len(part'[n]) <= NumBlocks
      BY <1>1, <1>3, <1>8, <2>1
    <2>3. \A f \in Files : Ok(f) => Len(part'[f]) <= NumBlocks
      BY <1>3, <1>8, <2>2
    <2> QED  BY <1>2, <1>3, <1>8, <1>10, <2>3 DEF FileTypes
  <1>12. PartSound'
    BY <1>1, <1>2, <1>3, <1>7, <1>8, <1>10 DEF PartSound
  <1>13. StoredIntact'
    <2> SUFFICES ASSUME NEW f \in Files, Ok(f)
                 PROVE  Whole(dst'[f]) /\ (digest'[f] # 0 => Begins(part'[f], digest'[f]))
      BY DEF StoredIntact, Ok, Spoiled, Whole
    <2>1. CASE f # n
      BY <1>2, <1>3, <1>8, <2>1
    <2>2. CASE f = n
      BY <1>2, <1>3, <1>8, <2>2 DEF Begins
    <2> QED  BY <2>1, <2>2
  <1>14. ASSUME ~last  PROVE  Ready(n, k + 1)'
    <2>1. Behind(n)'
      BY <1>4 DEF KeptBefore, Behind
    <2>2. Ok(n) => i + 1 = (k + 1) - 1
      BY <1>1, <1>3, <1>6
    <2> QED  BY <1>7, <1>10, <1>14, <2>1, <2>2 DEF Ready
  <1>15. ASSUME last  PROVE  AtRest(n + 1)'
    <2>1. Full'
      <3>1. Ok(n) => i = NumBlocks
        BY <1>1, <1>3, <1>6, <1>15
      <3> QED  BY <1>7, <1>10, <1>15, <3>1 DEF Full
    <2>2. \A f \in Files : f < n + 1 => f < n \/ f = n
      BY <1>1, TransferAssumption DEF Files
    <2>3. Behind(n + 1)'
      BY <1>4, <1>7, <2>2 DEF KeptBefore, Behind
    <2>4. n < n + 1
      BY <1>1, TransferAssumption DEF Files
    <2> QED  BY <1>7, <2>1, <2>3, <2>4 DEF AtRest
  <1> QED  BY <1>1, <1>2, <1>3, <1>4, <1>9, <1>11, <1>12, <1>13, <1>14, <1>15 DEF n

\* A host that cannot write the block goes on without it.
LEMMA BlockLost ==
    ASSUME DInv, NEW n \in Files, NEW k \in Nat \ {0}, Ready(n, k),
           dst' = OpenDst(n), part' = OpenPart(n), digest' = OpenDigest(n),
           wr' = OpenJob(n),
           holed' = holed \cup {n}, UNCHANGED <<src, omitted, passed, ignored>>, Settled'
    PROVE  /\ wr' \in WriteJob /\ digest' \in [Files -> 0 .. MaxVersion]
           /\ FileTypes' /\ PartSound' /\ StoredIntact' /\ KeptStays
           /\ \A j : Ready(n, j)'
  <1> DEFINE i == OpenPos(n)
  <1>1. /\ dst' \in [Files -> Content] /\ part' \in [Files -> Content]
        /\ digest' \in [Files -> 0 .. MaxVersion]
        /\ \A f \in Files : Ok(f) => Len(part'[f]) <= NumBlocks
        /\ i = Len(part'[n])
        /\ \A f \in Files : Ok(f) =>
              /\ Whole(dst'[f])
              /\ (f # n /\ digest'[f] # 0) => Begins(part'[f], digest'[f])
    BY Opened
  <1>2. KeptStays
    BY OpenedKeeps DEF HistGrows
  <1>3. wr.ver = src[n] /\ wr \in WriteJob
    BY DEF Ready, DInv, TypeOK
  <1> HIDE DEF i
  <1>4. i \in Nat /\ wr' = [wr EXCEPT !.num = n, !.open = TRUE, !.pos = i]
    BY <1>1 DEF Content, OpenJob, i
  <1>5. wr'.num = n /\ wr'.open /\ wr'.ver = src[n] /\ wr'.pos = i
    BY <1>3, <1>4 DEF WriteJob
  <1>6. wr' \in WriteJob
    <2>1. n \in 0 .. NumFiles
      BY TransferAssumption DEF Files
    <2> QED  BY <1>3, <1>4, <2>1 DEF WriteJob
  <1>7. ~Ok(n)' /\ \A f : Ok(f)' => Ok(f)
    BY DEF Ok, Spoiled
  <1>8. FileTypes'
    BY <1>1, <1>7 DEF FileTypes
  <1>9. PartSound'
    BY <1>1, <1>5, <1>7 DEF PartSound
  <1>10. StoredIntact'
    <2> SUFFICES ASSUME NEW f \in Files, Ok(f), f # n
                 PROVE  Whole(dst'[f]) /\ (digest'[f] # 0 => Begins(part'[f], digest'[f]))
      BY DEF StoredIntact, Ok, Spoiled, Whole
    <2> QED  BY <1>1
  <1>11. \A j : Ready(n, j)'
    BY <1>5, <1>7 DEF Ready, Behind
  <1> QED  BY <1>1, <1>2, <1>6, <1>8, <1>9, <1>10, <1>11

\* What goes when a file is finalized.
LEMMA AfterTrims ==
    ASSUME DInv
    PROVE  /\ PartAfter(wr) \in [Files -> Content]
           /\ DigestAfter(wr) \in [Files -> 0 .. MaxVersion]
           /\ \A f \in Files : /\ PartAfter(wr)[f] = part[f] \/ PartAfter(wr)[f] = NoFile
                               /\ DigestAfter(wr)[f] = digest[f] \/ DigestAfter(wr)[f] = 0
  <1>1. part \in [Files -> Content] /\ digest \in [Files -> 0 .. MaxVersion]
    BY DEF DInv, TypeOK, FileTypes
  <1>2. CASE ~wr.open
    BY <1>1, <1>2 DEF PartAfter, DigestAfter
  <1>3. CASE wr.open
    <2>1. wr.num \in Files /\ 0 \in 0 .. MaxVersion
      BY <1>3, TransferAssumption DEF DInv, PartSound
    <2>2. /\ PartAfter(wr) = [part EXCEPT ![wr.num] = NoFile]
          /\ DigestAfter(wr) = [digest EXCEPT ![wr.num] = 0]
      BY <1>3 DEF PartAfter, DigestAfter
    <2> QED  BY <1>1, <2>1, <2>2, NoFileFacts
  <1> QED  BY <1>2, <1>3

\* Files stay as they should be when partial files and digests go, and when the
\* writer finalizes one it has all of.
LEMMA Trimmed ==
    ASSUME DInv, UNCHANGED src, HistGrows,
           dst' = dst \/ (dst' = DstAfter(wr) /\ (wr.open => Full)),
           part' \in [Files -> Content],
           \A f \in Files : part'[f] = part[f] \/ part'[f] = NoFile,
           \A f \in Files : digest'[f] = digest[f] \/ digest'[f] = 0
    PROVE  FileTypes' /\ StoredIntact' /\ KeptStays
  <1>1. /\ dst \in [Files -> Content]
        /\ \A f \in Files : Ok(f) => /\ Len(part[f]) <= NumBlocks /\ Whole(dst[f])
                                     /\ digest[f] # 0 => Begins(part[f], digest[f])
    BY DEF DInv, TypeOK, FileTypes, StoredIntact, Ok, Spoiled
  <1>2. /\ dst' \in [Files -> Content]
        /\ \A f \in Files : \/ dst'[f] = dst[f] \/ ~Ok(f)
                            \/ \E v \in 1 .. MaxVersion : dst'[f] = Copy(v)
    <2>1. CASE dst' = dst
      BY <1>1, <2>1
    <2>2. CASE dst' = DstAfter(wr) /\ (wr.open => Full)
      BY <2>2, Finalized
    <2> QED  BY <2>1, <2>2
  <1>3. KeptStays
    <2>1. \A f \in Files : dst'[f] = dst[f] \/ Kept(f)'
      BY <1>2 DEF Kept, Stored, Ok, Spoiled, HistGrows
    <2> QED  BY <2>1, KeptGrows
  <1>4. \A f : Ok(f)' => Ok(f)
    BY <1>3 DEF Ok, KeptStays
  <1>5. FileTypes'
    BY <1>1, <1>2, <1>4, NoFileFacts DEF FileTypes
  <1>6. StoredIntact'
    <2> SUFFICES ASSUME NEW f \in Files, Ok(f)'
                 PROVE  Whole(dst'[f]) /\ (digest'[f] # 0 => Begins(part'[f], digest'[f]))
      BY DEF StoredIntact, Ok, Spoiled, Whole
    <2>1. Ok(f) /\ \A v \in 1 .. MaxVersion : Whole(Copy(v))
      BY <1>4, TransferAssumption DEF Whole, Contents
    <2> QED  BY <1>1, <1>2, <2>1 DEF Begins
  <1> QED  BY <1>3, <1>5, <1>6

\* Removing the partial file n as well.
LEMMA AlsoRemoved ==
    ASSUME NEW n, NEW P \in [Files -> Content], NEW G \in [Files -> 0 .. MaxVersion],
           \A f \in Files : f = n \/ P[f] = part[f] \/ P[f] = NoFile,
           \A f \in Files : f = n \/ G[f] = digest[f] \/ G[f] = 0
    PROVE  /\ [P EXCEPT ![n] = NoFile] \in [Files -> Content]
           /\ [G EXCEPT ![n] = 0] \in [Files -> 0 .. MaxVersion]
           /\ \A f \in Files : /\ \/ [P EXCEPT ![n] = NoFile][f] = part[f]
                                  \/ [P EXCEPT ![n] = NoFile][f] = NoFile
                               /\ \/ [G EXCEPT ![n] = 0][f] = digest[f]
                                  \/ [G EXCEPT ![n] = 0][f] = 0
  <1>1. 0 \in 0 .. MaxVersion
    BY TransferAssumption
  <1> QED  BY <1>1, NoFileFacts

\* A client that cannot write the block removes the partial file.
LEMMA BlockGivenUp ==
    ASSUME DInv, NEW n \in Files, NEW k \in Nat \ {0}, Ready(n, k), dst' = OpenDst(n),
           part' = [OpenPart(n) EXCEPT ![n] = NoFile],
           digest' = [OpenDigest(n) EXCEPT ![n] = 0], UNCHANGED src, HistGrows
    PROVE  digest' \in [Files -> 0 .. MaxVersion] /\ FileTypes' /\ StoredIntact' /\ KeptStays
  <1>1. OpenPart(n) \in [Files -> Content] /\ OpenDigest(n) \in [Files -> 0 .. MaxVersion]
    BY Opened
  <1>2. /\ PartAfter(wr) \in [Files -> Content] /\ DigestAfter(wr) \in [Files -> 0 .. MaxVersion]
        /\ \A f \in Files : /\ PartAfter(wr)[f] = part[f] \/ PartAfter(wr)[f] = NoFile
                            /\ DigestAfter(wr)[f] = digest[f] \/ DigestAfter(wr)[f] = 0
    BY AfterTrims
  <1>3. \A f \in Files : f = n \/ OpenPart(n)[f] = part[f] \/ OpenPart(n)[f] = NoFile
    BY <1>2 DEF OpenPart
  <1>4. \A f \in Files : f = n \/ OpenDigest(n)[f] = digest[f] \/ OpenDigest(n)[f] = 0
    BY <1>2 DEF OpenDigest
  <1> DEFINE P == OpenPart(n)
             G == OpenDigest(n)
  <1> HIDE DEF P, G
  <1>5. /\ part' \in [Files -> Content] /\ digest' \in [Files -> 0 .. MaxVersion]
        /\ \A f \in Files : /\ part'[f] = part[f] \/ part'[f] = NoFile
                            /\ digest'[f] = digest[f] \/ digest'[f] = 0
    <2>1. part' = [P EXCEPT ![n] = NoFile] /\ digest' = [G EXCEPT ![n] = 0]
      BY DEF P, G
    <2> QED  BY <1>1, <1>3, <1>4, <2>1, AlsoRemoved DEF P, G
  <1>6. dst' = dst \/ (dst' = DstAfter(wr) /\ (wr.open => Full))
    BY DEF OpenDst, Fresh, Ready
  <1> QED  BY <1>5, <1>6, Trimmed

\* A client that cannot create the file of the block does, too.
LEMMA CreateGivenUp ==
    ASSUME DInv, NEW n \in Files, NEW k, Ready(n, k), Fresh(n), dst' = DstAfter(wr),
           part' = [PartAfter(wr) EXCEPT ![n] = NoFile],
           digest' = [DigestAfter(wr) EXCEPT ![n] = 0], UNCHANGED src, HistGrows
    PROVE  digest' \in [Files -> 0 .. MaxVersion] /\ FileTypes' /\ StoredIntact' /\ KeptStays
  <1> DEFINE P == PartAfter(wr)
             G == DigestAfter(wr)
  <1>1. /\ P \in [Files -> Content] /\ G \in [Files -> 0 .. MaxVersion]
        /\ \A f \in Files : f = n \/ P[f] = part[f] \/ P[f] = NoFile
        /\ \A f \in Files : f = n \/ G[f] = digest[f] \/ G[f] = 0
    BY AfterTrims
  <1> HIDE DEF P, G
  <1>2. /\ part' \in [Files -> Content] /\ digest' \in [Files -> 0 .. MaxVersion]
        /\ \A f \in Files : /\ part'[f] = part[f] \/ part'[f] = NoFile
                            /\ digest'[f] = digest[f] \/ digest'[f] = 0
    <2>1. part' = [P EXCEPT ![n] = NoFile] /\ digest' = [G EXCEPT ![n] = 0]
      BY DEF P, G
    <2>2. /\ [P EXCEPT ![n] = NoFile] \in [Files -> Content]
          /\ [G EXCEPT ![n] = 0] \in [Files -> 0 .. MaxVersion]
          /\ \A f \in Files : /\ \/ [P EXCEPT ![n] = NoFile][f] = part[f]
                                 \/ [P EXCEPT ![n] = NoFile][f] = NoFile
                              /\ \/ [G EXCEPT ![n] = 0][f] = digest[f]
                                 \/ [G EXCEPT ![n] = 0][f] = 0
      BY <1>1, AlsoRemoved
    <2> QED  BY <2>1, <2>2
  <1>3. wr.open => Full
    BY DEF Ready, Fresh
  <1> QED  BY <1>2, <1>3, Trimmed

\* A host that cannot create it goes on without a stream.
LEMMA NotCreated ==
    ASSUME DInv, NEW n \in Files, NEW k, Ready(n, k), Fresh(n), dst' = DstAfter(wr),
           part' = PartAfter(wr), digest' = [DigestAfter(wr) EXCEPT ![n] = 0],
           wr' = NoStream(n),
           holed' = holed \cup {n}, UNCHANGED <<src, omitted, passed, ignored>>, Settled'
    PROVE  /\ wr' \in WriteJob /\ digest' \in [Files -> 0 .. MaxVersion]
           /\ FileTypes' /\ PartSound' /\ StoredIntact' /\ KeptStays
           /\ (\A j : Ready(n, j)') /\ AtRest(n + 1)'
  <1> DEFINE G == DigestAfter(wr)
  <1>1. /\ PartAfter(wr) \in [Files -> Content] /\ G \in [Files -> 0 .. MaxVersion]
        /\ \A f \in Files : PartAfter(wr)[f] = part[f] \/ PartAfter(wr)[f] = NoFile
        /\ \A f \in Files : G[f] = digest[f] \/ G[f] = 0
    BY AfterTrims
  <1> HIDE DEF G
  <1>2. /\ digest' \in [Files -> 0 .. MaxVersion]
        /\ \A f \in Files : digest'[f] = digest[f] \/ digest'[f] = 0
    <2>1. digest' = [G EXCEPT ![n] = 0] /\ 0 \in 0 .. MaxVersion
      BY TransferAssumption DEF G
    <2> QED  BY <1>1, <2>1
  <1>3. wr.ver = src[n] /\ wr \in WriteJob /\ (wr.open => Full)
    BY DEF Ready, Fresh, DInv, TypeOK
  <1>4. FileTypes' /\ StoredIntact' /\ KeptStays
    BY <1>1, <1>2, <1>3, Trimmed DEF HistGrows
  <1>5. wr' \in WriteJob /\ ~wr'.open /\ wr'.ver = src[n]
    <2>1. n \in 0 .. NumFiles
      BY TransferAssumption DEF Files
    <2> QED  BY <1>3, <2>1 DEF WriteJob, NoStream
  <1>6. ~Ok(n)'
    BY DEF Ok, Spoiled
  <1> QED  BY <1>2, <1>4, <1>5, <1>6 DEF PartSound, Ready, AtRest, Behind

\* A host that cannot finalize the file before has it still, or has no stream.
LEMMA NotFinalized ==
    ASSUME DInv, NEW n \in Files, NEW k, Ready(n, k), n # wr.num, wr.open,
           NEW step \in {"sync", "rename", "mtime"},
           dst' = IF step = "mtime" THEN DstAfter(wr) ELSE dst,
           part' = IF step = "mtime" THEN PartAfter(wr) ELSE part,
           digest' = IF step = "sync" THEN digest ELSE DigestAfter(wr),
           wr' = [wr EXCEPT !.open = step = "sync"],
           holed' = holed \cup {n}, UNCHANGED <<src, omitted, passed, ignored>>, Settled'
    PROVE  /\ wr' \in WriteJob /\ digest' \in [Files -> 0 .. MaxVersion]
           /\ FileTypes' /\ PartSound' /\ StoredIntact' /\ KeptStays
           /\ (\A j : Ready(n, j)') /\ AtRest(n + 1)'
  <1>1. /\ part \in [Files -> Content] /\ digest \in [Files -> 0 .. MaxVersion]
        /\ wr \in WriteJob /\ wr.num \in Files
    BY DEF DInv, TypeOK, FileTypes, PartSound
  <1>2. wr.ver = src[n] /\ Full /\ wr.num < n
    BY DEF Ready
  <1>3. /\ part' \in [Files -> Content] /\ digest' \in [Files -> 0 .. MaxVersion]
        /\ \A f \in Files : /\ part'[f] = part[f] \/ part'[f] = NoFile
                            /\ digest'[f] = digest[f] \/ digest'[f] = 0
    BY <1>1, AfterTrims
  <1>4. FileTypes' /\ StoredIntact' /\ KeptStays
    BY <1>2, <1>3, Trimmed DEF HistGrows
  <1>5. /\ wr' \in WriteJob /\ wr'.num = wr.num /\ wr'.pos = wr.pos /\ wr'.ver = src[n]
        /\ wr'.open <=> step = "sync"
    BY <1>1, <1>2 DEF WriteJob
  <1>6. ~Ok(n)' /\ \A f : Ok(f)' => Ok(f)
    BY DEF Ok, Spoiled
  <1>7. PartSound'
    BY <1>1, <1>5, <1>6 DEF DInv, PartSound
  <1>8. Full' /\ wr'.num < n /\ wr'.num < n + 1
    <2>1. wr.num < n + 1
      BY <1>1, <1>2, TransferAssumption DEF Files
    <2> QED  BY <1>2, <1>5, <1>6, <2>1 DEF Full
  <1>9. (\A j : Ready(n, j)') /\ AtRest(n + 1)'
    BY <1>5, <1>6, <1>8 DEF Ready, AtRest, Behind
  <1> QED  BY <1>3, <1>4, <1>5, <1>7, <1>9

\* The files when the file before cannot be finalized.
LEMMA FinalizeTrims ==
    ASSUME DInv, wr.open => Full, dst' = dst \/ dst' = DstAfter(wr),
           part' = part \/ part' = PartAfter(wr), digest' = digest \/ digest' = DigestAfter(wr),
           UNCHANGED src, HistGrows
    PROVE  digest' \in [Files -> 0 .. MaxVersion] /\ FileTypes' /\ StoredIntact' /\ KeptStays
  <1>1. part \in [Files -> Content] /\ digest \in [Files -> 0 .. MaxVersion]
    BY DEF DInv, TypeOK, FileTypes
  <1>2. /\ part' \in [Files -> Content] /\ digest' \in [Files -> 0 .. MaxVersion]
        /\ \A f \in Files : /\ part'[f] = part[f] \/ part'[f] = NoFile
                            /\ digest'[f] = digest[f] \/ digest'[f] = 0
    BY <1>1, AfterTrims
  <1> QED  BY <1>2, Trimmed

\* Removing a partial file.
LEMMA Removed ==
    ASSUME DInv, RemoveDownload(wr), UNCHANGED <<src, dst>>, HistGrows
    PROVE  digest' \in [Files -> 0 .. MaxVersion] /\ FileTypes' /\ StoredIntact' /\ KeptStays
  <1>1. part \in [Files -> Content] /\ digest \in [Files -> 0 .. MaxVersion]
    BY DEF DInv, TypeOK, FileTypes
  <1>2. \/ UNCHANGED <<part, digest>>
        \/ \E n : part' = [part EXCEPT ![n] = NoFile] /\ digest' = [digest EXCEPT ![n] = 0]
    BY DEF RemoveDownload
  <1>3. /\ part' \in [Files -> Content] /\ digest' \in [Files -> 0 .. MaxVersion]
        /\ \A f \in Files : /\ part'[f] = part[f] \/ part'[f] = NoFile
                            /\ digest'[f] = digest[f] \/ digest'[f] = 0
    BY <1>1, <1>2, AlsoRemoved
  <1> QED  BY <1>3, Trimmed

\* Done finalizes the last file: then all files are kept.
LEMMA AllFinalized ==
    ASSUME DInv, AtRest(NumFiles), dst' = DstAfter(wr), part' = PartAfter(wr),
           digest' = DigestAfter(wr), UNCHANGED <<src, omitted, passed, ignored, holed>>
    PROVE  /\ digest' \in [Files -> 0 .. MaxVersion]
           /\ FileTypes' /\ StoredIntact' /\ KeptStays
           /\ Settled \/ KeptBefore(NumFiles)'
  <1>1. digest' \in [Files -> 0 .. MaxVersion] /\ FileTypes' /\ StoredIntact' /\ KeptStays
    BY FinalizeTrims DEF AtRest, HistGrows
  <1>2. \A f \in Files : (wr.open /\ wr.num = f) => Kept(f)'
    BY Finalized DEF AtRest, Kept, Stored, Ok, Spoiled
  <1>3. \A f \in Files : dst'[f] = dst[f] \/ Kept(f)'
    BY <1>2, Finalized DEF AtRest
  <1>4. \A f \in Files : Kept(f) => Kept(f)'
    BY <1>3, KeptGrows DEF HistGrows
  <1>5. Settled \/ KeptBefore(NumFiles)'
    BY <1>2, <1>4 DEF KeptBefore, AtRest, Behind
  <1> QED  BY <1>1, <1>5

----------------------------------------------------------------------------
(* What a step does to a channel.                                          *)

\* The reader sends m.
LEMMA ReaderSends ==
    ASSUME IInv, DInv, NEW m, IF Writer \in alive THEN Pushed(toW, toW', m) ELSE toW' = toW,
           toW # <<>> => Follows(Final(toW), m, Spoiled), ToWriter(m)',
           (toW = <<>> /\ wr.on) => CanTake(m)',
           UNCHANGED <<wr, src, dst, part, digest>>, Lasting
    PROVE  /\ FileTypes' /\ PartSound' /\ StoredIntact' /\ KeptStays /\ ReadyStays
           /\ InOrder' /\ HeadReady' /\ \A x \in Elems(toW') : ToWriter(x)'
           /\ \/ /\ toW' # <<>> /\ Final(toW') = m
                 /\ First(toW') = IF toW = <<>> THEN m ELSE First(toW)
              \/ toW' = <<>> /\ ~wr.on
  <1>1. FileTypes' /\ PartSound' /\ StoredIntact' /\ KeptStays /\ ReadyStays
    BY WriterUntouched
  <1>2. \A x \in Elems(toW) : ToWriter(x)'
    BY <1>1, ToWriterStays DEF DInv, Messages
  <1>3. CASE Writer \in alive
    <2>1. Pushed(toW, toW', m)
      BY <1>3
    <2>2. InOrder'
      <3>1. Chain(toW', Spoiled)
        BY <2>1 DEF DInv, InOrder, Pushed
      <3> QED  BY <1>1, <3>1, ChainGrows DEF InOrder, KeptStays
    <2>3. \A x : CanTake(x) => CanTake(x)'
      BY <1>1 DEF CanTake, ReadyStays, Lasting, HistGrows
    <2>4. HeadReady'
      BY <2>3 DEF DInv, HeadReady, Pushed
    <2> QED  BY <1>1, <1>2, <2>1, <2>2, <2>4 DEF Pushed
  <1>4. CASE Writer \notin alive
    <2>1. toW' = toW /\ toW = <<>> /\ ~wr.on
      BY <1>4, NoJobs DEF IInv, GoneEnds
    <2>2. InOrder'
      BY <1>1, <2>1, OrderStays DEF DInv, InOrder
    <2> QED  BY <1>1, <1>2, <2>1, <2>2 DEF HeadReady
  <1> QED  BY <1>3, <1>4

\* Nothing happens to the writer, its channel and the files.
LEMMA WriterIdle ==
    ASSUME DInv, UNCHANGED <<wr, toW, src, dst, part, digest>>, Lasting
    PROVE  /\ FileTypes' /\ PartSound' /\ StoredIntact' /\ KeptStays /\ ReadyStays
           /\ InOrder' /\ HeadReady' /\ \A x \in Elems(toW') : ToWriter(x)'
  <1>1. FileTypes' /\ PartSound' /\ StoredIntact' /\ KeptStays /\ ReadyStays
    BY WriterUntouched
  <1>2. \A x \in Elems(toW') : ToWriter(x)'
    BY <1>1, ToWriterStays DEF DInv, Messages
  <1>3. \A x : CanTake(x) => CanTake(x)'
    BY <1>1 DEF CanTake, ReadyStays, Lasting, HistGrows
  <1>4. InOrder' /\ HeadReady'
    BY <1>1, <1>3, OrderStays DEF DInv, InOrder, HeadReady
  <1> QED  BY <1>1, <1>2, <1>4

\* The writer sends m, or does not when the reader has left.
LEMMA WriterSends ==
    ASSUME IInv, NEW m, toR' = (IF Reader \in alive THEN toR \o <<m>> ELSE toR),
           \A x \in Elems(toR) : ToReader(x)', Reader \in alive => ToReader(m)'
    PROVE  \A x \in Elems(toR') : ToReader(x)'
  <1>1. CASE Reader \in alive
    <2>1. Pushed(toR, toR', m)
      BY <1>1, PushedFacts DEF IInv, Shapes
    <2> QED  BY <1>1, <2>1 DEF Pushed
  <1>2. CASE Reader \notin alive
    BY <1>2
  <1> QED  BY <1>1, <1>2

\* Outcomes.
LEMMA OutcomeType ==
    ASSUME TypeOK, NEW o \in {"COMPLETED", "FAILED", "CANCELLED"}, Outcome(o)
    PROVE  /\ pending' \in {"none", "open", "finished"}
           /\ audit' \in {"none", "COMPLETED", "FAILED", "CANCELLED"}
  BY DEF TypeOK, Outcome

\* What the user is shown.
LEMMA ReportType ==
    ASSUME TypeOK, NEW o \in {"none", "done", "error", "cancelled"}, Report(o)
    PROVE  status' \in {"none", "done", "error", "cancelled"}
  BY DEF TypeOK, Report

----------------------------------------------------------------------------
(* Every action keeps the inductive invariant.                             *)

\* The reader opens a file: the writer is between files.
LEMMA ReadOpenData ==
    ASSUME IInv, DInv, ReadOpen
    PROVE  DInv'
  <1> PICK m : m = Msg("digest", rd.num, <<src[rd.num], IF rd.resume THEN 1 ELSE 0>>)
    OBVIOUS
  <1>1. /\ rd.on /\ ~rd.open /\ rd.num \in Files
        /\ UNCHANGED <<upload, audited, session, alive, started, wr, toR, prompt, paused, saved,
                       src, dst, part, digest, pending, audit, status, faults>>
        /\ UNCHANGED <<omitted, passed, ignored, holed>>
        /\ IF Writer \in alive THEN Pushed(toW, toW', m) ELSE toW' = toW
    BY PushedFacts DEF IInv, Shapes, ReadOpen, Tick, SendW, link, disk, ui, log, hist
  <1>2. m.t = "digest" /\ m.n = rd.num /\ m.p[1] = src[rd.num]
    BY DEF Msg
  <1>3. /\ rd'.on /\ rd'.num = rd.num /\ rd'.open /\ ~rd'.confirmed /\ rd'.pos = 0
        /\ rd'.ver = src[rd.num] /\ rd' \in ReadJob
    <2>1. src[rd.num] \in 0 .. MaxVersion /\ 0 \in Nat /\ 0 <= NumBlocks
      BY <1>1, TransferAssumption DEF DInv, TypeOK
    <2> QED  BY <1>1, <2>1 DEF DInv, TypeOK, ReadOpen, ReadJob
  <1>4. /\ FileTypes' /\ PartSound' /\ StoredIntact' /\ KeptStays /\ ReadyStays
        /\ InOrder' /\ HeadReady' /\ \A x \in Elems(toW') : ToWriter(x)'
        /\ \/ /\ toW' # <<>> /\ Final(toW') = m
              /\ First(toW') = IF toW = <<>> THEN m ELSE First(toW)
           \/ toW' = <<>> /\ ~wr.on
    <2>1. ReadyStays
      BY <1>1, WriterUntouched DEF Lasting, HistGrows, Settled
    <2>2. toW # <<>> => Follows(Final(toW), m, Spoiled)
      BY <1>1, <1>2 DEF DInv, TailReady, Follows, Ends
    <2>3. ToWriter(m)'
      BY <1>1, <1>2 DEF ToWriter
    <2>4. (toW = <<>> /\ wr.on) => CanTake(m)'
      BY <1>1, <1>2, <2>1 DEF DInv, ReaderReady, CanTake, ReadyStays
    <2> QED  BY <1>1, <2>2, <2>3, <2>4, ReaderSends DEF Lasting, HistGrows, Settled
  <1>5. TypeOK'
    BY <1>1, <1>3 DEF DInv, TypeOK
  <1>6. ReadSound'
    BY <1>1, <1>3, TransferAssumption DEF ReadSound
  <1>7. SavedKept'
    BY <1>1, <1>4 DEF DInv, SavedKept, KeptStays
  <1>8. Messages'
    BY <1>1, <1>4, ToReaderStays DEF DInv, Messages
  <1>9. TailReady' /\ ReaderReady'
    BY <1>2, <1>3, <1>4 DEF TailReady, ReaderReady
  <1>10. Prompts'
    BY <1>1 DEF IInv, OneQuestion, Prompts
  <1> QED  BY <1>4, <1>5, <1>6, <1>7, <1>8, <1>9, <1>10 DEF DInv

\* The reader sends a block, or the end of the file.
LEMMA ReadBlockData ==
    ASSUME IInv, DInv, ReadBlock
    PROVE  DInv'
  <1> PICK m : m = Msg("block", rd.num,
                       IF rd.pos < NumBlocks THEN <<rd.ver, rd.pos + 1>> ELSE EOF)
    OBVIOUS
  <1>1. /\ rd.on /\ rd.open /\ rd.confirmed
        /\ UNCHANGED <<upload, audited, session, alive, started, wr, toR, prompt, paused, saved,
                       src, dst, part, digest, pending, audit, status, faults>>
        /\ UNCHANGED <<omitted, passed, ignored, holed>>
        /\ IF Writer \in alive THEN Pushed(toW, toW', m) ELSE toW' = toW
    BY PushedFacts DEF IInv, Shapes, ReadBlock, Tick, SendW, link, disk, ui, log, hist
  <1>2. /\ rd.num \in Files /\ rd \in ReadJob /\ rd.ver = src[rd.num] /\ prompt = {}
        /\ src[rd.num] \in 1 .. MaxVersion
    BY <1>1 DEF IInv, JobSound, OneQuestion, DInv, TypeOK, ReadSound
  <1>3. /\ rd.pos \in Nat /\ rd.num \in Nat /\ rd.num < NumFiles
        /\ Ok(rd.num) => rd.pos <= NumBlocks
    BY <1>1, <1>2, TransferAssumption DEF ReadJob, Files, DInv, ReadSound
  <1>4. /\ m.t = "block" /\ m.n = rd.num
        /\ rd.num \in Spoiled \/ Index(m) = rd.pos + 1
        /\ IF rd.pos < NumBlocks
           THEN m.p # EOF /\ m.p = <<src[rd.num], rd.pos + 1>> /\ m.p[2] = rd.pos + 1
           ELSE m.p = EOF
    <2>1. m.t = "block" /\ m.n = rd.num
          /\ m.p = IF rd.pos < NumBlocks THEN <<rd.ver, rd.pos + 1>> ELSE EOF
      BY DEF Msg
    <2>2. <<src[rd.num], rd.pos + 1>> # EOF
      BY <1>2 DEF EOF
    <2>3. (Ok(rd.num) /\ ~(rd.pos < NumBlocks)) => rd.pos + 1 = NumBlocks + 1
      BY <1>3, TransferAssumption
    <2> QED  BY <1>2, <2>1, <2>2, <2>3 DEF Index, Ok
  <1>5. IF rd.pos < NumBlocks
        THEN rd' = [rd EXCEPT !.pos = rd.pos + 1]
        ELSE rd' = [rd EXCEPT !.num = rd.num + 1, !.open = FALSE, !.confirmed = FALSE]
    BY <1>2 DEF ReadBlock, Advance, ReadJob
  <1>6. /\ rd' \in ReadJob /\ rd'.on
        /\ IF rd.pos < NumBlocks
           THEN rd'.num = rd.num /\ rd'.open /\ rd'.confirmed /\ rd'.ver = rd.ver
                /\ rd'.pos = rd.pos + 1
           ELSE rd'.num = rd.num + 1 /\ ~rd'.open
    <2>1. rd.num + 1 \in 0 .. NumFiles /\ rd.pos + 1 \in Nat
      BY <1>3, TransferAssumption
    <2> QED  BY ZenonT(30), <1>1, <1>2, <1>5, <2>1 DEF ReadJob
  <1>7. /\ FileTypes' /\ PartSound' /\ StoredIntact' /\ KeptStays /\ ReadyStays
        /\ InOrder' /\ HeadReady' /\ \A x \in Elems(toW') : ToWriter(x)'
        /\ \/ /\ toW' # <<>> /\ Final(toW') = m
              /\ First(toW') = IF toW = <<>> THEN m ELSE First(toW)
           \/ toW' = <<>> /\ ~wr.on
    <2>1. ReadyStays
      BY <1>1, WriterUntouched DEF Lasting, HistGrows, Settled
    <2>2. toW # <<>> => Follows(Final(toW), m, Spoiled)
      <3>1. toW # <<>> => Sends(Final(toW), rd.num, rd.pos + 1, Spoiled)
        BY <1>1 DEF DInv, TailReady
      <3> QED  BY <1>4, <3>1 DEF Follows, Sends
    <2>3. ToWriter(m)'
      <3>1. rd.pos < NumBlocks => rd.pos + 1 \in 1 .. NumBlocks
        BY <1>3, TransferAssumption
      <3> QED  BY <1>1, <1>2, <1>4, <3>1 DEF ToWriter
    <2>4. (toW = <<>> /\ wr.on) => CanTake(m)'
      <3> SUFFICES ASSUME toW = <<>>, wr.on  PROVE  CanTake(m)'
        OBVIOUS
      <3>1. Ready(rd.num, rd.pos + 1)
        BY <1>1 DEF DInv, ReaderReady
      <3>2. Ready(rd.num, Index(m))
        BY <1>4, <3>1 DEF Ready, Ok
      <3>3. Ready(m.n, Index(m))'
        BY <1>4, <2>1, <3>2 DEF ReadyStays, Index
      <3> QED  BY <1>4, <3>3 DEF CanTake
    <2> QED  BY <1>1, <2>2, <2>3, <2>4, ReaderSends DEF Lasting, HistGrows, Settled
  <1>8. TypeOK'
    BY <1>1, <1>6 DEF DInv, TypeOK
  <1>9. ReadSound'
    <2>1. rd.pos < NumBlocks => rd.pos + 1 <= NumBlocks
      BY <1>3, TransferAssumption
    <2> QED  BY <1>1, <1>2, <1>6, <2>1 DEF ReadSound
  <1>10. SavedKept'
    BY <1>1, <1>7 DEF DInv, SavedKept, KeptStays
  <1>11. Messages'
    BY <1>1, <1>7, ToReaderStays DEF DInv, Messages
  <1>12. TailReady' /\ ReaderReady'
    BY <1>1, <1>4, <1>6, <1>7 DEF TailReady, ReaderReady, Sends, Ends, Spoiled
  <1>13. Prompts'
    BY <1>1, <1>2 DEF Prompts
  <1> QED  BY <1>7, <1>8, <1>9, <1>10, <1>11, <1>12, <1>13 DEF DInv

\* A failed read: the reader goes on with the next file, the writer gives up.
LEMMA ReadFaultData ==
    ASSUME IInv, DInv, ReadFault
    PROVE  DInv'
  <1> PICK m : m = Msg("error", rd.num + 1, EOF)
    OBVIOUS
  <1>1. /\ rd.on /\ rd.open /\ rd.confirmed /\ faults' \subseteq FaultKinds
        /\ UNCHANGED <<upload, audited, session, alive, started, wr, toR, prompt, paused, saved,
                       src, dst, part, digest, pending, audit, status>>
        /\ UNCHANGED <<omitted, passed, ignored, holed>>
        /\ IF Writer \in alive THEN Pushed(toW, toW', m) ELSE toW' = toW
    BY PushedFacts DEF IInv, Shapes, DInv, TypeOK, ReadFault, Fault, Tick, SendW, link, disk, ui,
                       log, hist
  <1>2. m.t = "error"
    BY DEF Msg
  <1>3. rd \in ReadJob /\ rd.num + 1 \in 0 .. NumFiles /\ prompt = {}
    <2>1. rd \in ReadJob /\ prompt = {}
      BY <1>1 DEF IInv, OneQuestion, DInv, TypeOK
    <2>2. rd.num \in Files
      BY <1>1 DEF IInv, JobSound
    <2> QED  BY <2>1, <2>2, TransferAssumption DEF Files
  <1>4. rd' \in ReadJob /\ rd'.on /\ ~rd'.open
    BY <1>1, <1>3 DEF ReadFault, Advance, ReadJob
  <1>5. /\ FileTypes' /\ PartSound' /\ StoredIntact' /\ KeptStays /\ ReadyStays
        /\ InOrder' /\ HeadReady' /\ \A x \in Elems(toW') : ToWriter(x)'
        /\ \/ /\ toW' # <<>> /\ Final(toW') = m
              /\ First(toW') = IF toW = <<>> THEN m ELSE First(toW)
           \/ toW' = <<>> /\ ~wr.on
    <2>1. toW # <<>> => Follows(Final(toW), m, Spoiled)
      BY <1>1, <1>2 DEF DInv, TailReady, Follows, Sends
    <2>2. ToWriter(m)' /\ CanTake(m)'
      BY <1>2 DEF ToWriter, CanTake
    <2> QED  BY <1>1, <2>1, <2>2, ReaderSends DEF Lasting, HistGrows, Settled
  <1>6. TypeOK'
    BY <1>1, <1>4 DEF DInv, TypeOK
  <1>7. ReadSound'
    BY <1>4 DEF ReadSound
  <1>8. SavedKept'
    BY <1>1, <1>5 DEF DInv, SavedKept, KeptStays
  <1>9. Messages'
    BY <1>1, <1>5, ToReaderStays DEF DInv, Messages
  <1>10. TailReady' /\ ReaderReady'
    BY <1>1, <1>2, <1>4, <1>5 DEF TailReady, ReaderReady, Ends
  <1>11. Prompts'
    BY <1>1, <1>3 DEF Prompts
  <1> QED  BY <1>5, <1>6, <1>7, <1>8, <1>9, <1>10, <1>11 DEF DInv

\* The reader has finished, with a last message m.
LEMMA ReaderFinishes ==
    ASSUME IInv, DInv, NEW m, rd.on, ~rd.open, rd' = NoRead,
           IF Writer \in alive THEN Pushed(toW, toW', m) ELSE toW' = toW,
           m.t = "error" \/ (m.t = "done" /\ rd.num = NumFiles /\ m.n = NumFiles),
           IF upload THEN UNCHANGED log
           ELSE \/ Outcome("FAILED")
                \/ /\ pending' = IF pending = "none" THEN "none" ELSE "finished"
                   /\ UNCHANGED audit,
           faults' \subseteq FaultKinds, UNCHANGED <<link, wr, toR, disk, ui, src, hist>>
    PROVE  DInv'
  <1>1. /\ UNCHANGED <<upload, audited, session, alive, started, wr, toR, prompt, paused, saved,
                       src, dst, part, digest, status>>
        /\ UNCHANGED <<omitted, passed, ignored, holed>> /\ Lasting
    BY DEF link, disk, ui, hist, log, Lasting, HistGrows, Settled
  <1>2. /\ pending' \in {"none", "open", "finished"}
        /\ audit' \in {"none", "COMPLETED", "FAILED", "CANCELLED"}
    BY OutcomeType DEF DInv, TypeOK, log
  <1>3. prompt = {} /\ ~rd'.on /\ ~rd'.open /\ rd' \in ReadJob
    BY NoJobs, NoJobTypes DEF IInv, OneQuestion
  <1>4. /\ FileTypes' /\ PartSound' /\ StoredIntact' /\ KeptStays /\ ReadyStays
        /\ InOrder' /\ HeadReady' /\ \A x \in Elems(toW') : ToWriter(x)'
    <2>1. ReadyStays
      BY <1>1, WriterUntouched
    <2>2. toW # <<>> => Follows(Final(toW), m, Spoiled)
      BY DEF DInv, TailReady, Follows, Ends
    <2>3. ToWriter(m)'
      BY DEF ToWriter
    <2>4. (toW = <<>> /\ wr.on) => CanTake(m)'
      BY <2>1 DEF DInv, ReaderReady, CanTake, ReadyStays
    <2> QED  BY <1>1, <2>2, <2>3, <2>4, ReaderSends
  <1>5. TypeOK'
    BY <1>1, <1>2, <1>3 DEF DInv, TypeOK
  <1>6. ReadSound' /\ TailReady' /\ ReaderReady' /\ Prompts'
    BY <1>1, <1>3 DEF ReadSound, TailReady, ReaderReady, Prompts
  <1>7. SavedKept'
    BY <1>1, <1>4 DEF DInv, SavedKept, KeptStays
  <1>8. Messages'
    BY <1>1, <1>4, ToReaderStays DEF DInv, Messages
  <1> QED  BY <1>4, <1>5, <1>6, <1>7, <1>8 DEF DInv

\* A file that cannot be opened ends the job: the writer is told twice.
LEMMA ReadOpenFaultData ==
    ASSUME IInv, DInv, ReadOpenFault
    PROVE  DInv'
  <1> DEFINE r == [Advance(rd) EXCEPT !.error = TRUE]
  <1> PICK e : e = Msg("error", r.num, EOF)
    OBVIOUS
  <1>1. r.error
    BY DEF IInv, Shapes, IsRead, Advance
  <1>2. /\ rd.on /\ ~rd.open /\ rd' = NoRead
        /\ IF upload THEN UNCHANGED log ELSE Outcome("FAILED")
        /\ faults' \subseteq FaultKinds /\ UNCHANGED <<link, wr, toR, disk, ui, src, hist>>
    BY DEF DInv, TypeOK, ReadOpenFault, Fault, Finish, Tick
  <1>3. e.t = "error"
    BY DEF Msg
  <1>4. toW' = IF Writer \in alive THEN toW \o (<<e>> \o <<e>>) ELSE toW
    BY <1>1 DEF ReadOpenFault, Finish, SendW
  <1>5. IF Writer \in alive THEN Pushed(toW, toW', e) ELSE toW' = toW
    <2> PICK M : toW \in Seq(M)
      BY DEF IInv, Shapes, IsChannel
    <2> DEFINE N == M \cup {e}
               s == toW \o <<e>>
    <2>1. toW \in Seq(N) /\ <<e>> \in Seq(N)
      OBVIOUS
    <2>2. toW \o (<<e>> \o <<e>>) = s \o <<e>>
      BY <2>1, ConcatAssociative
    <2>3. s \in Seq(N)
      BY <2>1
    <2>4. IsChannel(toW) /\ IsChannel(s)
      BY <2>1, <2>3 DEF IsChannel
    <2>5. Pushed(toW, s, e) /\ Pushed(s, s \o <<e>>, e)
      BY <2>4, PushedFacts
    <2>6. \A I : Follows(e, e, I)
      BY <1>3 DEF Follows
    <2> HIDE DEF s
    <2>7. Pushed(toW, s \o <<e>>, e)
      BY <2>5, <2>6 DEF Pushed
    <2> QED  BY <1>4, <2>2, <2>7
  <1> QED  BY <1>2, <1>3, <1>5, ReaderFinishes

\* The reader comes to the end of its files.
LEMMA ReadFinishData ==
    ASSUME IInv, DInv, ReadFinish
    PROVE  DInv'
  <1> DEFINE bad == rd.error \/ (rd.skipped /\ NumFiles = 1)
  <1> PICK m : m = Msg(IF bad THEN "error" ELSE "done", rd.num, EOF)
    OBVIOUS
  <1>1. rd.num = NumFiles /\ rd.on /\ ~rd.open
    <2>1. NumFiles \notin Files
      BY TransferAssumption DEF Files
    <2> QED  BY <2>1 DEF ReadFinish, Tick, IInv, JobSound
  <1>2. m.t = "error" \/ (m.t = "done" /\ m.n = NumFiles)
    BY <1>1 DEF Msg
  <1>3. IF Writer \in alive THEN Pushed(toW, toW', m) ELSE toW' = toW
    BY PushedFacts DEF IInv, Shapes, ReadFinish, Finish, SendW
  <1>4. /\ rd' = NoRead
        /\ IF upload THEN UNCHANGED log
           ELSE \/ Outcome("FAILED")
                \/ /\ pending' = IF pending = "none" THEN "none" ELSE "finished"
                   /\ UNCHANGED audit
        /\ faults' \subseteq FaultKinds /\ UNCHANGED <<link, wr, toR, disk, ui, src, hist>>
    BY DEF DInv, TypeOK, ReadFinish, Finish
  <1> QED  BY <1>1, <1>2, <1>3, <1>4, ReaderFinishes

\* What is on its way to the reader stays true when the writer gives up.
LEMMA ToReaderGone ==
    ASSUME UNCHANGED upload, wr' = NoWrite, KeptStays
    PROVE  \A m : ToReader(m) => ToReader(m)'
  <1>1. \A f : Ok(f)' => Ok(f)
    BY DEF Ok, KeptStays
  <1> QED  BY <1>1, NoJobs, NoJobTypes DEF ToReader, KeptStays

\* The user starts a job: the session was empty.
LEMMA BeginData ==
    ASSUME IInv, DInv, NEW n \in 0 .. NumFiles, NEW res \in BOOLEAN, KeptBefore(n), Begin(n, res),
           paused' \subseteq paused,
           UNCHANGED <<link, disk, prompt, saved, status, log, src, faults,
                       omitted, passed, ignored, holed>>
    PROVE  DInv'
  <1> PICK m : m = Msg("start", n, EOF)
    OBVIOUS
  <1>1. m.t = "start" /\ m.n = n
    BY DEF Msg
  <1>2. /\ rd = NoRead /\ wr = NoWrite /\ toR = <<>> /\ toW = <<>> /\ prompt = {}
        /\ ~rd.on /\ ~rd.open /\ ~wr.on /\ ~wr.open
    BY NoJobs, NoJobTypes DEF Begin, IInv, NotStarted
  <1>3. /\ UNCHANGED <<upload, audited, session, alive, prompt, saved, src, dst, part, digest,
                       pending, audit, status, faults>>
        /\ UNCHANGED <<omitted, passed, ignored, holed>> /\ started' = TRUE
    BY DEF Begin, link, disk, log
  <1>4. /\ LET r == NewRead(n, res) IN r \in ReadJob /\ r.on /\ ~r.open /\ r.num = n
        /\ LET w == NewWrite(n, res) IN w \in WriteJob /\ w.on /\ ~w.open
    BY NoJobs, NoJobTypes DEF NewRead, NewWrite, ReadJob, WriteJob
  <1>5. FileTypes' /\ StoredIntact' /\ KeptStays
    BY <1>3, FilesUntouched DEF HistGrows
  <1>6. SavedKept'
    BY <1>5 DEF DInv, SavedKept, KeptStays
  <1>7. CASE upload
    <2>1. /\ rd' = NewRead(n, res) /\ UNCHANGED <<wr, toR>>
          /\ IF Writer \in alive THEN Pushed(toW, toW', m) ELSE toW' = toW
      BY <1>7, PushedFacts DEF IInv, Shapes, Begin, SendW
    <2>2. ToWriter(m)'
      BY <1>1, <1>5 DEF ToWriter, KeptStays
    <2>3. /\ PartSound' /\ InOrder' /\ HeadReady' /\ \A x \in Elems(toW') : ToWriter(x)'
          /\ \/ /\ toW' # <<>> /\ Final(toW') = m
             \/ toW' = <<>> /\ ~wr.on
      BY <1>2, <1>3, <2>1, <2>2, ReaderSends DEF Lasting, HistGrows, Settled
    <2>4. TypeOK'
      BY <1>3, <1>4, <2>1 DEF DInv, TypeOK
    <2>5. ReadSound' /\ TailReady' /\ ReaderReady' /\ Prompts'
      BY <1>1, <1>2, <1>4, <2>1, <2>3 DEF ReadSound, TailReady, ReaderReady, Prompts, Ends
    <2>6. Messages'
      BY <1>2, <2>1, <2>3, NothingSent DEF Messages
    <2> QED  BY <1>5, <1>6, <2>3, <2>4, <2>5, <2>6 DEF DInv
  <1>8. CASE ~upload
    <2>1. /\ wr' = NewWrite(n, res) /\ UNCHANGED <<rd, toW>>
          /\ toR' = (IF Reader \in alive THEN toR \o <<m>> ELSE toR)
      BY <1>8 DEF Begin, SendR
    <2>2. ToReader(m)'
      BY <1>1, <1>4, <1>5, <2>1 DEF ToReader, KeptStays, Answers
    <2>3. Messages'
      BY <1>2, <2>1, <2>2, WriterSends, NothingSent DEF Messages
    <2>4. TypeOK'
      BY <1>3, <1>4, <2>1 DEF DInv, TypeOK
    <2>5. PartSound' /\ ReadSound' /\ HeadReady' /\ TailReady' /\ ReaderReady' /\ Prompts'
      BY <1>2, <1>4, <2>1 DEF PartSound, ReadSound, HeadReady, TailReady, ReaderReady, Prompts
    <2>6. InOrder'
      BY <1>2, <2>1, NothingSent DEF InOrder
    <2> QED  BY <1>5, <1>6, <2>3, <2>4, <2>5, <2>6 DEF DInv
  <1> QED  BY <1>7, <1>8

\* The user cancels the job.
LEMMA CancelData ==
    ASSUME IInv, DInv, CancelJob
    PROVE  DInv'
  <1> PICK m : m = Msg("cancel", 0, EOF)
    OBVIOUS
  <1>1. m.t = "cancel"
    BY DEF Msg
  <1>2. /\ UNCHANGED <<upload, audited, session, alive, started, prompt, paused, saved, src, dst,
                       pending, audit, faults>>
        /\ UNCHANGED <<omitted, passed, ignored, holed>> /\ status' = "cancelled"
    BY DEF CancelJob, link, log, hist
  <1>3. CASE upload
    <2>1. /\ rd.on /\ rd' = NoRead /\ UNCHANGED <<wr, toR, part, digest>>
          /\ IF Writer \in alive THEN Pushed(toW, toW', m) ELSE toW' = toW
      BY <1>3, PushedFacts DEF IInv, Shapes, CancelJob, SendW
    <2>2. ~rd'.on /\ ~rd'.open /\ rd' \in ReadJob
      BY <2>1, NoJobs, NoJobTypes
    <2>3. toW # <<>> => Follows(Final(toW), m, Spoiled)
      BY <1>1, <2>1 DEF DInv, TailReady, Follows, Ends, Sends
    <2>4. ToWriter(m)' /\ CanTake(m)'
      BY <1>1 DEF ToWriter, CanTake
    <2>5. /\ FileTypes' /\ PartSound' /\ StoredIntact' /\ KeptStays /\ ReadyStays
          /\ InOrder' /\ HeadReady' /\ \A x \in Elems(toW') : ToWriter(x)'
          /\ \/ /\ toW' # <<>> /\ Final(toW') = m
                /\ First(toW') = IF toW = <<>> THEN m ELSE First(toW)
             \/ toW' = <<>> /\ ~wr.on
      BY <1>2, <2>1, <2>3, <2>4, ReaderSends DEF Lasting, HistGrows, Settled
    <2>6. TypeOK'
      BY <1>2, <2>1, <2>2 DEF DInv, TypeOK
    <2>7. ReadSound' /\ TailReady' /\ ReaderReady'
      BY <2>2 DEF ReadSound, TailReady, ReaderReady
    <2>8. Prompts'
      BY <1>1, <1>2, <2>2, <2>5 DEF DInv, Prompts
    <2>9. SavedKept'
      BY <1>2, <2>5 DEF DInv, SavedKept, KeptStays
    <2>10. Messages'
      BY <1>2, <2>1, <2>5, ToReaderStays DEF DInv, Messages
    <2> QED  BY <2>5, <2>6, <2>7, <2>8, <2>9, <2>10 DEF DInv
  <1>4. CASE ~upload
    <2>1. /\ wr' = NoWrite /\ UNCHANGED <<rd, toW>> /\ RemoveDownload(wr)
          /\ toR' = (IF Reader \in alive THEN toR \o <<m>> ELSE toR)
      BY <1>4 DEF CancelJob, SendR
    <2>2. ~wr'.on /\ ~wr'.open /\ wr' \in WriteJob
      BY <2>1, NoJobs, NoJobTypes
    <2>3. digest' \in [Files -> 0 .. MaxVersion] /\ FileTypes' /\ StoredIntact' /\ KeptStays
      BY <1>2, <2>1, Removed DEF HistGrows
    <2>4. TypeOK'
      BY <1>2, <2>1, <2>2, <2>3 DEF DInv, TypeOK, FileTypes, Content
    <2>5. PartSound' /\ HeadReady' /\ ReaderReady'
      BY <2>2 DEF PartSound, HeadReady, ReaderReady
    <2>6. ReadSound' /\ InOrder' /\ TailReady' /\ Prompts'
      BY <1>2, <2>1, <2>2 DEF DInv, ReadSound, InOrder, TailReady, Prompts, Spoiled, Ok
    <2>7. SavedKept'
      BY <1>2, <2>3 DEF DInv, SavedKept, KeptStays
    <2>8. \A x \in Elems(toW') : ToWriter(x)'
      BY <1>2, <2>1, <2>3, ToWriterStays DEF DInv, Messages
    <2>9. \A x \in Elems(toR') : ToReader(x)'
      <3>1. ToReader(m)'
        BY <1>1 DEF ToReader, Answers
      <3>2. \A x \in Elems(toR) : ToReader(x)'
        BY <1>2, <2>1, <2>3, ToReaderGone DEF DInv, Messages
      <3> QED  BY <2>1, <3>1, <3>2, WriterSends
    <2> QED  BY <2>3, <2>4, <2>5, <2>6, <2>7, <2>8, <2>9 DEF DInv, Messages
  <1> QED  BY <1>3, <1>4

\* One of the ends leaves: its job and the messages to it are gone.
LEMMA EndGone ==
    ASSUME IInv, DInv, alive' \subseteq alive, prompt' \subseteq prompt,
           \/ rd' = NoRead /\ toR' = <<>> /\ UNCHANGED <<wr, toW>>
           \/ wr' = NoWrite /\ toW' = <<>> /\ UNCHANGED <<rd, toR>>,
           SavedKept', saved' \subseteq 0 .. NumFiles, paused' \subseteq 0 .. NumFiles,
           pending' \in {"none", "open", "finished"},
           audit' \in {"none", "COMPLETED", "FAILED", "CANCELLED"},
           UNCHANGED <<upload, audited, session, disk, started, status, src, faults>>, Lasting
    PROVE  DInv'
  <1>1. UNCHANGED <<dst, part, digest>>
    BY DEF disk
  <1>2. CASE rd' = NoRead /\ toR' = <<>> /\ UNCHANGED <<wr, toW>>
    <2>1. ~rd'.on /\ ~rd'.open /\ rd' \in ReadJob
      BY <1>2, NoJobs, NoJobTypes
    <2>2. /\ FileTypes' /\ PartSound' /\ StoredIntact' /\ KeptStays /\ ReadyStays
          /\ InOrder' /\ HeadReady' /\ \A x \in Elems(toW') : ToWriter(x)'
      BY <1>1, <1>2, WriterIdle
    <2>3. TypeOK'
      BY <1>1, <1>2, <2>1 DEF DInv, TypeOK
    <2>4. ReadSound' /\ TailReady' /\ ReaderReady' /\ Prompts'
      BY <2>1 DEF DInv, ReadSound, TailReady, ReaderReady, Prompts
    <2>5. Messages'
      BY <1>2, <2>2, NothingSent DEF Messages
    <2> QED  BY <2>2, <2>3, <2>4, <2>5 DEF DInv
  <1>3. CASE wr' = NoWrite /\ toW' = <<>> /\ UNCHANGED <<rd, toR>>
    <2>1. ~wr'.on /\ ~wr'.open /\ wr' \in WriteJob
      BY <1>3, NoJobs, NoJobTypes
    <2>2. FileTypes' /\ StoredIntact' /\ KeptStays /\ \A f : Ok(f)' => Ok(f)
      BY <1>1, FilesUntouched DEF Lasting
    <2>3. TypeOK'
      BY <1>1, <1>3, <2>1 DEF DInv, TypeOK
    <2>4. PartSound' /\ HeadReady' /\ ReaderReady' /\ TailReady' /\ Prompts' /\ ReadSound'
      BY <1>3, <2>1, <2>2 DEF DInv, PartSound, HeadReady, ReaderReady, TailReady, Prompts, ReadSound
    <2>5. InOrder'
      BY <1>3, NothingSent DEF InOrder
    <2>6. Messages'
      BY <1>3, <2>2, NothingSent, ToReaderGone DEF DInv, Messages
    <2> QED  BY <2>2, <2>3, <2>4, <2>5, <2>6 DEF DInv
  <1> QED  BY <1>2, <1>3

\* The client leaves, and saves the file numbers of its jobs.
LEMMA ClientEndsData ==
    ASSUME IInv, DInv, NEW keep, keep \subseteq 0 .. NumFiles, ClientEnds(keep)
    PROVE  DInv'
  <1>1. /\ alive' \subseteq alive /\ prompt' = {} /\ paused' = {} /\ saved' = keep
        /\ passed' = passed \cup {f \in Files : ~Stored(f) /\ \E n \in keep : f < n}
        /\ UNCHANGED <<upload, audited, session, disk, started, status, src, faults>>
        /\ UNCHANGED <<omitted, ignored, holed, pending, audit>>
        /\ \/ rd' = NoRead /\ toR' = <<>> /\ UNCHANGED <<wr, toW>>
           \/ wr' = NoWrite /\ toW' = <<>> /\ UNCHANGED <<rd, toR>>
    BY DEF ClientEnds, log
  <1>2. SavedKept'
    <2> SUFFICES ASSUME NEW n \in keep, NEW f \in Files, f < n  PROVE  Kept(f)'
      BY <1>1 DEF SavedKept, KeptBefore
    <2>1. dst' = dst
      BY <1>1 DEF disk
    <2>2. Stored(f) => Stored(f)'
      BY <2>1 DEF Stored
    <2> QED  BY <1>1, <2>2 DEF Kept
  <1>3. /\ pending' \in {"none", "open", "finished"}
        /\ audit' \in {"none", "COMPLETED", "FAILED", "CANCELLED"}
    BY <1>1 DEF DInv, TypeOK
  <1> QED  BY <1>1, <1>2, <1>3, EndGone DEF Lasting, HistGrows, Settled

\* The client closes its session, with the jobs it has and those that wait.
LEMMA ClientCloseData ==
    ASSUME IInv, DInv, ClientClose
    PROVE  DInv'
  <1>1. paused \cup JobNumber \subseteq 0 .. NumFiles
    BY DEF DInv, TypeOK, JobNumber, ReadJob, WriteJob
  <1> QED  BY <1>1, ClientEndsData DEF ClientClose

\* The client crashes: the saved numbers stay as they are.
LEMMA ClientCrashData ==
    ASSUME IInv, DInv, ClientCrash
    PROVE  DInv'
  <1>1. saved \subseteq 0 .. NumFiles
    BY DEF DInv, TypeOK
  <1> QED  BY <1>1, ClientEndsData DEF ClientCrash

\* The host leaves.
LEMMA HostCloseData ==
    ASSUME IInv, DInv, HostClose
    PROVE  DInv'
  <1>1. /\ alive' \subseteq alive
        /\ UNCHANGED <<upload, audited, session, disk, started, status, src, faults>>
        /\ UNCHANGED <<prompt, paused, saved, omitted, passed, ignored, holed>> /\ Lasting
        /\ \/ rd' = NoRead /\ toR' = <<>> /\ UNCHANGED <<wr, toW>>
           \/ wr' = NoWrite /\ toW' = <<>> /\ UNCHANGED <<rd, toR>>
    BY DEF HostClose, ui, hist, Lasting, HistGrows, Settled
  <1>2. /\ pending' \in {"none", "open", "finished"}
        /\ audit' \in {"none", "COMPLETED", "FAILED", "CANCELLED"}
        /\ saved' \subseteq 0 .. NumFiles /\ paused' \subseteq 0 .. NumFiles
    BY <1>1 DEF HostClose, DInv, TypeOK
  <1>3. SavedKept'
    <2>1. KeptStays
      BY <1>1, FilesUntouched DEF HistGrows, disk
    <2> QED  BY <1>1, <2>1 DEF DInv, SavedKept, KeptStays
  <1> QED  BY <1>1, <1>2, <1>3, EndGone

\* The troubles that are counted are numbers.
LEMMA TroubleType ==
    ASSUME TypeOK
    PROVE  /\ Cardinality(faults) \in Nat
           /\ Cardinality({f \in Files : src[f] > 1}) \in Nat
  <1>1. IsFiniteSet(AnyFault)
    <2>1. \A S, x : IsFiniteSet(S) => IsFiniteSet(S \cup {x})
      BY FS_AddElement
    <2> DEFINE three == (({} \cup {"open"}) \cup {"read"}) \cup {"stat"}
    <2>2. IsFiniteSet(three)
      BY <2>1, FS_EmptySet
    <2>3. IsFiniteSet(((three \cup {"seek"}) \cup {"write"}) \cup {"finalize"})
      BY <2>1, <2>2
    <2>4. AnyFault = ((three \cup {"seek"}) \cup {"write"}) \cup {"finalize"}
      BY DEF AnyFault
    <2> QED  BY <2>3, <2>4
  <1>2. IsFiniteSet(faults)
    BY <1>1, FS_Subset, TransferAssumption DEF TypeOK
  <1>3. IsFiniteSet(Files)
    BY FS_Interval, TransferAssumption DEF Files
  <1>4. IsFiniteSet({f \in Files : src[f] > 1})
    BY <1>3, FS_Subset
  <1> QED  BY <1>2, <1>4, FS_CardinalityType

\* A new session: nothing was left of the last one.
LEMMA NewSessionData ==
    ASSUME IInv, DInv, NEW jobs, jobs \subseteq saved, NewSession(jobs),
           faults' \subseteq FaultKinds
    PROVE  DInv'
  <1>1. /\ alive = {} /\ alive' = {"client", "host"} /\ started' = FALSE /\ paused' = jobs
        /\ audit' = "none" /\ status' = "none"
        /\ UNCHANGED <<upload, audited, rd, wr, toR, toW, prompt, saved, pending, src, dst, part,
                       digest>>
        /\ UNCHANGED <<omitted, passed, ignored, holed>>
    BY DEF NewSession, ends, net, disk
  <1>2. session' \in 1 .. MaxTrouble
    <2>1. /\ session' = session + 1 /\ session \in 1 .. MaxTrouble
          /\ session + Cardinality(faults) + Cardinality({f \in Files : src[f] > 1}) < MaxTrouble
      BY DEF NewSession, Trouble, DInv, TypeOK
    <2>2. /\ Cardinality(faults) \in Nat
          /\ Cardinality({f \in Files : src[f] > 1}) \in Nat
      BY TroubleType DEF DInv
    <2> QED  BY <2>1, <2>2, TransferAssumption
  <1>3. /\ FileTypes' /\ PartSound' /\ StoredIntact' /\ KeptStays /\ ReadyStays
        /\ InOrder' /\ HeadReady' /\ \A x \in Elems(toW') : ToWriter(x)'
    BY <1>1, WriterIdle DEF Lasting, HistGrows, Settled
  <1>4. TypeOK'
    BY <1>1, <1>2 DEF DInv, TypeOK
  <1>5. SavedKept'
    BY <1>1, <1>3 DEF DInv, SavedKept, KeptStays
  <1>6. Messages'
    BY <1>1, <1>3, ToReaderStays DEF DInv, Messages
  <1>7. ~rd.on /\ ~rd.open
    BY <1>1, NoJobs DEF IInv, GoneEnds
  <1>8. ReadSound' /\ TailReady' /\ ReaderReady' /\ Prompts'
    BY <1>1, <1>7 DEF DInv, ReadSound, TailReady, ReaderReady, Prompts
  <1> QED  BY <1>3, <1>4, <1>5, <1>6, <1>8 DEF DInv

\* The jobs to be resumed are those that were saved, but for one whose files cannot
\* be listed.
LEMMA ConnectData ==
    ASSUME IInv, DInv, Connect \/ \E n \in saved : ConnectFault(n)
    PROVE  DInv'
  <1>1. faults' \subseteq FaultKinds
    BY DEF Connect, ConnectFault, Fault, DInv, TypeOK
  <1>2. \E jobs : jobs \subseteq saved /\ NewSession(jobs)
    BY DEF Connect, ConnectFault
  <1> QED  BY <1>1, <1>2, NewSessionData

\* The source is edited between sessions: no message and no job speaks of it.
LEMMA EditData ==
    ASSUME IInv, DInv, NEW f \in Files, Edit(f)
    PROVE  DInv'
  <1>1. /\ alive = {}
        /\ UNCHANGED <<upload, audited, session, alive, started, rd, wr, toR, toW, prompt, paused,
                       saved, dst, part, digest, pending, audit, status, faults>>
        /\ UNCHANGED <<omitted, passed, ignored, holed>>
    BY DEF Edit, link, ends, net, disk, ui, log, hist
  <1>2. rd = NoRead /\ wr = NoWrite /\ toR = <<>> /\ toW = <<>> /\ prompt = {}
    BY <1>1 DEF IInv, GoneEnds
  <1>3. ~rd.on /\ ~rd.open /\ ~wr.on /\ ~wr.open
    BY <1>2, NoJobs, NoJobTypes
  <1>4. src' \in [Files -> 1 .. MaxVersion]
    <2>1. src[f] \in 1 .. MaxVersion /\ src[f] < MaxVersion /\ src \in [Files -> 1 .. MaxVersion]
      BY DEF Edit, DInv, TypeOK
    <2>2. src[f] + 1 \in 1 .. MaxVersion
      BY <2>1, TransferAssumption
    <2> QED  BY <2>1, <2>2 DEF Edit
  <1>5. TypeOK' /\ FileTypes'
    BY <1>1, <1>4 DEF DInv, TypeOK, FileTypes, Ok, Spoiled
  <1>6. StoredIntact'
    BY <1>1 DEF DInv, StoredIntact
  <1>7. SavedKept'
    BY <1>1 DEF DInv, SavedKept, KeptBefore, Kept, Stored
  <1>8. PartSound' /\ ReadSound' /\ HeadReady' /\ TailReady' /\ ReaderReady' /\ Prompts'
    BY <1>1, <1>2, <1>3 DEF PartSound, ReadSound, HeadReady, TailReady, ReaderReady, Prompts
  <1>9. Messages' /\ InOrder'
    BY <1>1, <1>2, NothingSent DEF Messages, InOrder
  <1> QED  BY <1>5, <1>6, <1>7, <1>8, <1>9 DEF DInv

\* The writer takes a message: what the rest of the invariant needs is that it is
\* ready for what comes behind it.
LEMMA WriterGoesOn ==
    ASSUME IInv, DInv, toW # <<>>, toW' = Tail(toW),
           UNCHANGED <<upload, rd, src, saved, paused>>, KeptStays,
           wr'.on => /\ \A n, k : Sends(First(toW), n, k, Spoiled') => Ready(n, k)'
                     /\ \A n : Ends(First(toW), n) => AtRest(n)'
    PROVE  /\ InOrder' /\ HeadReady' /\ TailReady' /\ ReaderReady' /\ ReadSound' /\ SavedKept'
           /\ \A x \in Elems(toW') : ToWriter(x)'
           /\ \A x \in Elems(toR) : ToReader(x)'
  <1>1. Popped(toW, toW')
    BY PoppedFacts DEF IInv, Shapes
  <1>2. InOrder' /\ HeadReady' /\ TailReady' /\ ReaderReady'
    BY <1>1, TakenReady
  <1>3. ReadSound' /\ SavedKept'
    BY DEF DInv, ReadSound, SavedKept, KeptStays, Ok
  <1>4. \A x \in Elems(toW') : ToWriter(x)'
    BY <1>1, ToWriterStays DEF DInv, Messages, Popped
  <1> QED  BY <1>2, <1>3, <1>4, TakenReplies

\* ... and the user is asked nothing new.
LEMMA WriterTakes ==
    ASSUME IInv, DInv, toW # <<>>, toW' = Tail(toW),
           UNCHANGED <<upload, rd, src, prompt, saved, paused>>, KeptStays,
           wr'.on => /\ \A n, k : Sends(First(toW), n, k, Spoiled') => Ready(n, k)'
                     /\ \A n : Ends(First(toW), n) => AtRest(n)'
    PROVE  /\ InOrder' /\ HeadReady' /\ TailReady' /\ ReaderReady' /\ Prompts'
           /\ ReadSound' /\ SavedKept'
           /\ \A x \in Elems(toW') : ToWriter(x)'
           /\ \A x \in Elems(toR) : ToReader(x)'
  <1>1. Popped(toW, toW')
    BY PoppedFacts DEF IInv, Shapes
  <1>2. Prompts'
    <2>1. rd.on => prompt = {}
      BY NoAnswerYet
    <2>2. (toW' # <<>> /\ prompt # {}) => FALSE
      BY <1>1 DEF DInv, Prompts, Popped, InOrder, Follows
    <2> QED  BY <2>1, <2>2 DEF Prompts
  <1> QED  BY <1>2, WriterGoesOn

\* The reader takes a message.
LEMMA ReaderTakes ==
    ASSUME IInv, toR # <<>>, toR' = Tail(toR)
    PROVE  Head(toR) \in Elems(toR) /\ Elems(toR') \subseteq Elems(toR)
  BY PoppedFacts DEF IInv, Shapes, Popped

\* The host starts its job: the files before it are kept.
LEMMA HostStartData ==
    ASSUME IInv, DInv, HostStart
    PROVE  DInv'
  <1>1. /\ UNCHANGED <<upload, audited, session, alive, started, prompt, paused, saved, src, dst,
                       part, digest, audit, status, faults>>
        /\ UNCHANGED <<omitted, passed, ignored, holed>>
        /\ pending' \in {"none", "open", "finished"}
    BY DEF HostStart, link, disk, ui, hist
  <1>2. CASE upload
    <2> PICK m : m = Head(toW)
      OBVIOUS
    <2>1. /\ toW # <<>> /\ m.t = "start" /\ toW' = Tail(toW) /\ UNCHANGED <<rd, toR>>
          /\ wr' = NewWrite(m.n, FALSE)
      BY <1>2 DEF HostStart, RecvW
    <2>2. m = First(toW) /\ m.n \in 0 .. NumFiles /\ KeptBefore(m.n)
      BY <2>1, PoppedFacts DEF IInv, Shapes, Popped, DInv, Messages, ToWriter
    <2>3. wr' \in WriteJob /\ ~wr'.open
      BY <2>1, <2>2, NoJobTypes DEF NewWrite, WriteJob
    <2>4. FileTypes' /\ StoredIntact' /\ KeptStays
      BY <1>1, FilesUntouched DEF HistGrows
    <2>5. AtRest(m.n)'
      BY <2>2, <2>3, <2>4 DEF AtRest, Behind, KeptStays, KeptBefore
    <2>6. /\ \A n, k : ~Sends(m, n, k, Spoiled')
          /\ \A n : Ends(m, n) => n = m.n
      BY <2>1 DEF Sends, Ends
    <2>7. /\ InOrder' /\ HeadReady' /\ TailReady' /\ ReaderReady' /\ Prompts'
          /\ ReadSound' /\ SavedKept'
          /\ \A x \in Elems(toW') : ToWriter(x)'
          /\ \A x \in Elems(toR) : ToReader(x)'
      BY <1>1, <2>1, <2>2, <2>4, <2>5, <2>6, WriterTakes
    <2>8. TypeOK'
      BY <1>1, <2>1, <2>3 DEF DInv, TypeOK
    <2>9. PartSound' /\ Messages'
      BY <2>1, <2>3, <2>7 DEF PartSound, Messages
    <2> QED  BY <2>4, <2>7, <2>8, <2>9 DEF DInv
  <1>3. CASE ~upload
    <2> PICK m : m = Head(toR)
      OBVIOUS
    <2>1. /\ toR # <<>> /\ m.t = "start" /\ toR' = Tail(toR) /\ UNCHANGED <<wr, toW>>
          /\ rd' = NewRead(m.n, FALSE)
      BY <1>3 DEF HostStart, RecvR
    <2>2. m \in Elems(toR) /\ Elems(toR') \subseteq Elems(toR)
      BY <2>1, ReaderTakes
    <2>3. m.n \in 0 .. NumFiles /\ KeptBefore(m.n) /\ ~wr.open
      BY <1>3, <2>1, <2>2 DEF DInv, Messages, ToReader
    <2>4. toW = <<>> /\ prompt = {} /\ \A x \in Elems(toR) : x.t \notin Answers
      <3>1. Has(toR, {"start"})
        BY <2>1, <2>2, HasElems
      <3> QED  BY <1>3, <3>1, HasElems DEF IInv, StartFirst
    <2>5. rd' \in ReadJob /\ ~rd'.open /\ rd'.num = m.n
      BY <2>1, <2>3, NoJobs, NoJobTypes DEF NewRead, ReadJob
    <2>6. /\ FileTypes' /\ PartSound' /\ StoredIntact' /\ KeptStays /\ ReadyStays
          /\ InOrder' /\ HeadReady' /\ \A x \in Elems(toW') : ToWriter(x)'
      BY <1>1, <1>3, <2>1, WriterIdle DEF Lasting, HistGrows, Settled
    <2>7. TypeOK'
      BY <1>1, <2>1, <2>5 DEF DInv, TypeOK
    <2>8. AtRest(rd.num)'
      BY <2>1, <2>3, <2>5, <2>6 DEF AtRest, Behind, KeptStays, KeptBefore
    <2>9. ReadSound' /\ TailReady' /\ ReaderReady' /\ Prompts'
      BY <1>1, <2>1, <2>4, <2>5, <2>8 DEF ReadSound, TailReady, ReaderReady, Prompts
    <2>10. SavedKept'
      BY <1>1, <2>6 DEF DInv, SavedKept, KeptStays
    <2>11. \A x \in Elems(toR') : ToReader(x)'
      BY <1>1, <2>1, <2>2, <2>4, <2>6 DEF DInv, Messages, ToReader, KeptStays, Answers, Ok, Spoiled
    <2> QED  BY <2>6, <2>7, <2>9, <2>10, <2>11 DEF DInv, Messages
  <1> QED  BY <1>2, <1>3

\* The reader takes a message and goes on as it was, or gives up.
LEMMA ReaderQuiet ==
    ASSUME IInv, DInv, toR # <<>>, toR' = Tail(toR), rd' = rd \/ rd' = NoRead,
           UNCHANGED <<upload, audited, session, alive, started, wr, toW, prompt, paused, saved,
                       src, dst, part, digest, faults>>,
           UNCHANGED <<omitted, passed, ignored, holed>>, Settled => Settled',
           pending' \in {"none", "open", "finished"},
           audit' \in {"none", "COMPLETED", "FAILED", "CANCELLED"},
           status' \in {"none", "done", "error", "cancelled"}
    PROVE  DInv'
  <1>1. Elems(toR') \subseteq Elems(toR)
    BY ReaderTakes
  <1>2. ~NoRead.on /\ ~NoRead.open /\ NoRead \in ReadJob
    BY NoJobs, NoJobTypes
  <1>3. /\ FileTypes' /\ PartSound' /\ StoredIntact' /\ KeptStays /\ ReadyStays
        /\ InOrder' /\ HeadReady' /\ \A x \in Elems(toW') : ToWriter(x)'
    BY WriterIdle DEF Lasting, HistGrows
  <1>4. TypeOK'
    BY <1>2 DEF DInv, TypeOK
  <1>5. ReadSound' /\ TailReady' /\ ReaderReady' /\ Prompts'
    BY <1>2, <1>3 DEF DInv, ReadSound, TailReady, ReaderReady, Prompts, ReadyStays, Ok, Spoiled
  <1>6. SavedKept'
    BY <1>3 DEF DInv, SavedKept, KeptStays
  <1>7. Messages'
    BY <1>1, <1>2, <1>3, ToReaderStays DEF DInv, Messages
  <1> QED  BY <1>3, <1>4, <1>5, <1>6, <1>7 DEF DInv

\* The writer takes a message and gives up: the files are as they should be.
LEMMA WriterStops ==
    ASSUME IInv, DInv, toW # <<>>, toW' = Tail(toW), wr' = NoWrite,
           UNCHANGED <<upload, audited, session, alive, started, rd, prompt, paused, saved, src>>,
           digest' \in [Files -> 0 .. MaxVersion], FileTypes', StoredIntact', KeptStays,
           faults' \subseteq FaultKinds,
           pending' \in {"none", "open", "finished"},
           audit' \in {"none", "COMPLETED", "FAILED", "CANCELLED"},
           status' \in {"none", "done", "error", "cancelled"},
           \/ toR' = toR
           \/ \E m : /\ toR' = (IF Reader \in alive THEN toR \o <<m>> ELSE toR)
                     /\ \/ m.t = "error"
                        \/ m.t = "done" /\ (~upload => KeptBefore(NumFiles)')
    PROVE  DInv'
  <1>1. ~wr'.on /\ ~wr'.open /\ wr' \in WriteJob
    BY NoJobs, NoJobTypes
  <1>2. /\ InOrder' /\ HeadReady' /\ TailReady' /\ ReaderReady' /\ Prompts'
        /\ ReadSound' /\ SavedKept'
        /\ \A x \in Elems(toW') : ToWriter(x)'
        /\ \A x \in Elems(toR) : ToReader(x)'
    BY <1>1, WriterTakes
  <1>3. TypeOK'
    BY <1>1 DEF DInv, TypeOK, FileTypes, Content
  <1>4. PartSound'
    BY <1>1 DEF PartSound
  <1>5. \A x \in Elems(toR') : ToReader(x)'
    <2>1. \A m : m.t = "error" \/ (m.t = "done" /\ (~upload => KeptBefore(NumFiles)'))
                  => ToReader(m)'
      BY DEF ToReader, Answers
    <2> QED  BY <1>2, <2>1, WriterSends
  <1> QED  BY <1>2, <1>3, <1>4, <1>5 DEF DInv, Messages

\* The host is told that the job is cancelled.
LEMMA HostCancelData ==
    ASSUME IInv, DInv, HostCancel
    PROVE  DInv'
  <1>1. /\ UNCHANGED <<upload, audited, session, alive, started, prompt, paused, saved, src, dst,
                       status, faults>>
        /\ UNCHANGED <<omitted, passed, ignored, holed>>
    BY DEF HostCancel, link, ui, hist
  <1>2. /\ pending' \in {"none", "open", "finished"}
        /\ audit' \in {"none", "COMPLETED", "FAILED", "CANCELLED"}
        /\ status' \in {"none", "done", "error", "cancelled"} /\ faults' \subseteq FaultKinds
    BY <1>1, OutcomeType DEF HostCancel, DInv, TypeOK
  <1>3. CASE upload
    <2>1. /\ toW # <<>> /\ toW' = Tail(toW) /\ wr' = NoWrite /\ RemoveDownload(wr)
          /\ UNCHANGED <<rd, toR>>
      BY <1>3 DEF HostCancel, RecvW
    <2>2. digest' \in [Files -> 0 .. MaxVersion] /\ FileTypes' /\ StoredIntact' /\ KeptStays
      BY <1>1, <2>1, Removed DEF HistGrows
    <2> QED  BY <1>1, <1>2, <2>1, <2>2, WriterStops
  <1>4. CASE ~upload
    <2>1. toR # <<>> /\ toR' = Tail(toR) /\ rd' = NoRead /\ UNCHANGED <<wr, toW, part, digest>>
      BY <1>4 DEF HostCancel, RecvR
    <2> QED  BY <1>1, <1>2, <1>4, <2>1, ReaderQuiet DEF Settled
  <1> QED  BY <1>3, <1>4

\* The reader is told how the job ended.
LEMMA AcknowledgedData ==
    ASSUME IInv, DInv, NEW t \in {"done", "error"}, Acknowledged(t)
    PROVE  DInv'
  <1>1. /\ UNCHANGED <<upload, audited, session, alive, started, wr, toW, prompt, paused, saved,
                       src, dst, part, digest, faults>>
        /\ UNCHANGED <<omitted, passed, ignored, holed>>
        /\ toR # <<>> /\ toR' = Tail(toR) /\ (rd' = rd \/ rd' = NoRead)
    BY DEF Acknowledged, RecvR, link, disk, hist
  <1>2. \/ UNCHANGED <<pending, audit>> \/ Outcome("COMPLETED") \/ Outcome("FAILED")
    BY DEF Acknowledged, log
  <1>3. status' = status \/ Report(t)
    BY DEF Acknowledged
  <1>4. /\ pending' \in {"none", "open", "finished"}
        /\ audit' \in {"none", "COMPLETED", "FAILED", "CANCELLED"}
    BY <1>2, OutcomeType DEF DInv, TypeOK
  <1>5. status' \in {"none", "done", "error", "cancelled"}
    BY <1>3, ReportType DEF DInv, TypeOK
  <1>6. Settled => Settled'
    BY <1>1 DEF Acknowledged, Outcome, log, Settled
  <1> QED  BY <1>1, <1>4, <1>5, <1>6, ReaderQuiet

\* The reader failed: the writer drops its job.
LEMMA FailedData ==
    ASSUME IInv, DInv, Failed
    PROVE  DInv'
  <1>1. /\ UNCHANGED <<upload, audited, session, alive, started, rd, prompt, paused, saved, src,
                       dst, part, digest, faults>>
        /\ UNCHANGED <<omitted, passed, ignored, holed>>
        /\ toW # <<>> /\ toW' = Tail(toW) /\ wr' = NoWrite
    BY DEF Failed, RecvW, link, disk, hist
  <1>2. FileTypes' /\ StoredIntact' /\ KeptStays
    BY <1>1, FilesUntouched DEF HistGrows
  <1>3. /\ UNCHANGED <<pending, audit>> \/ Outcome("FAILED")
        /\ status' = status \/ Report("error")
    BY DEF Failed, log
  <1>4. /\ pending' \in {"none", "open", "finished"}
        /\ audit' \in {"none", "COMPLETED", "FAILED", "CANCELLED"}
    BY <1>3, OutcomeType DEF DInv, TypeOK
  <1>5. /\ status' \in {"none", "done", "error", "cancelled"} /\ faults' \subseteq FaultKinds
        /\ digest' \in [Files -> 0 .. MaxVersion]
    BY <1>1, <1>3, ReportType DEF DInv, TypeOK
  <1>6. \/ toR' = toR
        \/ \E m : toR' = (IF Reader \in alive THEN toR \o <<m>> ELSE toR) /\ m.t = "error"
    <2> PICK m : m = Msg("error", 0, EOF)
      OBVIOUS
    <2>1. m.t = "error"
      BY DEF Msg
    <2>2. toR' = toR \/ toR' = (IF Reader \in alive THEN toR \o <<m>> ELSE toR)
      BY DEF Failed, SendR
    <2> QED  BY <2>1, <2>2
  <1> QED  BY <1>1, <1>2, <1>4, <1>5, <1>6, WriterStops

\* Done finds the writer at the end of the files.
LEMMA DoneAtRest ==
    ASSUME IInv, DInv, RecvW("done"), wr.on
    PROVE  AtRest(NumFiles)
  <1>1. First(toW) \in Elems(toW) /\ First(toW).t = "done" /\ toW # <<>>
    BY PoppedFacts DEF IInv, Shapes, Popped, RecvW
  <1>2. First(toW).n = NumFiles
    BY <1>1 DEF DInv, Messages, ToWriter
  <1> QED  BY <1>1, <1>2 DEF DInv, HeadReady, CanTake

\* The reader is done: the last file is finalized.
LEMMA DoneData ==
    ASSUME IInv, DInv, Done
    PROVE  DInv' /\ (wr.on => Settled \/ KeptBefore(NumFiles)')
  <1>1. /\ UNCHANGED <<upload, audited, session, alive, started, rd, prompt, paused, saved, src,
                       faults>>
        /\ UNCHANGED <<omitted, passed, ignored, holed>>
        /\ toW # <<>> /\ toW' = Tail(toW)
    BY DEF Done, RecvW, link, hist
  <1>2. /\ UNCHANGED <<pending, audit>> \/ Outcome("FAILED") \/ Outcome("COMPLETED")
        /\ status' = status \/ Report("error") \/ Report("done") \/ Report(status)
    BY DEF Done, log
  <1>3. /\ pending' \in {"none", "open", "finished"}
        /\ audit' \in {"none", "COMPLETED", "FAILED", "CANCELLED"}
    BY <1>2, OutcomeType DEF DInv, TypeOK
  <1>4. status' \in {"none", "done", "error", "cancelled"} /\ faults' \subseteq FaultKinds
    BY <1>1, <1>2, ReportType DEF DInv, TypeOK
  <1>5. CASE wr.on
    <2>1. /\ wr' = NoWrite /\ dst' = DstAfter(wr) /\ part' = PartAfter(wr)
          /\ digest' = DigestAfter(wr)
      BY <1>5 DEF Done
    <2>2. AtRest(NumFiles)
      BY <1>5, DoneAtRest DEF Done
    <2>3. /\ digest' \in [Files -> 0 .. MaxVersion]
          /\ FileTypes' /\ StoredIntact' /\ KeptStays /\ (Settled \/ KeptBefore(NumFiles)')
      BY <1>1, <2>1, <2>2, AllFinalized
    <2>4. \E m : /\ toR' = (IF Reader \in alive THEN toR \o <<m>> ELSE toR)
                 /\ m.t = "error" \/ m.t = "done"
      <3> PICK m : m = Msg(IF ~upload /\ wr.skipped /\ NumFiles = 1 THEN "error" ELSE "done",
                           0, EOF)
        OBVIOUS
      <3>1. m.t = "error" \/ m.t = "done"
        BY DEF Msg
      <3> QED  BY <1>5, <3>1 DEF Done, SendR
    <2>5. ~upload => KeptBefore(NumFiles)'
      BY <2>3 DEF Settled
    <2> QED  BY <1>1, <1>3, <1>4, <2>1, <2>3, <2>4, <2>5, WriterStops
  <1>6. CASE ~wr.on
    <2>1. UNCHANGED <<wr, dst, part, digest, toR>> /\ wr = NoWrite
      BY <1>6 DEF Done, disk, IInv, JobSound
    <2>2. FileTypes' /\ StoredIntact' /\ KeptStays
      BY <1>1, <2>1, FilesUntouched DEF HistGrows
    <2>3. digest' \in [Files -> 0 .. MaxVersion]
      BY <2>1 DEF DInv, TypeOK
    <2> QED  BY <1>1, <1>3, <1>4, <1>6, <2>1, <2>2, <2>3, WriterStops
  <1> QED  BY <1>5, <1>6

\* ... or cannot be finalized.
LEMMA DoneFaultData ==
    ASSUME IInv, DInv, DoneFault
    PROVE  DInv'
  <1> PICK e : e = Msg("error", 0, EOF)
    OBVIOUS
  <1>1. /\ UNCHANGED <<upload, audited, session, alive, started, rd, prompt, paused, saved, src>>
        /\ UNCHANGED <<omitted, passed, ignored, holed>> /\ wr' = NoWrite
        /\ toW # <<>> /\ toW' = Tail(toW) /\ faults' \subseteq FaultKinds
    BY DEF DoneFault, FinalizeFails, Fault, RecvW, link, hist, DInv, TypeOK
  <1>2. /\ dst' = dst \/ dst' = DstAfter(wr)
        /\ part' = part \/ part' = PartAfter(wr)
        /\ digest' = digest \/ digest' = DigestAfter(wr)
    BY DEF DoneFault, FinalizeFails
  <1>3. wr.open => Full
    BY DoneAtRest DEF DoneFault, AtRest
  <1>4. digest' \in [Files -> 0 .. MaxVersion] /\ FileTypes' /\ StoredIntact' /\ KeptStays
    BY <1>1, <1>2, <1>3, FinalizeTrims DEF HistGrows
  <1>5. /\ UNCHANGED <<pending, audit>> \/ Outcome("FAILED")
        /\ status' = status \/ Report("error")
    BY DEF DoneFault, log
  <1>6. /\ pending' \in {"none", "open", "finished"}
        /\ audit' \in {"none", "COMPLETED", "FAILED", "CANCELLED"}
        /\ status' \in {"none", "done", "error", "cancelled"}
    BY <1>5, OutcomeType, ReportType DEF DInv, TypeOK
  <1>7. e.t = "error" /\ toR' = (IF Reader \in alive THEN toR \o <<e>> ELSE toR)
    BY DEF DoneFault, SendR, Msg
  <1> QED  BY <1>1, <1>4, <1>6, <1>7, WriterStops

\* What comes behind a block: the next one, or a file when it was the empty one.
LEMMA BehindBlock ==
    ASSUME NEW m, m.t = "block", NEW I,
           m.p # EOF => Ready(m.n, m.p[2] + 1)', m.p = EOF => AtRest(m.n + 1)',
           \A j, k : m.n \in I => (Ready(m.n, j)' => Ready(m.n, k)')
    PROVE  /\ \A n, k : Sends(m, n, k, I) => Ready(n, k)'
           /\ \A n : Ends(m, n) => AtRest(n)'
  BY DEF Sends, Ends

\* A block for the writer, whatever comes behind it.
LEMMA BlockData ==
    ASSUME IInv, DInv, Block
    PROVE  DInv'
  <1> PICK m : m = Head(toW)
    OBVIOUS
  <1>1. /\ UNCHANGED <<upload, audited, session, alive, started, rd, toR, prompt, paused, saved,
                       src, pending, audit, status, faults>>
        /\ UNCHANGED <<omitted, passed, ignored, holed>>
        /\ toW # <<>> /\ toW' = Tail(toW) /\ m.t = "block"
    BY DEF Block, RecvW, link, ui, log, hist
  <1>2. m = First(toW) /\ BlockOf(m)
    BY <1>1, PoppedFacts DEF IInv, Shapes, Popped, DInv, Messages, ToWriter, BlockOf
  <1>3. CASE wr.on
    <2>1. TakeBlock(m)
      BY <1>3 DEF Block
    <2>2. Ready(m.n, Index(m))
      BY <1>1, <1>2, <1>3 DEF DInv, HeadReady, CanTake
    <2>3. /\ wr' \in WriteJob /\ digest' \in [Files -> 0 .. MaxVersion]
          /\ FileTypes' /\ PartSound' /\ StoredIntact' /\ KeptStays
          /\ m.p # EOF => Ready(m.n, m.p[2] + 1)'
          /\ m.p = EOF => AtRest(m.n + 1)'
      BY <1>1, <1>2, <2>1, <2>2, BlockTaken
    <2>4. \A j, k : m.n \in Spoiled' => (Ready(m.n, j)' => Ready(m.n, k)')
      BY DEF Ready, Ok
    <2>5. /\ \A n, k : Sends(m, n, k, Spoiled') => Ready(n, k)'
          /\ \A n : Ends(m, n) => AtRest(n)'
      BY <1>1, <2>3, <2>4, BehindBlock
    <2>6. /\ InOrder' /\ HeadReady' /\ TailReady' /\ ReaderReady' /\ Prompts'
          /\ ReadSound' /\ SavedKept'
          /\ \A x \in Elems(toW') : ToWriter(x)'
          /\ \A x \in Elems(toR) : ToReader(x)'
      BY <1>1, <1>2, <2>3, <2>5, WriterTakes
    <2>7. TypeOK'
      BY <1>1, <2>3 DEF DInv, TypeOK, FileTypes, Content
    <2> QED  BY <1>1, <2>3, <2>6, <2>7 DEF DInv, Messages
  <1>4. CASE ~wr.on
    <2>1. UNCHANGED <<wr, dst, part, digest>> /\ wr = NoWrite
      BY <1>4 DEF Block, disk, IInv, JobSound
    <2>2. FileTypes' /\ StoredIntact' /\ KeptStays
      BY <1>1, <2>1, FilesUntouched DEF HistGrows
    <2>3. /\ digest' \in [Files -> 0 .. MaxVersion] /\ faults' \subseteq FaultKinds
          /\ pending' \in {"none", "open", "finished"}
          /\ audit' \in {"none", "COMPLETED", "FAILED", "CANCELLED"}
          /\ status' \in {"none", "done", "error", "cancelled"}
      BY <1>1, <2>1 DEF DInv, TypeOK
    <2> QED  BY <1>1, <2>1, <2>2, <2>3, WriterStops
  <1> QED  BY <1>3, <1>4

\* What follows when the writer fails to take a block.
LEMMA WriteFailsFacts ==
    ASSUME IInv, DInv, RecvW("block"), wr.on, NEW m, m = Head(toW), WriteFails(m.n)
    PROVE  /\ UNCHANGED <<upload, audited, session, alive, started, rd, prompt, paused, saved, src>>
           /\ UNCHANGED <<omitted, passed, ignored>> /\ HistGrows
           /\ toW # <<>> /\ toW' = Tail(toW) /\ m = First(toW) /\ m.t = "block"
           /\ m.n \in Files /\ Index(m) \in Nat \ {0} /\ Ready(m.n, Index(m))
           /\ \E e : /\ e.t = "error"
                     /\ toR' = (IF Reader \in alive THEN toR \o <<e>> ELSE toR)
           /\ pending' \in {"none", "open", "finished"}
           /\ audit' \in {"none", "COMPLETED", "FAILED", "CANCELLED"}
           /\ status' \in {"none", "done", "error", "cancelled"}
           /\ upload => Settled' /\ holed' = holed \cup {m.n}
  <1>1. /\ UNCHANGED <<upload, audited, session, alive, started, rd, prompt, paused, saved, src>>
        /\ UNCHANGED <<omitted, passed, ignored>> /\ holed \subseteq holed'
        /\ toW # <<>> /\ toW' = Tail(toW) /\ m.t = "block"
    BY DEF WriteFails, RecvW, link
  <1>2. m = First(toW) /\ BlockOf(m)
    BY <1>1, PoppedFacts DEF IInv, Shapes, Popped, DInv, Messages, ToWriter, BlockOf
  <1>3. m.n \in Files /\ Index(m) \in Nat \ {0} /\ Ready(m.n, Index(m))
    BY <1>1, <1>2, IndexType DEF DInv, HeadReady, CanTake, BlockOf
  <1>4. \E e : e.t = "error" /\ toR' = (IF Reader \in alive THEN toR \o <<e>> ELSE toR)
    <2> PICK e : e = Msg("error", m.n, EOF)
      OBVIOUS
    <2>1. e.t = "error"
      BY DEF Msg
    <2>2. toR' = (IF Reader \in alive THEN toR \o <<e>> ELSE toR)
      BY DEF WriteFails, SendR
    <2> QED  BY <2>1, <2>2
  <1>5. IF upload THEN Outcome("FAILED") /\ UNCHANGED status
                  ELSE Report("error") /\ UNCHANGED <<pending, audit>>
    BY DEF WriteFails, log
  <1>6. /\ pending' \in {"none", "open", "finished"}
        /\ audit' \in {"none", "COMPLETED", "FAILED", "CANCELLED"}
        /\ status' \in {"none", "done", "error", "cancelled"}
    BY <1>5, OutcomeType, ReportType DEF DInv, TypeOK
  <1>7. upload => Settled' /\ holed' = holed \cup {m.n}
    BY <1>1 DEF WriteFails, Outcome, Settled
  <1> QED  BY <1>1, <1>2, <1>3, <1>4, <1>6, <1>7 DEF HistGrows

\* A host that fails to take a block goes on, and the file of the block is spoiled.
LEMMA HostGoesOn ==
    ASSUME IInv, DInv, upload, RecvW("block"), wr.on, NEW m, m = Head(toW), WriteFails(m.n),
           faults' \subseteq FaultKinds,
           wr' \in WriteJob, digest' \in [Files -> 0 .. MaxVersion],
           FileTypes', PartSound', StoredIntact', KeptStays,
           \A j : Ready(m.n, j)', m.p = EOF => AtRest(m.n + 1)'
    PROVE  DInv'
  <1>1. /\ UNCHANGED <<upload, audited, session, alive, started, rd, prompt, paused, saved, src>>
        /\ toW # <<>> /\ toW' = Tail(toW) /\ m = First(toW) /\ m.t = "block"
        /\ pending' \in {"none", "open", "finished"}
        /\ audit' \in {"none", "COMPLETED", "FAILED", "CANCELLED"}
        /\ status' \in {"none", "done", "error", "cancelled"}
    BY WriteFailsFacts
  <1>2. /\ \A n, k : Sends(m, n, k, Spoiled') => Ready(n, k)'
        /\ \A n : Ends(m, n) => AtRest(n)'
    BY <1>1, BehindBlock
  <1>3. /\ InOrder' /\ HeadReady' /\ TailReady' /\ ReaderReady' /\ Prompts'
        /\ ReadSound' /\ SavedKept'
        /\ \A x \in Elems(toW') : ToWriter(x)'
        /\ \A x \in Elems(toR) : ToReader(x)'
    BY <1>1, <1>2, WriterTakes
  <1>4. TypeOK'
    BY <1>1 DEF DInv, TypeOK, FileTypes, Content
  <1>5. \A x \in Elems(toR') : ToReader(x)'
    <2>1. PICK e : /\ e.t = "error"
                   /\ toR' = (IF Reader \in alive THEN toR \o <<e>> ELSE toR)
      BY WriteFailsFacts
    <2>2. ToReader(e)'
      BY <2>1 DEF ToReader, Answers
    <2> QED  BY <1>3, <2>1, <2>2, WriterSends
  <1> QED  BY <1>3, <1>4, <1>5 DEF DInv, Messages

\* A client that fails to take a block gives the job up.
LEMMA ClientGivesUp ==
    ASSUME IInv, DInv, RecvW("block"), wr.on, NEW m, m = Head(toW), WriteFails(m.n),
           faults' \subseteq FaultKinds, wr' = NoWrite,
           digest' \in [Files -> 0 .. MaxVersion], FileTypes', StoredIntact', KeptStays
    PROVE  DInv'
  <1>1. /\ UNCHANGED <<upload, audited, session, alive, started, rd, prompt, paused, saved, src>>
        /\ toW # <<>> /\ toW' = Tail(toW)
        /\ \E e : /\ e.t = "error"
                  /\ toR' = (IF Reader \in alive THEN toR \o <<e>> ELSE toR)
        /\ pending' \in {"none", "open", "finished"}
        /\ audit' \in {"none", "COMPLETED", "FAILED", "CANCELLED"}
        /\ status' \in {"none", "done", "error", "cancelled"}
    BY WriteFailsFacts
  <1> QED  BY <1>1, WriterStops

\* A block that cannot be written.
LEMMA BlockFaultData ==
    ASSUME IInv, DInv, BlockFault
    PROVE  DInv'
  <1> PICK m : m = Head(toW)
    OBVIOUS
  <1>1. /\ RecvW("block") /\ wr.on /\ WriteFails(m.n) /\ m.p # EOF
        /\ dst' = OpenDst(m.n) /\ faults' \subseteq FaultKinds
    BY DEF BlockFault, Fault, OpenDst, Fresh, DInv, TypeOK
  <1>2. /\ UNCHANGED <<src, omitted, passed, ignored>> /\ HistGrows
        /\ m.n \in Files /\ Index(m) \in Nat \ {0} /\ Ready(m.n, Index(m))
        /\ upload => Settled' /\ holed' = holed \cup {m.n}
    BY <1>1, WriteFailsFacts
  <1>3. CASE upload
    <2>1. /\ part' = OpenPart(m.n) /\ digest' = OpenDigest(m.n)
          /\ wr' = OpenJob(m.n)
      BY <1>3 DEF BlockFault, OpenPart, OpenDigest, OpenPos, OpenJob, Fresh
    <2> PICK n, k : n = m.n /\ k = Index(m)
      OBVIOUS
    <2>2. /\ n \in Files /\ k \in Nat \ {0} /\ Ready(n, k) /\ Settled'
          /\ holed' = holed \cup {n} /\ UNCHANGED <<src, omitted, passed, ignored>>
      BY <1>2, <1>3
    <2>3. /\ dst' = OpenDst(n) /\ part' = OpenPart(n) /\ digest' = OpenDigest(n)
          /\ wr' = OpenJob(n)
      BY <1>1, <2>1
    <2>4. /\ wr' \in WriteJob /\ digest' \in [Files -> 0 .. MaxVersion]
          /\ FileTypes' /\ PartSound' /\ StoredIntact' /\ KeptStays
          /\ \A j : Ready(n, j)'
      BY <2>2, <2>3, BlockLost
    <2> QED  BY <1>1, <1>3, <2>4, HostGoesOn
  <1>4. CASE ~upload
    <2>1. wr' = NoWrite
      BY <1>4 DEF BlockFault
    <2>2. /\ part' = [OpenPart(m.n) EXCEPT ![m.n] = NoFile]
          /\ digest' = [OpenDigest(m.n) EXCEPT ![m.n] = 0]
      <3> DEFINE w == [wr EXCEPT !.open = @ /\ Fresh(m.n)]
      <3>1. /\ part' = [PartAfter(w) EXCEPT ![m.n] = NoFile]
            /\ digest' = [DigestAfter(w) EXCEPT ![m.n] = 0]
        BY <1>4 DEF BlockFault, Fresh
      <3>2. w.num = wr.num /\ (w.open <=> wr.open /\ Fresh(m.n))
        BY DEF IInv, Shapes, IsWrite
      <3> HIDE DEF w
      <3>3. CASE Fresh(m.n)
        <4>1. PartAfter(w) = PartAfter(wr) /\ DigestAfter(w) = DigestAfter(wr)
          BY <3>2, <3>3 DEF PartAfter, DigestAfter
        <4> DEFINE P == PartAfter(wr)
                   G == DigestAfter(wr)
        <4>2. OpenPart(m.n) = [P EXCEPT ![m.n] = <<>>]
              /\ OpenDigest(m.n) = [G EXCEPT ![m.n] = wr.ver]
          BY <3>3 DEF OpenPart, OpenDigest
        <4> HIDE DEF P, G
        <4>3. /\ [[P EXCEPT ![m.n] = <<>>] EXCEPT ![m.n] = NoFile] = [P EXCEPT ![m.n] = NoFile]
              /\ [[G EXCEPT ![m.n] = wr.ver] EXCEPT ![m.n] = 0] = [G EXCEPT ![m.n] = 0]
          OBVIOUS
        <4> QED  BY <3>1, <4>1, <4>2, <4>3 DEF P, G
      <3>4. CASE ~Fresh(m.n)
        BY <3>1, <3>2, <3>4 DEF PartAfter, DigestAfter, OpenPart, OpenDigest
      <3> QED  BY <3>3, <3>4
    <2>3. digest' \in [Files -> 0 .. MaxVersion] /\ FileTypes' /\ StoredIntact' /\ KeptStays
      BY <1>1, <1>2, <2>2, BlockGivenUp
    <2> QED  BY <1>1, <2>1, <2>3, ClientGivesUp
  <1> QED  BY <1>3, <1>4

\* A file that cannot be created.
LEMMA CreateFaultData ==
    ASSUME IInv, DInv, CreateFault
    PROVE  DInv'
  <1> PICK m : m = Head(toW)
    OBVIOUS
  <1>1. /\ RecvW("block") /\ wr.on /\ WriteFails(m.n) /\ Fresh(m.n)
        /\ dst' = DstAfter(wr) /\ faults' \subseteq FaultKinds
        /\ digest' = [DigestAfter(wr) EXCEPT ![m.n] = 0]
    BY DEF CreateFault, Fault, Fresh, DInv, TypeOK
  <1>2. /\ UNCHANGED <<src, omitted, passed, ignored>> /\ HistGrows
        /\ m.n \in Files /\ Ready(m.n, Index(m))
        /\ upload => Settled' /\ holed' = holed \cup {m.n}
    BY <1>1, WriteFailsFacts
  <1>3. CASE upload
    <2>1. /\ part' = PartAfter(wr) /\ wr' = NoStream(m.n)
      BY <1>3 DEF CreateFault, NoStream
    <2> PICK n, k : n = m.n /\ k = Index(m)
      OBVIOUS
    <2>2. /\ n \in Files /\ Ready(n, k) /\ Fresh(n) /\ Settled'
          /\ holed' = holed \cup {n} /\ UNCHANGED <<src, omitted, passed, ignored>>
      BY <1>1, <1>2, <1>3
    <2>3. /\ dst' = DstAfter(wr) /\ part' = PartAfter(wr)
          /\ digest' = [DigestAfter(wr) EXCEPT ![n] = 0]
          /\ wr' = NoStream(n)
      BY <1>1, <2>1
    <2>4. /\ wr' \in WriteJob /\ digest' \in [Files -> 0 .. MaxVersion]
          /\ FileTypes' /\ PartSound' /\ StoredIntact' /\ KeptStays
          /\ (\A j : Ready(n, j)') /\ AtRest(n + 1)'
      BY <2>2, <2>3, NotCreated
    <2> QED  BY <1>1, <1>3, <2>4, HostGoesOn
  <1>4. CASE ~upload
    <2>1. part' = [PartAfter(wr) EXCEPT ![m.n] = NoFile] /\ wr' = NoWrite
      BY <1>4 DEF CreateFault
    <2>2. digest' \in [Files -> 0 .. MaxVersion] /\ FileTypes' /\ StoredIntact' /\ KeptStays
      BY <1>1, <1>2, <2>1, CreateGivenUp
    <2> QED  BY <1>1, <2>1, <2>2, ClientGivesUp
  <1> QED  BY <1>3, <1>4

\* The file before cannot be finalized.
LEMMA FinalizeFaultData ==
    ASSUME IInv, DInv, FinalizeFault
    PROVE  DInv'
  <1> PICK m : m = Head(toW)
    OBVIOUS
  <1>1. /\ RecvW("block") /\ wr.on /\ WriteFails(m.n) /\ m.n # wr.num /\ wr.open
        /\ faults' \subseteq FaultKinds
    BY DEF FinalizeFault, FinalizeFails, Fault, DInv, TypeOK
  <1>2. /\ UNCHANGED <<src, omitted, passed, ignored>> /\ HistGrows
        /\ m.n \in Files /\ Ready(m.n, Index(m))
        /\ upload => Settled' /\ holed' = holed \cup {m.n}
    BY <1>1, WriteFailsFacts
  <1>3. CASE upload
    <2>1. PICK step \in {"sync", "rename", "mtime"} :
             /\ dst' = IF step = "mtime" THEN DstAfter(wr) ELSE dst
             /\ part' = IF step = "mtime" THEN PartAfter(wr) ELSE part
             /\ digest' = IF step = "sync" THEN digest ELSE DigestAfter(wr)
             /\ wr' = [wr EXCEPT !.open = step = "sync"]
      BY <1>3 DEF FinalizeFault, FinalizeFails
    <2>2. /\ wr' \in WriteJob /\ digest' \in [Files -> 0 .. MaxVersion]
          /\ FileTypes' /\ PartSound' /\ StoredIntact' /\ KeptStays
          /\ (\A j : Ready(m.n, j)') /\ AtRest(m.n + 1)'
      BY <1>1, <1>2, <1>3, <2>1, NotFinalized
    <2> QED  BY <1>1, <1>3, <2>2, HostGoesOn
  <1>4. CASE ~upload
    <2>1. /\ part' = PartAfter(wr) /\ digest' = DigestAfter(wr) /\ wr' = NoWrite
          /\ dst' = dst \/ dst' = DstAfter(wr)
      BY <1>4 DEF FinalizeFault, FinalizeFails
    <2>2. wr.open => Full
      BY <1>1, <1>2 DEF Ready
    <2>3. digest' \in [Files -> 0 .. MaxVersion] /\ FileTypes' /\ StoredIntact' /\ KeptStays
      BY <1>2, <2>1, <2>2, FinalizeTrims
    <2> QED  BY <1>1, <2>1, <2>3, ClientGivesUp
  <1> QED  BY <1>3, <1>4

\* The writer is told to take a file, or to skip it.
LEMMA ConfirmWriterData ==
    ASSUME IInv, DInv, NEW skip \in BOOLEAN, ConfirmWriter(skip)
    PROVE  DInv'
  <1> PICK m : m = Head(toW)
    OBVIOUS
  <1>1. /\ UNCHANGED <<upload, audited, session, alive, started, rd, toR, prompt, paused, saved,
                       src, dst, part, digest, pending, audit, status>>
        /\ UNCHANGED <<omitted, passed, holed>>
        /\ toW # <<>> /\ toW' = Tail(toW) /\ m.t = (IF skip THEN "skip" ELSE "confirm")
    BY DEF ConfirmWriter, RecvW, link, disk, ui, log
  <1>2. m = First(toW) /\ m \in Elems(toW) /\ ToWriter(m)
    BY <1>1, PoppedFacts DEF IInv, Shapes, Popped, DInv, Messages
  <1>3. m.n \in Files
    BY <1>1, <1>2 DEF ToWriter
  <1>4. /\ digest' \in [Files -> 0 .. MaxVersion]
        /\ pending' \in {"none", "open", "finished"}
        /\ audit' \in {"none", "COMPLETED", "FAILED", "CANCELLED"}
        /\ status' \in {"none", "done", "error", "cancelled"} /\ wr \in WriteJob
    BY <1>1 DEF DInv, TypeOK
  <1>5. faults' \subseteq FaultKinds
    BY DEF ConfirmWriter, Positioned, Fault, DInv, TypeOK
  <1>6. CASE ~wr.on
    <2>1. wr' = wr /\ wr = NoWrite /\ UNCHANGED ignored
      BY <1>6 DEF ConfirmWriter, IInv, JobSound
    <2>2. FileTypes' /\ StoredIntact' /\ KeptStays
      BY <1>1, <2>1, FilesUntouched DEF HistGrows
    <2> QED  BY <1>1, <1>4, <1>5, <2>1, <2>2, WriterStops
  <1>7. CASE wr.on
    <2> DEFINE w == [wr EXCEPT !.hadSkip = @ \/ skip]
    <2>1. PICK k \in {0, m.p[1]} :
             /\ wr' = WriteConfirm(w, m.n, skip, k)
             /\ NoteIgnored(m.n, k # m.p[1] \/ (wr.num # m.n /\ m.p[1] > 0))
      BY <1>7 DEF ConfirmWriter
    <2>2. SameFile(w) /\ w.ver = wr.ver /\ w \in WriteJob
      <3>1. (wr.hadSkip \/ skip) \in BOOLEAN
        OBVIOUS
      <3>2. w = [wr EXCEPT !.hadSkip = wr.hadSkip \/ skip]
        BY <1>4 DEF WriteJob
      <3>3. w \in WriteJob
        BY <1>4, <3>1, <3>2 DEF WriteJob
      <3>4. IsWrite(wr)
        BY DEF IInv, Shapes
      <3> HIDE DEF w
      <3> QED  BY <3>2, <3>3, <3>4 DEF SameFile, IsWrite
    <2> HIDE DEF w
    <2>3. /\ Lasting
          /\ (k # m.p[1] \/ (wr.num # m.n /\ m.p[1] > 0)) => m.n \in ignored'
      BY <1>1, <2>1 DEF Lasting, HistGrows, Settled, NoteIgnored
    <2>4. /\ wr' \in WriteJob /\ FileTypes' /\ PartSound' /\ StoredIntact' /\ KeptStays
          /\ ~skip => Ready(m.n, m.p[1] + 1)'
          /\ skip => AtRest(m.n + 1)'
      <3>1. CASE skip
        <4>1. AtRest(m.n) /\ m.n \in omitted'
          BY <1>1, <1>2, <1>7, <3>1 DEF DInv, HeadReady, CanTake
        <4>2. FileTypes' /\ PartSound' /\ StoredIntact' /\ KeptStays /\ AtRest(m.n + 1)'
          BY <1>1, <1>3, <2>1, <2>2, <2>3, <3>1, <4>1, WriterSkipped
        <4>3. wr' \in WriteJob
          <5>1. WriteConfirm(w, m.n, TRUE, k) = WriteConfirm(w, m.n, TRUE, 0)
            BY DEF WriteConfirm
          <5>2. 0 \in Nat
            OBVIOUS
          <5> QED  BY <1>3, <2>1, <2>2, <3>1, <5>1, <5>2, WriteConfirmType
        <4> QED  BY <3>1, <4>2, <4>3
      <3>2. CASE ~skip
        <4>1. Offers(m.n, m.p[1]) /\ m.p[1] \in Nat
          BY <1>1, <1>2, <1>7, <3>2 DEF DInv, HeadReady, CanTake, ToWriter
        <4>2. wr' = WriteConfirm(w, m.n, FALSE, k)
          BY <2>1, <3>2
        <4>3. /\ AtRest(m.n) /\ w.ver = src[m.n]
              /\ m.p[1] > 0 => m.p[1] = Len(part[m.n]) /\ digest[m.n] = src[m.n]
                               /\ Exists(m.n, part)
          BY <2>2, <4>1 DEF Offers
        <4>4. FileTypes' /\ PartSound' /\ StoredIntact' /\ KeptStays /\ Ready(m.n, m.p[1] + 1)'
          BY <1>1, <1>3, <2>2, <2>3, <4>1, <4>2, <4>3, WriterConfirmed
        <4>5. wr' \in WriteJob
          <5>1. k \in Nat
            BY <4>1
          <5> QED  BY <1>3, <2>2, <4>2, <5>1, WriteConfirmType
        <4> QED  BY <3>2, <4>4, <4>5
      <3> QED  BY <3>1, <3>2
    <2>5. /\ \A n, j : Sends(m, n, j, Spoiled') => Ready(n, j)'
          /\ \A n : Ends(m, n) => AtRest(n)'
      <3>1. \A j : m.n \in Spoiled' => (Ready(m.n, m.p[1] + 1)' => Ready(m.n, j)')
        BY DEF Ready, Ok
      <3> QED  BY <1>1, <2>4, <3>1 DEF Sends, Ends
    <2>6. /\ InOrder' /\ HeadReady' /\ TailReady' /\ ReaderReady' /\ Prompts'
          /\ ReadSound' /\ SavedKept'
          /\ \A x \in Elems(toW') : ToWriter(x)'
          /\ \A x \in Elems(toR) : ToReader(x)'
      BY <1>1, <1>2, <2>4, <2>5, WriterTakes
    <2>7. TypeOK'
      BY <1>1, <1>5, <2>4 DEF DInv, TypeOK
    <2> QED  BY <1>1, <2>4, <2>6, <2>7 DEF DInv, Messages
  <1> QED  BY <1>6, <1>7

\* A digest of an upload reaches the host: it confirms, or has the client asked.
LEMMA UploadDigestData ==
    ASSUME IInv, DInv, UploadDigest
    PROVE  DInv'
  <1> PICK m : m = Head(toW)
    OBVIOUS
  <1>1. /\ UNCHANGED <<upload, audited, session, alive, started, rd, prompt, paused, saved,
                       src, dst, part, digest, pending, audit, status, faults>>
        /\ UNCHANGED <<omitted, passed, ignored, holed>>
        /\ upload /\ toW # <<>> /\ toW' = Tail(toW) /\ m.t = "digest"
    BY DEF UploadDigest, RecvW, link, disk, ui, log, hist
  <1>2. m = First(toW) /\ m.n \in Files /\ m.p[1] = src[m.n]
    BY <1>1, PoppedFacts DEF IInv, Shapes, Popped, DInv, Messages, ToWriter
  <1>3. /\ digest' \in [Files -> 0 .. MaxVersion] /\ faults' \subseteq FaultKinds
        /\ pending' \in {"none", "open", "finished"}
        /\ audit' \in {"none", "COMPLETED", "FAILED", "CANCELLED"}
        /\ status' \in {"none", "done", "error", "cancelled"} /\ wr \in WriteJob
        /\ src[m.n] \in 0 .. MaxVersion
    BY <1>1, <1>2 DEF DInv, TypeOK
  <1>4. CASE ~wr.on
    <2>1. wr' = wr /\ wr = NoWrite /\ toR' = toR
      BY <1>4 DEF UploadDigest, IInv, JobSound
    <2>2. FileTypes' /\ StoredIntact' /\ KeptStays
      BY <1>1, FilesUntouched DEF HistGrows
    <2> QED  BY <1>1, <1>3, <2>1, <2>2, WriterStops
  <1>5. CASE wr.on
    <2>1. wr' = [wr EXCEPT !.ver = src[m.n]]
      BY <1>2, <1>5 DEF UploadDigest
    <2>2. wr' \in WriteJob /\ SameFile(wr') /\ wr'.ver = src[m.n]
      <3>1. IsWrite(wr)
        BY DEF IInv, Shapes
      <3>2. wr' \in WriteJob
        BY <1>3, <2>1 DEF WriteJob
      <3> QED  BY <2>1, <3>1, <3>2 DEF SameFile, IsWrite
    <2>3. /\ FileTypes' /\ PartSound' /\ StoredIntact' /\ KeptStays
          /\ AtRest(m.n)'
      <3>1. AtRest(m.n)
        BY <1>1, <1>2, <1>5 DEF DInv, HeadReady, CanTake
      <3> QED  BY <1>1, <2>2, <3>1, WriterNoted DEF Lasting, HistGrows, Settled
    <2>4. /\ InOrder' /\ HeadReady' /\ TailReady' /\ ReaderReady' /\ Prompts'
          /\ ReadSound' /\ SavedKept'
          /\ \A x \in Elems(toW') : ToWriter(x)'
          /\ \A x \in Elems(toR) : ToReader(x)'
      <3>1. (\A n, k : ~Sends(m, n, k, Spoiled')) /\ \A n : ~Ends(m, n)
        BY <1>1 DEF Sends, Ends
      <3> QED  BY <1>1, <1>2, <2>3, <3>1, WriterTakes
    <2>5. PICK e : /\ toR' = (IF Reader \in alive THEN toR \o <<e>> ELSE toR)
                   /\ e.n = m.n
                   /\ \/ /\ e.t = "need" /\ e.p[1] = Len(part[m.n])
                         /\ digest[m.n] = src[m.n] /\ Exists(m.n, part)
                      \/ e.t = "need" /\ e.p[1] = 0
                      \/ e.t = "confirm" /\ e.p[1] = 0
      <3>1. \/ /\ Resumable(m.n, m.p[1], m.p[2] = 1)
               /\ SendR(<<Msg("need", m.n, <<Len(part[m.n]), 0>>)>>)
            \/ SendR(<<Msg("need", m.n, EOF)>>)
            \/ SendR(<<Answer(m.n, FALSE, 0)>>)
        BY <1>5 DEF UploadDigest
      <3>2. CASE /\ Resumable(m.n, m.p[1], m.p[2] = 1)
                 /\ SendR(<<Msg("need", m.n, <<Len(part[m.n]), 0>>)>>)
        <4> PICK e : e = Msg("need", m.n, <<Len(part[m.n]), 0>>)
          OBVIOUS
        <4>1. e.n = m.n /\ e.t = "need" /\ e.p[1] = Len(part[m.n])
          BY DEF Msg
        <4>2. digest[m.n] = src[m.n] /\ Exists(m.n, part)
          BY <1>2, <3>2 DEF Resumable
        <4> QED  BY <3>2, <4>1, <4>2 DEF SendR
      <3>3. CASE SendR(<<Msg("need", m.n, EOF)>>)
        <4> PICK e : e = Msg("need", m.n, EOF)
          OBVIOUS
        <4>1. e.n = m.n /\ e.t = "need" /\ e.p[1] = 0
          BY DEF Msg, EOF
        <4> QED  BY <3>3, <4>1 DEF SendR
      <3>4. CASE SendR(<<Answer(m.n, FALSE, 0)>>)
        <4> PICK e : e = Answer(m.n, FALSE, 0)
          OBVIOUS
        <4>1. e.n = m.n /\ e.t = "confirm" /\ e.p[1] = 0
          BY DEF Msg, Answer
        <4> QED  BY <3>4, <4>1 DEF SendR
      <3> QED  BY <3>1, <3>2, <3>3, <3>4
    <2>6. ToReader(e)'
      <3>1. /\ Len(part[m.n]) \in Nat /\ (Ok(m.n) => Len(part[m.n]) <= NumBlocks)
            /\ 0 \in Nat /\ 0 <= NumBlocks /\ (Ok(m.n)' => Ok(m.n))
        <4>1. part[m.n] \in Content /\ (Ok(m.n) => Len(part[m.n]) <= NumBlocks)
          BY <1>2 DEF DInv, FileTypes
        <4>2. Len(part[m.n]) \in Nat
          BY <4>1 DEF Content
        <4>3. Ok(m.n)' => Ok(m.n)
          BY <1>1 DEF Ok, Spoiled
        <4> QED  BY <4>1, <4>2, <4>3, TransferAssumption
      <3>2. e.t = "need" => Offers(e.n, e.p[1])'
        BY <1>1, <2>2, <2>3, <2>5 DEF Offers
      <3>3. e.t = "confirm" => Ready(e.n, e.p[1] + 1)'
        <4>1. ~(m.n < m.n)
          BY <1>2, TransferAssumption DEF Files
        <4> QED  BY <1>1, <2>2, <2>3, <2>5, <4>1 DEF Ready, AtRest
      <3> QED  BY <1>2, <2>5, <3>1, <3>2, <3>3 DEF ToReader
    <2>7. \A x \in Elems(toR') : ToReader(x)'
      BY <2>4, <2>5, <2>6, WriterSends
    <2>8. TypeOK'
      BY <1>1, <2>2 DEF DInv, TypeOK
    <2> QED  BY <2>3, <2>4, <2>7, <2>8 DEF DInv, Messages
  <1> QED  BY <1>4, <1>5

\* The file that is there cannot be looked at: the host says so, the client keeps its
\* reader waiting.
LEMMA DigestFaultData ==
    ASSUME IInv, DInv, DigestFault
    PROVE  DInv'
  <1> PICK m : m = Head(toW)
    OBVIOUS
  <1>1. /\ UNCHANGED <<upload, audited, session, alive, started, rd, prompt, paused, saved,
                       src, dst, part, digest, status>>
        /\ UNCHANGED <<omitted, passed, ignored, holed>>
        /\ toW # <<>> /\ toW' = Tail(toW) /\ m.t = "digest" /\ wr.on
        /\ faults' \subseteq FaultKinds
    BY DEF DigestFault, RecvW, Fault, DInv, TypeOK, link, disk, ui, hist
  <1>2. m = First(toW) /\ m.n \in Files /\ m.p[1] = src[m.n]
    BY <1>1, PoppedFacts DEF IInv, Shapes, Popped, DInv, Messages, ToWriter
  <1>3. IF upload THEN /\ SendR(<<Msg("error", m.n, EOF)>>) /\ Outcome("FAILED")
                       /\ wr' = wr
                  ELSE /\ wr' = [wr EXCEPT !.ver = src[m.n]]
                       /\ UNCHANGED <<toR, pending, audit>>
    BY <1>2 DEF DigestFault, log
  <1>4. /\ wr' \in WriteJob /\ SameFile(wr')
    <2>1. IsWrite(wr) /\ wr \in WriteJob /\ src[m.n] \in 0 .. MaxVersion
      BY <1>2 DEF IInv, Shapes, DInv, TypeOK
    <2>2. wr' \in WriteJob
      BY <1>3, <2>1 DEF WriteJob
    <2> QED  BY <1>3, <2>1, <2>2 DEF SameFile, IsWrite
  <1>5. /\ pending' \in {"none", "open", "finished"}
        /\ audit' \in {"none", "COMPLETED", "FAILED", "CANCELLED"}
        /\ Settled => Settled'
    <2>1. CASE upload
      BY <1>1, <1>3, <2>1, OutcomeType DEF DInv, Outcome, Settled
    <2>2. CASE ~upload
      BY <1>1, <1>3, <2>2 DEF DInv, TypeOK, Settled
    <2> QED  BY <2>1, <2>2
  <1>6. FileTypes' /\ PartSound' /\ StoredIntact' /\ KeptStays
    BY <1>1, <1>4, <1>5, WriterNoted DEF Lasting, HistGrows
  <1>7. /\ InOrder' /\ HeadReady' /\ TailReady' /\ ReaderReady' /\ Prompts'
        /\ ReadSound' /\ SavedKept'
        /\ \A x \in Elems(toW') : ToWriter(x)'
        /\ \A x \in Elems(toR) : ToReader(x)'
    <2>1. (\A n, k : ~Sends(m, n, k, Spoiled')) /\ \A n : ~Ends(m, n)
      BY <1>1 DEF Sends, Ends
    <2> QED  BY <1>1, <1>2, <1>6, <2>1, WriterTakes
  <1>8. \A x \in Elems(toR') : ToReader(x)'
    <2>1. CASE upload
      <3> PICK e : e = Msg("error", m.n, EOF)
        OBVIOUS
      <3>1. e.t = "error"
        BY DEF Msg
      <3>2. ToReader(e)'
        BY <3>1 DEF ToReader, Answers
      <3> QED  BY <1>3, <1>7, <2>1, <3>2, WriterSends DEF SendR
    <2>2. CASE ~upload
      BY <1>3, <1>7, <2>2
    <2> QED  BY <2>1, <2>2
  <1>9. TypeOK'
    BY <1>1, <1>4, <1>5 DEF DInv, TypeOK
  <1> QED  BY <1>6, <1>7, <1>8, <1>9 DEF DInv, Messages

\* A digest of a download reaches the client: it answers, or asks its user.
LEMMA DownloadDigestData ==
    ASSUME IInv, DInv, DownloadDigest
    PROVE  DInv'
  <1> PICK m : m = Head(toW)
    OBVIOUS
  <1>1. /\ UNCHANGED <<upload, audited, session, alive, started, rd, paused, saved,
                       src, dst, part, digest, pending, audit, status>>
        /\ ~upload /\ toW # <<>> /\ toW' = Tail(toW) /\ m.t = "digest"
    BY DEF DownloadDigest, RecvW, link, disk, log
  <1>2. m = First(toW) /\ m.n \in Files /\ m.p[1] = src[m.n]
    BY <1>1, PoppedFacts DEF IInv, Shapes, Popped, DInv, Messages, ToWriter
  <1>3. /\ digest' \in [Files -> 0 .. MaxVersion]
        /\ pending' \in {"none", "open", "finished"}
        /\ audit' \in {"none", "COMPLETED", "FAILED", "CANCELLED"}
        /\ status' \in {"none", "done", "error", "cancelled"} /\ wr \in WriteJob
        /\ src[m.n] \in 0 .. MaxVersion
    BY <1>1, <1>2 DEF DInv, TypeOK
  <1>4. prompt = {} /\ (toW' # <<>> => First(toW').t = "cancel")
    BY <1>1, PoppedFacts DEF IInv, Shapes, DInv, Prompts, InOrder, Popped, Follows
  <1>5. faults' \subseteq FaultKinds
    BY DEF DownloadDigest, Positioned, Fault, DInv, TypeOK
  <1>6. CASE ~wr.on
    <2>1. wr' = wr /\ wr = NoWrite /\ UNCHANGED <<toR, prompt, omitted, passed, ignored, holed>>
      BY <1>6 DEF DownloadDigest, IInv, JobSound, hist
    <2>2. FileTypes' /\ StoredIntact' /\ KeptStays
      BY <1>1, <2>1, FilesUntouched DEF HistGrows
    <2> QED  BY <1>1, <1>3, <1>5, <2>1, <2>2, WriterStops
  <1>7. CASE wr.on
    <2> DEFINE w == [wr EXCEPT !.ver = src[m.n]]
    <2>1. w \in WriteJob /\ SameFile(w) /\ w.ver = src[m.n] /\ AtRest(m.n)
      <3>1. IsWrite(wr)
        BY DEF IInv, Shapes
      <3>2. w \in WriteJob
        BY <1>3 DEF WriteJob
      <3>3. AtRest(m.n)
        BY <1>1, <1>2, <1>7 DEF DInv, HeadReady, CanTake
      <3> QED  BY <3>1, <3>2, <3>3 DEF SameFile, IsWrite
    <2>2. (\A n, k : ~Sends(m, n, k, Spoiled')) /\ \A n : ~Ends(m, n)
      BY <1>1 DEF Sends, Ends
    <2> DEFINE Goes(skip, o, k) ==
                 /\ o # 0 => digest[m.n] = src[m.n] /\ Exists(m.n, part)
                 /\ wr' = WriteConfirm(w, m.n, skip, k)
                 /\ SendR(<<Answer(m.n, skip, o)>>) /\ NoteSkip(m.n, skip)
                 /\ NoteIgnored(m.n, k # o \/ (wr.num # m.n /\ o > 0))
                 /\ UNCHANGED <<prompt, passed, holed>>
    <2>3. \/ /\ wr' = w /\ prompt' = prompt \cup {m.n}
             /\ UNCHANGED <<toR, omitted, passed, ignored, holed>>
          \/ \E skip \in BOOLEAN, o \in {0, Len(part[m.n])} : \E k \in {0, o} : Goes(skip, o, k)
      <3> DEFINE resuming == Resumable(m.n, m.p[1], wr.resume)
                 skip == ~resuming /\ Exists(m.n, dst) /\ wr.always = "skip"
                 o == IF resuming THEN Len(part[m.n]) ELSE 0
      <3>1. \/ /\ wr' = w /\ prompt' = prompt \cup {m.n}
               /\ UNCHANGED <<toR, omitted, passed, ignored, holed>>
            \/ \E k \in {0, o} :
                  /\ wr' = WriteConfirm(w, m.n, skip, k)
                  /\ SendR(<<Answer(m.n, skip, o)>>) /\ NoteSkip(m.n, skip)
                  /\ NoteIgnored(m.n, k # o \/ (wr.num # m.n /\ o > 0))
                  /\ UNCHANGED <<prompt, passed, holed>>
        BY <1>2, <1>7 DEF DownloadDigest, hist
      <3>2. o # 0 => digest[m.n] = src[m.n] /\ Exists(m.n, part)
        BY <1>2 DEF Resumable
      <3>3. skip \in BOOLEAN /\ o \in {0, Len(part[m.n])}
        OBVIOUS
      <3> HIDE DEF skip, o
      <3> QED  BY <3>1, <3>2, <3>3
    <2> HIDE DEF w, Goes
    <2>4. CASE /\ wr' = w /\ prompt' = prompt \cup {m.n}
               /\ UNCHANGED <<toR, omitted, passed, ignored, holed>>
      <3>1. FileTypes' /\ PartSound' /\ StoredIntact' /\ KeptStays /\ AtRest(m.n)'
        BY <1>1, <2>1, <2>4, WriterNoted DEF Lasting, HistGrows, Settled
      <3>2. /\ InOrder' /\ HeadReady' /\ TailReady' /\ ReaderReady'
            /\ ReadSound' /\ SavedKept'
            /\ \A x \in Elems(toW') : ToWriter(x)'
            /\ \A x \in Elems(toR) : ToReader(x)'
        BY <1>1, <1>2, <2>2, <3>1, WriterGoesOn
      <3>3. Offers(m.n, 0)'
        BY <1>1, <2>1, <2>4, <3>1 DEF Offers
      <3>4. Prompts'
        BY <1>4, <2>4, <3>3 DEF Prompts
      <3>5. TypeOK'
        BY <1>1, <1>2, <1>5, <2>1, <2>4 DEF DInv, TypeOK
      <3> QED  BY <2>4, <3>1, <3>2, <3>4, <3>5 DEF DInv, Messages
    <2>5. ASSUME NEW skip \in BOOLEAN, NEW o \in {0, Len(part[m.n])}, NEW k \in {0, o},
                 Goes(skip, o, k)
          PROVE  DInv'
      <3> USE <2>5 DEF Goes
      <3>1. o \in Nat /\ (Ok(m.n)' => o <= NumBlocks)
        <4>1. part[m.n] \in Content /\ (Ok(m.n) => Len(part[m.n]) <= NumBlocks)
          BY <1>2 DEF DInv, FileTypes
        <4>2. Len(part[m.n]) \in Nat
          BY <4>1 DEF Content
        <4>3. Ok(m.n)' => Ok(m.n)
          BY <2>5 DEF Ok, Spoiled, NoteIgnored
        <4> QED  BY <4>1, <4>2, <4>3, TransferAssumption
      <3>2. /\ Lasting /\ (skip => m.n \in omitted')
            /\ (k # o \/ (wr.num # m.n /\ o > 0)) => m.n \in ignored'
        BY <1>1, <2>5 DEF Lasting, HistGrows, Settled, NoteSkip, NoteIgnored
      <3>3. o > 0 => o = Len(part[m.n]) /\ digest[m.n] = src[m.n] /\ Exists(m.n, part)
        BY <2>5
      <3>4. /\ FileTypes' /\ PartSound' /\ StoredIntact' /\ KeptStays
            /\ ~skip => Ready(m.n, o + 1)'
            /\ skip => AtRest(m.n + 1)'
        <4>1. CASE skip
          BY <1>1, <1>2, <2>1, <2>5, <3>2, <4>1, WriterSkipped
        <4>2. CASE ~skip
          BY <1>1, <1>2, <2>1, <2>5, <3>1, <3>2, <3>3, <4>2, WriterConfirmed
        <4> QED  BY <4>1, <4>2
      <3>5. wr' \in WriteJob
        <4>1. k \in Nat
          BY <3>1
        <4> QED  BY <1>2, <2>1, <2>5, <4>1, WriteConfirmType
      <3>6. /\ InOrder' /\ HeadReady' /\ TailReady' /\ ReaderReady' /\ Prompts'
            /\ ReadSound' /\ SavedKept'
            /\ \A x \in Elems(toW') : ToWriter(x)'
            /\ \A x \in Elems(toR) : ToReader(x)'
        BY <1>1, <1>2, <2>2, <2>5, <3>4, WriterTakes
      <3> PICK e : e = Answer(m.n, skip, o)
        OBVIOUS
      <3>7. e.t = (IF skip THEN "skip" ELSE "confirm") /\ e.n = m.n /\ e.p[1] = o
        BY DEF Answer, Msg
      <3>8. ToReader(e)'
        BY <1>2, <3>1, <3>4, <3>7 DEF ToReader
      <3>9. \A x \in Elems(toR') : ToReader(x)'
        BY <2>5, <3>6, <3>8, WriterSends DEF SendR
      <3>10. TypeOK'
        BY <1>1, <1>5, <2>5, <3>5 DEF DInv, TypeOK
      <3> QED  BY <3>4, <3>6, <3>9, <3>10 DEF DInv, Messages
    <2> QED  BY <2>3, <2>4, <2>5
  <1> QED  BY <1>6, <1>7

\* A reader that waits has nothing on its way to the writer but its question.
LEMMA Waiting ==
    ASSUME IInv, DInv, rd.on, prompt # {} \/ Has(toR, Answers)
    PROVE  /\ toW = <<>> /\ rd.open /\ ~rd.confirmed /\ rd \in ReadJob
           /\ rd.num \in Files /\ rd.ver = src[rd.num] /\ rd.pos = 0
  <1>1. toW = <<>>
    BY NoAnswerYet
  <1>2. rd.open /\ ~rd.confirmed
    BY DEF IInv, OneQuestion
  <1> QED  BY <1>1, <1>2 DEF IInv, JobSound, DInv, TypeOK, ReadSound

\* The answer makes the reader go on with the file it waits with, or with the next.
LEMMA ReaderAnswered ==
    ASSUME DInv, NEW n \in Files, NEW skip \in BOOLEAN, NEW o \in Nat,
           Ok(n)' => o <= NumBlocks,
           NEW r \in ReadJob, r.on, r.num = n, r.open, r.ver = src[n], r.pos = 0,
           rd' = ReadConfirm(r, n, skip, o), UNCHANGED src
    PROVE  /\ rd' \in ReadJob /\ rd'.on /\ ReadSound'
           /\ skip => ~rd'.open /\ rd'.num = n + 1
           /\ ~skip => rd'.open /\ rd'.confirmed /\ rd'.num = n /\ rd'.pos = o
  <1>1. src \in [Files -> 1 .. MaxVersion]
    BY DEF DInv, TypeOK
  <1>2. rd' \in ReadJob
    BY <1>1, ReadConfirmType
  <1>3. CASE skip
    <2>1. rd' = [[r EXCEPT !.num = @ + 1, !.open = FALSE, !.confirmed = FALSE]
                   EXCEPT !.skipped = TRUE, !.hadSkip = TRUE]
      BY <1>3 DEF ReadConfirm, Advance
    <2>2. rd'.on /\ ~rd'.open /\ rd'.num = n + 1
      BY <2>1 DEF ReadJob
    <2> QED  BY <1>2, <1>3, <2>2 DEF ReadSound
  <1>4. CASE ~skip /\ o = 0
    <2>1. rd' = [r EXCEPT !.confirmed = TRUE, !.skipped = FALSE]
      BY <1>4 DEF ReadConfirm
    <2>2. rd'.on /\ rd'.open /\ rd'.confirmed /\ rd'.num = n /\ rd'.pos = 0 /\ rd'.ver = src[n]
      BY <2>1 DEF ReadJob
    <2> QED  BY <1>2, <1>4, <2>2, TransferAssumption DEF ReadSound
  <1>5. CASE ~skip /\ o # 0
    <2>1. rd' = [r EXCEPT !.confirmed = TRUE, !.skipped = FALSE,
                          !.open = TRUE, !.ver = src[n], !.pos = o]
      BY <1>5 DEF ReadConfirm
    <2>2. rd'.on /\ rd'.open /\ rd'.confirmed /\ rd'.num = n /\ rd'.pos = o /\ rd'.ver = src[n]
      BY <2>1 DEF ReadJob
    <2> QED  BY <1>2, <1>5, <2>2 DEF ReadSound
  <1> QED  BY <1>3, <1>4, <1>5

\* What is offered can be taken from its first block.
LEMMA OfferTaken ==
    ASSUME NEW n \in Files, Offers(n, 0)
    PROVE  Ready(n, 1)
  <1>1. ~(n < n)
    BY TransferAssumption DEF Files
  <1> QED  BY <1>1 DEF Offers, AtRest, Ready

\* Behind a file that is skipped the writer is at the next one.
LEMMA PastSkipped ==
    ASSUME NEW n \in Files, AtRest(n)', n \in omitted', PartSound'
    PROVE  AtRest(n + 1)'
  <1>1. n \in Nat /\ Files \subseteq Nat
    BY TransferAssumption DEF Files
  <1>2. Behind(n + 1)'
    <2> SUFFICES ASSUME ~Settled', NEW f \in Files, f < n + 1
                 PROVE  Kept(f)' \/ (wr'.open /\ wr'.num = f)
      BY DEF Behind
    <2>1. f < n \/ f = n
      BY <1>1
    <2> QED  BY <2>1 DEF AtRest, Behind, Kept
  <1>3. \A k \in Files : k < n => k < n + 1
    BY <1>1
  <1>4. wr'.open => Full' /\ wr'.num < n + 1
    BY <1>3 DEF AtRest, PartSound
  <1> QED  BY <1>2, <1>4 DEF AtRest

\* The writer's answer reaches the reader.
LEMMA ConfirmReaderData ==
    ASSUME IInv, DInv, NEW skip \in BOOLEAN, ConfirmReader(skip)
    PROVE  DInv'
  <1> PICK m : m = Head(toR)
    OBVIOUS
  <1>1. /\ UNCHANGED <<upload, audited, session, alive, started, wr, toW, prompt, paused, saved,
                       src, dst, part, digest, pending, audit, status>>
        /\ UNCHANGED <<omitted, passed, holed>>
        /\ toR # <<>> /\ toR' = Tail(toR) /\ m.t = (IF skip THEN "skip" ELSE "confirm")
    BY DEF ConfirmReader, RecvR, link, disk, ui, log
  <1>2. PICK k \in {0, m.p[1]} :
           /\ Positioned(rd, m.n, m.p[1], k)
           /\ rd' = IF rd.on THEN ReadConfirm(rd, m.n, skip, k) ELSE rd
           /\ NoteIgnored(m.n, k # m.p[1])
    BY DEF ConfirmReader
  <1>3. m \in Elems(toR) /\ Elems(toR') \subseteq Elems(toR) /\ ToReader(m)
    BY <1>1, ReaderTakes DEF DInv, Messages
  <1>4. m.n \in Files /\ m.p[1] \in Nat /\ (Ok(m.n) => m.p[1] <= NumBlocks) /\ Has(toR, Answers)
    BY <1>1, <1>3, HasElems DEF ToReader, Answers
  <1>5. CASE ~rd.on
    <2>1. /\ pending' \in {"none", "open", "finished"}
          /\ audit' \in {"none", "COMPLETED", "FAILED", "CANCELLED"}
          /\ status' \in {"none", "done", "error", "cancelled"}
      BY <1>1 DEF DInv, TypeOK
    <2>2. UNCHANGED <<rd, faults, ignored>>
      BY <1>2, <1>5 DEF Positioned, NoteIgnored
    <2>3. Settled => Settled'
      BY <1>1 DEF Settled
    <2> QED  BY <1>1, <2>1, <2>2, <2>3, ReaderQuiet
  <1>6. CASE rd.on
    <2>1. /\ toW = <<>> /\ rd.open /\ rd \in ReadJob /\ rd.ver = src[rd.num] /\ rd.pos = 0
          /\ prompt = {}
      BY <1>4, <1>6, Waiting DEF IInv, OneQuestion
    <2>2. m.n = rd.num
      <3>1. m.t \in Answers /\ m = Head(toR)
        BY <1>1 DEF Answers
      <3>2. About(toR, Answers, rd.num)
        BY <1>6 DEF IInv, OneQuestion
      <3>3. Took(toR, Tail(toR))
        BY <1>1, TookFacts DEF IInv, Shapes
      <3> QED  BY <3>1, <3>2, <3>3 DEF Took
    <2>3. Lasting /\ (k # m.p[1] => m.n \in ignored')
      BY <1>1, <1>2 DEF Lasting, HistGrows, Settled, NoteIgnored
    <2>4. k \in Nat /\ (Ok(m.n)' => k <= NumBlocks)
      <3>1. Ok(m.n)' => Ok(m.n)
        BY <2>3 DEF Lasting, HistGrows, Ok, Spoiled
      <3> QED  BY <1>4, <3>1, TransferAssumption
    <2>5. /\ rd' \in ReadJob /\ rd'.on /\ ReadSound'
          /\ skip => ~rd'.open /\ rd'.num = m.n + 1
          /\ ~skip => rd'.open /\ rd'.confirmed /\ rd'.num = m.n /\ rd'.pos = k
      <3>1. rd' = ReadConfirm(rd, m.n, skip, k)
        BY <1>2, <1>6
      <3> QED  BY <1>1, <1>4, <1>6, <2>1, <2>2, <2>4, <3>1, ReaderAnswered
    <2>6. /\ FileTypes' /\ PartSound' /\ StoredIntact' /\ KeptStays /\ ReadyStays
          /\ InOrder' /\ HeadReady' /\ \A x \in Elems(toW') : ToWriter(x)'
      BY <1>1, <2>3, WriterIdle
    <2>7. TypeOK'
      <3>1. faults' \subseteq FaultKinds
        BY <1>2 DEF Positioned, Fault, DInv, TypeOK
      <3> QED  BY <1>1, <2>5, <3>1 DEF DInv, TypeOK
    <2>8. SavedKept' /\ TailReady' /\ Prompts'
      BY <1>1, <2>1, <2>6 DEF DInv, SavedKept, KeptStays, TailReady, Prompts
    <2>9. ReaderReady'
      <3>1. wr.on => /\ ~skip => Ready(m.n, m.p[1] + 1)'
                     /\ skip => AtRest(m.n + 1)'
        BY <1>1, <1>3, <1>6, <2>6 DEF ToReader, ReadyStays
      <3>2. Ready(m.n, m.p[1] + 1)' => Ready(m.n, k + 1)'
        BY <2>3 DEF Ready, Ok, Spoiled
      <3> QED  BY <1>1, <2>5, <3>1, <3>2 DEF ReaderReady
    <2>10. Messages'
      BY <1>1, <1>3, <1>6, <2>6, ToReaderStays DEF DInv, Messages
    <2> QED  BY <2>5, <2>6, <2>7, <2>8, <2>9, <2>10 DEF DInv
  <1> QED  BY <1>5, <1>6

\* The host has the file already: the client answers for its user, or asks.
LEMMA UploadNeedData ==
    ASSUME IInv, DInv, UploadNeed
    PROVE  DInv'
  <1> PICK m : m = Head(toR)
    OBVIOUS
  <1>1. /\ UNCHANGED <<upload, audited, session, alive, started, wr, paused, saved,
                       src, dst, part, digest, pending, audit, status>>
        /\ UNCHANGED <<passed, holed>>
        /\ toR # <<>> /\ toR' = Tail(toR) /\ m.t = "need"
    BY DEF UploadNeed, RecvR, link, disk, log, hist
  <1>2. m \in Elems(toR) /\ Elems(toR') \subseteq Elems(toR) /\ ToReader(m)
    BY <1>1, ReaderTakes DEF DInv, Messages
  <1>3. m.n \in Files /\ m.p[1] \in Nat /\ (Ok(m.n) => m.p[1] <= NumBlocks) /\ Has(toR, Answers)
    BY <1>1, <1>2, HasElems DEF ToReader, Answers
  <1>4. CASE ~rd.on
    <2>1. UNCHANGED <<rd, toW, prompt, faults, omitted, ignored>>
      BY <1>4 DEF UploadNeed, hist
    <2>2. /\ pending' \in {"none", "open", "finished"}
          /\ audit' \in {"none", "COMPLETED", "FAILED", "CANCELLED"}
          /\ status' \in {"none", "done", "error", "cancelled"} /\ (Settled => Settled')
      BY <1>1 DEF DInv, TypeOK, Settled
    <2> QED  BY <1>1, <2>1, <2>2, ReaderQuiet
  <1>5. CASE rd.on
    <2>1. /\ toW = <<>> /\ rd.open /\ ~rd.confirmed /\ rd \in ReadJob
          /\ rd.ver = src[rd.num] /\ rd.pos = 0 /\ prompt = {}
      BY <1>3, <1>5, Waiting DEF IInv, OneQuestion
    <2>2. m.n = rd.num
      <3>1. m.t \in Answers /\ m = Head(toR)
        BY <1>1 DEF Answers
      <3>2. About(toR, Answers, rd.num)
        BY <1>5 DEF IInv, OneQuestion
      <3>3. Took(toR, Tail(toR))
        BY <1>1, TookFacts DEF IInv, Shapes
      <3> QED  BY <3>1, <3>2, <3>3 DEF Took
    <2>3. wr.on => Offers(m.n, m.p[1]) /\ Offers(m.n, 0)
      <3>1. wr.on => Offers(m.n, m.p[1])
        BY <1>1, <1>2, <1>5 DEF ToReader
      <3>2. ~(0 > 0)
        OBVIOUS
      <3> QED  BY <3>1, <3>2 DEF Offers
    <2> DEFINE Goes(skip, k) == /\ Positioned(rd, m.n, m.p[1], k)
                                /\ rd' = ReadConfirm(rd, m.n, skip, k)
                                /\ SendW(<<Answer(m.n, skip, m.p[1])>>)
                                /\ NoteSkip(m.n, skip) /\ NoteIgnored(m.n, k # m.p[1])
                                /\ UNCHANGED prompt
    <2>4. \/ prompt' = prompt \cup {m.n} /\ UNCHANGED <<rd, toW, faults, omitted, ignored>>
          \/ \E skip \in BOOLEAN : \E k \in {0, m.p[1]} : Goes(skip, k)
      <3> DEFINE skip == ~(rd.resume /\ m.p[1] > 0) /\ rd.always = "skip"
      <3>1. \/ prompt' = prompt \cup {m.n} /\ UNCHANGED <<rd, toW, faults, omitted, ignored>>
            \/ \E k \in {0, m.p[1]} : Goes(skip, k)
        BY <1>5 DEF UploadNeed, hist
      <3>2. skip \in BOOLEAN
        OBVIOUS
      <3> HIDE DEF skip, Goes
      <3> QED  BY <3>1, <3>2
    <2> HIDE DEF Goes
    <2>5. CASE prompt' = prompt \cup {m.n} /\ UNCHANGED <<rd, toW, faults, omitted, ignored>>
      <3>1. /\ FileTypes' /\ PartSound' /\ StoredIntact' /\ KeptStays /\ ReadyStays
            /\ InOrder' /\ HeadReady' /\ \A x \in Elems(toW') : ToWriter(x)'
        BY <1>1, <2>5, WriterIdle DEF Lasting, HistGrows, Settled
      <3>2. TypeOK'
        BY <1>1, <1>3, <2>5 DEF DInv, TypeOK
      <3>3. ReadSound' /\ SavedKept' /\ TailReady'
        BY <1>1, <2>5, <3>1 DEF DInv, ReadSound, SavedKept, KeptStays, TailReady, Ok, Spoiled
      <3>4. ReaderReady' /\ Prompts'
        BY <1>1, <2>1, <2>3, <2>5, <3>1 DEF ReaderReady, Prompts, ReadyStays
      <3>5. Messages'
        BY <1>1, <1>2, <2>5, <3>1, ToReaderStays DEF DInv, Messages
      <3> QED  BY <3>1, <3>2, <3>3, <3>4, <3>5 DEF DInv
    <2>6. ASSUME NEW skip \in BOOLEAN, NEW k \in {0, m.p[1]}, Goes(skip, k)
          PROVE  DInv'
      <3> USE <2>6 DEF Goes
      <3> PICK e : e = Answer(m.n, skip, m.p[1])
        OBVIOUS
      <3>1. e.t = (IF skip THEN "skip" ELSE "confirm") /\ e.n = m.n /\ e.p[1] = m.p[1]
        BY DEF Answer, Msg
      <3>2. IF Writer \in alive THEN Pushed(toW, toW', e) ELSE toW' = toW
        BY PushedFacts DEF IInv, Shapes, SendW
      <3>3. /\ Lasting /\ (skip => m.n \in omitted') /\ (k # m.p[1] => m.n \in ignored')
            /\ Ok(m.n)' => Ok(m.n)
        BY <1>1 DEF Lasting, HistGrows, Settled, NoteSkip, NoteIgnored, Ok, Spoiled
      <3>4. k \in Nat /\ (Ok(m.n)' => k <= NumBlocks)
        BY <1>3, <3>3, TransferAssumption
      <3>5. /\ rd' \in ReadJob /\ rd'.on /\ ReadSound'
            /\ skip => ~rd'.open /\ rd'.num = m.n + 1
            /\ ~skip => rd'.open /\ rd'.confirmed /\ rd'.num = m.n /\ rd'.pos = k
        <4>1. rd' = ReadConfirm(rd, m.n, skip, k)
          OBVIOUS
        <4> HIDE DEF Goes
        <4> QED  BY <1>1, <1>3, <1>5, <2>1, <2>2, <3>4, <4>1, ReaderAnswered
      <3>6. /\ FileTypes' /\ PartSound' /\ StoredIntact' /\ KeptStays /\ ReadyStays
            /\ InOrder' /\ HeadReady' /\ \A x \in Elems(toW') : ToWriter(x)'
            /\ \/ toW' # <<>> /\ Final(toW') = e
               \/ toW' = <<>> /\ ~wr.on
        <4>1. ReadyStays
          BY <1>1, <3>3, WriterUntouched
        <4>2. ToWriter(e)'
          BY <1>3, <3>1 DEF ToWriter
        <4>3. wr.on => CanTake(e)'
          <5>1. wr.on => Offers(m.n, m.p[1])' /\ AtRest(m.n)'
            BY <2>3, <4>1 DEF ReadyStays, Offers
          <5> QED  BY <3>1, <3>3, <5>1 DEF CanTake
        <4> HIDE DEF Goes
        <4> QED  BY <1>1, <2>1, <3>2, <3>3, <4>2, <4>3, ReaderSends
      <3>7. TypeOK'
        <4>1. faults' \subseteq FaultKinds
          BY DEF Positioned, Fault, DInv, TypeOK
        <4> QED  BY <1>1, <3>5, <4>1 DEF DInv, TypeOK
      <3>8. SavedKept' /\ Prompts'
        BY <1>1, <2>1, <3>6 DEF DInv, SavedKept, KeptStays, Prompts
      <3>9. TailReady' /\ ReaderReady'
        <4>1. k = m.p[1] \/ m.n \in Spoiled'
          BY <3>3 DEF Spoiled
        <4> HIDE DEF Goes
        <4> QED  BY <1>1, <3>1, <3>5, <3>6, <4>1 DEF TailReady, ReaderReady, Sends, Ends
      <3>10. Messages'
        BY <1>1, <1>2, <1>5, <3>6, ToReaderStays DEF DInv, Messages
      <3> QED  BY <3>5, <3>6, <3>7, <3>8, <3>9, <3>10 DEF DInv
    <2> QED  BY <2>4, <2>5, <2>6
  <1> QED  BY <1>4, <1>5

\* Nothing happens to the jobs, the channels and the files: the user answers a
\* question that no job is left for, or a job cannot be begun.
LEMMA JobsUntouched ==
    ASSUME IInv, DInv, prompt' \subseteq prompt,
           UNCHANGED <<upload, audited, session, alive, rd, wr, toR, toW, paused, saved,
                       src, dst, part, digest, pending, audit>>,
           started' \in BOOLEAN, status' \in {"none", "done", "error", "cancelled"},
           faults' \subseteq FaultKinds, Lasting
    PROVE  DInv'
  <1>1. /\ FileTypes' /\ PartSound' /\ StoredIntact' /\ KeptStays /\ ReadyStays
        /\ InOrder' /\ HeadReady' /\ \A x \in Elems(toW') : ToWriter(x)'
    BY WriterIdle
  <1>2. TypeOK'
    BY DEF DInv, TypeOK
  <1>3. ReadSound' /\ SavedKept' /\ TailReady' /\ ReaderReady'
    <2>1. \A f : Ok(f)' => Ok(f)
      BY <1>1 DEF Ok, KeptStays
    <2>2. \A a, n, k : Sends(a, n, k, Spoiled) => Sends(a, n, k, Spoiled')
      BY <1>1 DEF Sends, KeptStays
    <2> QED
      BY <1>1, <2>1, <2>2
         DEF DInv, ReadSound, SavedKept, KeptStays, TailReady, ReaderReady, ReadyStays
  <1>4. Prompts'
    BY <1>1 DEF DInv, Prompts, ReadyStays
  <1>5. Messages'
    BY <1>1, ToReaderStays DEF DInv, Messages
  <1> QED  BY <1>1, <1>2, <1>3, <1>4, <1>5 DEF DInv

\* The user answers: in an upload for the client's read job,
LEMMA UserAnswerReader ==
    ASSUME IInv, DInv, NEW n \in prompt, NEW skip \in BOOLEAN, NEW remember \in BOOLEAN,
           upload, rd.on, SetConfirmOverrideFile(n, skip, remember)
    PROVE  DInv'
  <1>1. /\ UNCHANGED <<upload, audited, session, alive, started, wr, toR, toW, paused, saved,
                       src, dst, part, digest, pending, audit, status, faults>>
        /\ UNCHANGED <<passed, ignored, holed>> /\ prompt' = prompt \ {n}
    BY DEF SetConfirmOverrideFile, link, disk, log
  <1>2. /\ toW = <<>> /\ rd.open /\ rd \in ReadJob
        /\ rd.num \in Files /\ rd.ver = src[rd.num] /\ rd.pos = 0
    BY Waiting
  <1>3. n = rd.num /\ prompt' = {} /\ (wr.on => Offers(n, 0))
    BY <1>1 DEF IInv, OneQuestion, DInv, Prompts
  <1>4. Lasting /\ (skip => n \in omitted')
    BY <1>1 DEF SetConfirmOverrideFile, NoteSkip, JobNumber, Lasting, HistGrows, Settled
  <1> DEFINE a == IF skip THEN "skip" ELSE "overwrite"
             r == IF remember THEN [rd EXCEPT !.always = a] ELSE rd
  <1>5. rd' = ReadConfirm(r, n, skip, 0)
    BY DEF SetConfirmOverrideFile
  <1>6. r \in ReadJob /\ r.on /\ r.num = n /\ r.open /\ r.ver = src[n] /\ r.pos = 0
    <2>1. a \in {"ask", "skip", "overwrite"}
      OBVIOUS
    <2> HIDE DEF a
    <2> QED  BY <1>2, <1>3, <2>1 DEF ReadJob
  <1> HIDE DEF r
  <1>7. n \in Files /\ 0 \in Nat /\ 0 <= NumBlocks
    BY <1>2, <1>3, TransferAssumption
  <1>8. /\ rd' \in ReadJob /\ rd'.on /\ ReadSound'
        /\ skip => ~rd'.open /\ rd'.num = n + 1
        /\ ~skip => rd'.open /\ rd'.confirmed /\ rd'.num = n /\ rd'.pos = 0
    BY <1>1, <1>5, <1>6, <1>7, ReaderAnswered
  <1>9. /\ FileTypes' /\ PartSound' /\ StoredIntact' /\ KeptStays /\ ReadyStays
        /\ InOrder' /\ HeadReady' /\ \A x \in Elems(toW') : ToWriter(x)'
    BY <1>1, <1>4, WriterIdle
  <1>10. TypeOK'
    BY <1>1, <1>8 DEF DInv, TypeOK
  <1>11. SavedKept' /\ TailReady' /\ Prompts'
    BY <1>1, <1>2, <1>3, <1>9 DEF DInv, SavedKept, KeptStays, TailReady, Prompts
  <1>12. ReaderReady'
    <2>1. wr.on => Ready(n, 1)' /\ AtRest(n)'
      BY <1>3, <1>7, <1>9, OfferTaken DEF ReadyStays, Offers
    <2>2. (wr.on /\ skip) => AtRest(n + 1)'
      BY <1>4, <1>7, <1>9, <2>1, PastSkipped
    <2> QED  BY <1>1, <1>8, <2>1, <2>2 DEF ReaderReady
  <1>13. Messages'
    BY <1>1, <1>9, ToReaderStays DEF DInv, Messages
  <1> QED  BY <1>8, <1>9, <1>10, <1>11, <1>12, <1>13 DEF DInv

\* in a download for its write job, which tells the host.
LEMMA UserAnswerWriter ==
    ASSUME IInv, DInv, NEW n \in prompt, NEW skip \in BOOLEAN, NEW remember \in BOOLEAN,
           ~upload, wr.on, SetConfirmOverrideFile(n, skip, remember)
    PROVE  DInv'
  <1>1. /\ UNCHANGED <<upload, audited, session, alive, started, rd, toW, paused, saved,
                       src, dst, part, digest, pending, audit, status, faults>>
        /\ UNCHANGED <<passed, ignored, holed>> /\ prompt' = prompt \ {n}
    BY DEF SetConfirmOverrideFile, link, disk, log
  <1>2. n \in Files /\ 0 \in Nat /\ wr \in WriteJob /\ prompt' = {}
    BY <1>1 DEF DInv, TypeOK, IInv, OneQuestion
  <1>3. rd.on => /\ toW = <<>> /\ rd.open /\ ~rd.confirmed /\ Offers(n, 0)
    BY Waiting DEF DInv, Prompts
  <1>4. Lasting /\ (skip => n \in omitted')
    BY <1>1 DEF SetConfirmOverrideFile, NoteSkip, JobNumber, Lasting, HistGrows, Settled
  <1> DEFINE a == IF skip THEN "skip" ELSE "overwrite"
             w == IF remember THEN [wr EXCEPT !.always = a] ELSE wr
  <1>5. wr' = WriteConfirm(w, n, skip, 0)
        /\ toR' = (IF Reader \in alive THEN toR \o <<Answer(n, skip, 0)>> ELSE toR)
    BY DEF SetConfirmOverrideFile, SendR
  <1>6. w \in WriteJob /\ SameFile(w) /\ w.ver = wr.ver
    <2>1. a \in {"ask", "skip", "overwrite"}
      OBVIOUS
    <2>2. IsWrite(wr)
      BY DEF IInv, Shapes
    <2> HIDE DEF a
    <2>3. w \in WriteJob
      BY <1>2, <2>1 DEF WriteJob
    <2> QED  BY <2>2, <2>3 DEF SameFile, IsWrite
  <1> HIDE DEF w
  <1>7. wr' \in WriteJob
    BY <1>2, <1>5, <1>6, WriteConfirmType
  <1>8. FileTypes' /\ StoredIntact' /\ KeptStays
    BY <1>1, <1>4, FilesUntouched DEF Lasting
  <1>9. /\ PartSound'
        /\ rd.on => (~skip => Ready(n, 1)') /\ (skip => AtRest(n + 1)')
    <2>1. CASE rd.on /\ skip
      <3>1. AtRest(n)
        BY <1>3, <2>1 DEF Offers
      <3> QED  BY <1>1, <1>2, <1>4, <1>5, <1>6, <2>1, <3>1, WriterSkipped
    <2>2. CASE rd.on /\ ~skip
      <3>1. AtRest(n) /\ w.ver = src[n] /\ ~(0 > 0) /\ 0 + 1 = 1
        BY <1>3, <1>6, <2>2 DEF Offers
      <3>2. wr' = WriteConfirm(w, n, FALSE, 0)
        BY <1>5, <2>2
      <3>3. 0 \in {0, 0} /\ (0 # 0 \/ (wr.num # n /\ 0 > 0) => n \in ignored')
        BY <3>1
      <3>4. PartSound' /\ Ready(n, 0 + 1)'
        BY <1>1, <1>2, <1>4, <1>6, <3>1, <3>2, <3>3, WriterConfirmed
      <3> QED  BY <2>2, <3>1, <3>4
    <2>3. CASE ~rd.on
      <3>1. SameFile(wr') \/ ~wr'.open
        BY <1>5, <1>6 DEF WriteConfirm, SameFile, IsWrite
      <3>2. PartSound'
        BY <1>1, <1>4, <3>1, WriterNoted DEF PartSound
      <3> QED  BY <2>3, <3>2
    <2> QED  BY <2>1, <2>2, <2>3
  <1>10. InOrder' /\ SavedKept' /\ ReadSound' /\ Prompts'
    BY <1>1, <1>2, <1>8
       DEF DInv, InOrder, SavedKept, KeptStays, ReadSound, Prompts, Ok, Spoiled
  <1>11. HeadReady'
    <2>1. toW # <<>> => First(toW).t = "cancel"
      BY DEF DInv, Prompts
    <2> QED  BY <1>1, <2>1 DEF HeadReady, CanTake
  <1>12. TailReady' /\ ReaderReady'
    BY <1>1, <1>3 DEF TailReady, ReaderReady
  <1>13. \A x \in Elems(toW') : ToWriter(x)'
    BY <1>1, <1>8, ToWriterStays DEF DInv, Messages
  <1>14. \A x \in Elems(toR') : ToReader(x)'
    <2> PICK e : e = Answer(n, skip, 0)
      OBVIOUS
    <2>1. e.t = (IF skip THEN "skip" ELSE "confirm") /\ e.n = n /\ e.p[1] = 0
      BY DEF Answer, Msg
    <2>2. ToReader(e)'
      <3>1. 0 + 1 = 1 /\ 0 <= NumBlocks
        BY TransferAssumption
      <3> QED  BY <1>1, <1>2, <1>9, <2>1, <3>1 DEF ToReader
    <2>3. ~Has(toR, Answers) /\ ~Has(toR, {"start"})
      BY DEF IInv, OneQuestion, StartFirst
    <2>4. ASSUME NEW x \in Elems(toR)  PROVE  ToReader(x)'
      <3>1. x.t \notin Answers /\ x.t # "start"
        BY <2>3, HasElems
      <3>2. ToReader(x)
        BY DEF DInv, Messages
      <3> QED  BY <1>8, <3>1, <3>2 DEF ToReader, KeptStays, Answers
    <2> QED  BY <1>5, <2>2, <2>4, WriterSends
  <1>15. TypeOK'
    BY <1>1, <1>7 DEF DInv, TypeOK
  <1> QED  BY <1>8, <1>9, <1>10, <1>11, <1>12, <1>13, <1>14, <1>15 DEF DInv, Messages

\* The user answers.
LEMMA UserAnswerData ==
    ASSUME IInv, DInv, UserAnswer
    PROVE  DInv'
  <1> PICK n \in prompt, skip \in BOOLEAN, remember \in BOOLEAN :
          SetConfirmOverrideFile(n, skip, remember)
    BY DEF UserAnswer
  <1>1. CASE (upload /\ ~rd.on) \/ (~upload /\ ~wr.on)
    <2>1. /\ UNCHANGED <<upload, audited, session, alive, started, rd, wr, toR, toW, paused, saved,
                         src, dst, part, digest, pending, audit, status, faults>>
          /\ prompt' \subseteq prompt
      BY <1>1 DEF SetConfirmOverrideFile, link, disk, log
    <2>2. Lasting
      BY <2>1 DEF SetConfirmOverrideFile, NoteSkip, Lasting, HistGrows, Settled
    <2>3. /\ started' \in BOOLEAN /\ status' \in {"none", "done", "error", "cancelled"}
          /\ faults' \subseteq FaultKinds
      BY <2>1 DEF DInv, TypeOK
    <2> QED  BY <2>1, <2>2, <2>3, JobsUntouched
  <1>2. CASE upload /\ rd.on
    BY <1>2, UserAnswerReader
  <1>3. CASE ~upload /\ wr.on
    BY <1>3, UserAnswerWriter
  <1>4. upload \in BOOLEAN
    BY DEF DInv, TypeOK
  <1> QED  BY <1>1, <1>2, <1>3, <1>4

\* The client cannot list what it shall send.
LEMMA SendFilesFaultData ==
    ASSUME IInv, DInv, SendFilesFault
    PROVE  DInv'
  <1>1. /\ UNCHANGED <<upload, audited, session, alive, rd, wr, toR, toW, prompt, paused, saved,
                       src, dst, part, digest, pending, audit>>
        /\ UNCHANGED <<omitted, passed, ignored, holed>> /\ started' \in BOOLEAN
    BY DEF SendFilesFault, link, ends, net, disk, log, hist
  <1>2. faults' \subseteq FaultKinds
    BY DEF SendFilesFault, Fault, DInv, TypeOK
  <1>3. status' \in {"none", "done", "error", "cancelled"}
    BY ReportType DEF SendFilesFault, DInv
  <1>4. Lasting /\ prompt' \subseteq prompt
    BY <1>1 DEF Lasting, HistGrows, Settled
  <1> QED  BY <1>1, <1>2, <1>3, <1>4, JobsUntouched

\* The host cannot list what it shall send: it has no job yet, and says so.
LEMMA HostStartFaultData ==
    ASSUME IInv, DInv, HostStartFault
    PROVE  DInv'
  <1> PICK m : m = Head(toR)
    OBVIOUS
  <1>1. /\ UNCHANGED <<upload, audited, session, alive, started, rd, wr, prompt, paused, saved,
                       src, dst, part, digest, pending, audit, status>>
        /\ UNCHANGED <<omitted, passed, ignored, holed>>
        /\ ~upload /\ toR # <<>> /\ toR' = Tail(toR) /\ m.t = "start"
    BY DEF HostStartFault, RecvR, link, ends, disk, ui, log, hist
  <1>2. m \in Elems(toR) /\ Elems(toR') \subseteq Elems(toR)
    BY <1>1, ReaderTakes
  <1>3. rd = NoRead /\ toW = <<>> /\ prompt = {}
    <2>1. Has(toR, {"start"})
      BY <1>1, <1>2, HasElems
    <2> QED  BY <1>1, <2>1 DEF IInv, StartFirst
  <1>4. ~rd.on /\ ~rd.open
    BY <1>3, NoJobs
  <1> PICK e : e = Msg("error", 0, EOF)
    OBVIOUS
  <1>5. e.t = "error"
    BY DEF Msg
  <1>6. IF Writer \in alive THEN Pushed(toW, toW', e) ELSE toW' = toW
    BY PushedFacts DEF HostStartFault, SendW, IInv, Shapes
  <1>7. /\ FileTypes' /\ PartSound' /\ StoredIntact' /\ KeptStays /\ ReadyStays
        /\ InOrder' /\ HeadReady' /\ \A x \in Elems(toW') : ToWriter(x)'
    <2>1. ToWriter(e)' /\ CanTake(e)'
      BY <1>5 DEF ToWriter, CanTake
    <2>2. Lasting
      BY <1>1 DEF Lasting, HistGrows, Settled
    <2> QED  BY <1>1, <1>3, <1>6, <2>1, <2>2, ReaderSends
  <1>8. TypeOK'
    <2>1. faults' \subseteq FaultKinds
      BY DEF HostStartFault, Fault, DInv, TypeOK
    <2> QED  BY <1>1, <2>1 DEF DInv, TypeOK
  <1>9. ReadSound' /\ TailReady' /\ ReaderReady' /\ Prompts'
    BY <1>1, <1>3, <1>4 DEF ReadSound, TailReady, ReaderReady, Prompts
  <1>10. SavedKept'
    BY <1>1, <1>7 DEF DInv, SavedKept, KeptStays
  <1>11. Messages'
    BY <1>1, <1>2, <1>7, ToReaderStays DEF DInv, Messages
  <1> QED  BY <1>7, <1>8, <1>9, <1>10, <1>11 DEF DInv

----------------------------------------------------------------------------
(* What holds in every behaviour.                                          *)

\* At first there are whole files, and nothing on its way.
LEMMA InitData == Init => DInv
  <1> SUFFICES ASSUME Init  PROVE  DInv
    OBVIOUS
  <1>1. /\ upload \in BOOLEAN /\ audited \in BOOLEAN /\ started = FALSE /\ session = 1
        /\ alive = {"client", "host"} /\ rd = NoRead /\ wr = NoWrite
        /\ toR = <<>> /\ toW = <<>> /\ prompt = {} /\ paused = {} /\ saved = {}
        /\ src = [f \in Files |-> 1] /\ dst \in [Files -> {NoFile, Copy(0)}]
        /\ part = [f \in Files |-> NoFile] /\ digest = [f \in Files |-> 0]
        /\ pending = "none" /\ audit = "none" /\ status = "none" /\ faults = {}
    BY DEF Init
  <1>2. ~rd.on /\ ~rd.open /\ ~wr.on /\ ~wr.open /\ rd \in ReadJob /\ wr \in WriteJob
    BY <1>1, NoJobs, NoJobTypes
  <1>3. Copy(0) \in Content /\ Len(Copy(0)) = NumBlocks
    BY TransferAssumption DEF Copy, Content
  <1>4. FileTypes
    <2>1. \A s \in {NoFile, Copy(0)} : s \in Content /\ Len(s) <= NumBlocks
      BY <1>3, NoFileFacts, TransferAssumption
    <2>2. \A f \in Files : dst[f] \in {NoFile, Copy(0)} /\ part[f] = NoFile
      BY <1>1
    <2>3. dst \in [Files -> Content] /\ part \in [Files -> Content]
      BY <1>1, <2>1
    <2>4. \A f \in Files : Len(part[f]) <= NumBlocks
      BY <2>1, <2>2
    <2> QED  BY <2>3, <2>4 DEF FileTypes
  <1>5. TypeOK
    <2>1. 1 \in 1 .. MaxVersion /\ 0 \in 0 .. MaxVersion /\ 1 \in 1 .. MaxTrouble
      BY TransferAssumption
    <2>2. src \in [Files -> 1 .. MaxVersion] /\ digest \in [Files -> 0 .. MaxVersion]
      BY <1>1, <2>1
    <2> QED  BY <1>1, <1>2, <1>4, <2>1, <2>2 DEF TypeOK, FileTypes, Content
  <1>6. StoredIntact
    <2>1. Whole(NoFile) /\ Whole(Copy(0))
      BY TransferAssumption DEF Whole, Contents
    <2> QED  BY <1>1, <2>1 DEF StoredIntact
  <1>7. /\ PartSound /\ ReadSound /\ SavedKept /\ HeadReady /\ TailReady /\ ReaderReady /\ Prompts
    BY <1>1, <1>2 DEF PartSound, ReadSound, SavedKept, HeadReady, TailReady, ReaderReady, Prompts
  <1>8. Messages /\ InOrder
    BY <1>1, NothingSent DEF Messages, InOrder
  <1> QED  BY <1>4, <1>5, <1>6, <1>7, <1>8 DEF DInv

\* Every step keeps the invariant.
LEMMA DNextKeeps == IInv /\ DInv /\ [Next]_vars => DInv'
  <1> SUFFICES ASSUME IInv, DInv, [Next]_vars  PROVE  DInv'
    OBVIOUS
  <1>1. CASE ReaderStep
    BY <1>1, ReadOpenData, ReadOpenFaultData, ReadBlockData, ReadFaultData, ReadFinishData
       DEF ReaderStep
  <1>2. CASE WriterStep
    BY <1>2, DownloadDigestData, UploadDigestData, DigestFaultData, ConfirmWriterData, BlockData,
       BlockFaultData, CreateFaultData, FinalizeFaultData, DoneData, DoneFaultData, FailedData
       DEF WriterStep
  <1>3. CASE ReplyStep
    BY <1>3, UploadNeedData, ConfirmReaderData, AcknowledgedData DEF ReplyStep
  <1>4. CASE HostStep
    BY <1>4, HostStartData, HostStartFaultData, HostCancelData DEF HostStep
  <1>5. CASE UserAnswer
    BY <1>5, UserAnswerData
  <1>6. CASE UserStep
    <2>1. CASE SendFiles
      <3>1. 0 \in 0 .. NumFiles /\ KeptBefore(0)
        BY TransferAssumption DEF KeptBefore, Files
      <3>2. /\ Begin(0, FALSE) /\ paused' \subseteq paused
            /\ UNCHANGED <<link, disk, prompt, saved, status, log, src, faults,
                           omitted, passed, ignored, holed>>
        BY <2>1 DEF SendFiles
      <3> QED  BY <3>1, <3>2, BeginData
    <2>2. ASSUME NEW n \in paused, ResumeJob(n)  PROVE  DInv'
      <3>1. n \in 0 .. NumFiles /\ KeptBefore(n)
        BY DEF DInv, TypeOK, SavedKept
      <3>2. /\ Begin(n, TRUE) /\ paused' \subseteq paused
            /\ UNCHANGED <<link, disk, prompt, saved, status, log, src, faults,
                           omitted, passed, ignored, holed>>
        BY <2>2 DEF ResumeJob
      <3> QED  BY <3>1, <3>2, BeginData
    <2> QED  BY <1>6, <2>1, <2>2, SendFilesFaultData, CancelData DEF UserStep
  <1>7. CASE LinkStep
    BY <1>7, ClientCloseData, ClientCrashData, HostCloseData, ConnectData DEF LinkStep
  <1>8. ASSUME NEW f \in Files, Edit(f)  PROVE  DInv'
    BY <1>8, EditData
  <1>9. CASE UNCHANGED vars
    <2>1. /\ UNCHANGED <<upload, audited, session, alive, started, rd, wr, toR, toW, prompt, paused,
                         saved, src, dst, part, digest, pending, audit, status, faults>>
          /\ UNCHANGED <<omitted, passed, ignored, holed>>
      BY <1>9 DEF vars, link, ends, net, disk, ui, log, hist
    <2>2. Lasting /\ prompt' \subseteq prompt
      BY <2>1 DEF Lasting, HistGrows, Settled
    <2>3. /\ started' \in BOOLEAN /\ status' \in {"none", "done", "error", "cancelled"}
          /\ faults' \subseteq FaultKinds
      BY <2>1 DEF DInv, TypeOK
    <2> QED  BY <2>1, <2>2, <2>3, JobsUntouched
  <1> QED  BY <1>1, <1>2, <1>3, <1>4, <1>5, <1>6, <1>7, <1>8, <1>9 DEF Next

\* The invariant holds in every behaviour.
LEMMA DInvHolds == Spec => []DInv
  <1>1. Init => DInv
    BY InitData
  <1>2. IInv /\ DInv /\ [Next]_vars => DInv'
    BY DNextKeeps
  <1> QED  BY <1>1, <1>2, IInvHolds, PTL DEF Spec

\* Both jobs, the files and the outcomes have the types they are declared with: the
\* jobs count only over their files and the versions of the source.
THEOREM TypeCorrect == Spec => []TypeOK
  <1>1. DInv => TypeOK
    BY DEF DInv
  <1> QED  BY <1>1, DInvHolds, PTL

\* A file under its own name is whole, and a partial file begins the version its
\* digest names (TransferJob::write, finalize_write and set_stream_offset), however
\* edits of the source, faults, sessions and resumed jobs interleave; except for the
\* files the property names.
THEOREM StoredIntactHolds == Spec => []StoredIntact
  <1>1. DInv => StoredIntact
    BY DEF DInv
  <1> QED  BY <1>1, DInvHolds, PTL

\* The outcome is only noted by these.
LEMMA AuditedBy ==
    ASSUME [Next]_vars, audit' = "COMPLETED", audit # "COMPLETED"
    PROVE  Done \/ Acknowledged("done")
  <1>1. CASE ReaderStep
    BY <1>1 DEF ReaderStep, ReadOpen, ReadOpenFault, ReadBlock, ReadFault, ReadFinish, Finish,
                Outcome, log
  <1>2. CASE WriterStep
    BY <1>2 DEF WriterStep, DownloadDigest, UploadDigest, DigestFault, ConfirmWriter, Block,
                BlockFault, CreateFault, FinalizeFault, WriteFails, DoneFault, Failed, Outcome, log
  <1>3. CASE ReplyStep
    BY <1>3 DEF ReplyStep, UploadNeed, ConfirmReader, Acknowledged, Outcome, log
  <1>4. CASE HostStep
    BY <1>4 DEF HostStep, HostStart, HostStartFault, HostCancel, Outcome, log
  <1>5. CASE UserAnswer
    BY <1>5 DEF UserAnswer, SetConfirmOverrideFile, log
  <1>6. CASE UserStep
    BY <1>6 DEF UserStep, SendFiles, SendFilesFault, ResumeJob, CancelJob, log
  <1>7. CASE LinkStep
    BY <1>7 DEF LinkStep, ClientClose, ClientCrash, ClientEnds, HostClose, Connect, ConnectFault,
                NewSession, log
  <1>8. ASSUME NEW f \in Files, Edit(f)  PROVE  FALSE
    BY <1>8 DEF Edit, log
  <1>9. CASE UNCHANGED vars
    BY <1>9 DEF vars, log
  <1> QED  BY <1>1, <1>2, <1>3, <1>4, <1>5, <1>6, <1>7, <1>8, <1>9 DEF Next

\* When it is noted as completed, every file is kept.
LEMMA CompletedKept ==
    ASSUME IInv, DInv, [Next]_vars, audit' = "COMPLETED", audit # "COMPLETED"
    PROVE  KeptBefore(NumFiles)'
  <1>1. CASE Done
    <2>1. wr.on /\ (upload => pending # "none")
      BY <1>1 DEF Done, Outcome, log
    <2> QED  BY <1>1, <2>1, DoneData DEF Settled
  <1>2. CASE Acknowledged("done")
    <2>1. ~upload /\ toR # <<>> /\ toR' = Tail(toR) /\ Head(toR).t = "done"
          /\ UNCHANGED <<disk, hist, src>>
      BY <1>2 DEF Acknowledged, RecvR, log
    <2>2. KeptBefore(NumFiles)
      BY <2>1, ReaderTakes DEF DInv, Messages, ToReader
    <2>3. KeptStays
      BY <2>1, FilesUntouched DEF HistGrows, disk, hist
    <2> QED  BY <2>2, <2>3 DEF KeptStays
  <1> QED  BY <1>1, <1>2, AuditedBy

\* The host notes COMPLETED (post_enterprise_file_outcome) only when every file is
\* stored, but for those the property names: what the writer finalizes at Done is the
\* last file, and those before it were finalized as the blocks of the next came.
THEOREM CompletedIsStoredHolds == Spec => CompletedIsStored
  <1>1. ASSUME IInv, DInv, [Next]_vars
        PROVE  [audit' = "COMPLETED" /\ audit # "COMPLETED" =>
                  \A f \in Files \ (omitted \cup passed \cup ignored \cup holed) :
                      Stored(f)']_vars
    <2> SUFFICES ASSUME audit' = "COMPLETED", audit # "COMPLETED",
                        NEW f \in Files, f \notin omitted \cup passed \cup ignored \cup holed
                 PROVE  Stored(f)'
      OBVIOUS
    <2>1. KeptBefore(NumFiles)' /\ f < NumFiles
      BY <1>1, CompletedKept, TransferAssumption DEF Files
    <2>2. UNCHANGED <<omitted, passed, ignored, holed>>
      <3>1. Done \/ Acknowledged("done")
        BY <1>1, AuditedBy
      <3> QED  BY <3>1 DEF Done, Acknowledged, hist
    <2> QED  BY <2>1, <2>2 DEF KeptBefore, Kept
  <1> QED  BY <1>1, IInvHolds, DInvHolds, PTL DEF Spec, CompletedIsStored
=============================================================================

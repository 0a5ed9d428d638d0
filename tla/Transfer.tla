------------------------------ MODULE Transfer ------------------------------
(***************************************************************************)
(* A file transfer: TransferJob of libs/hbb_common/src/fs.rs, driven by    *)
(* the client (src/client/io_loop.rs) at one end and by the host           *)
(* (src/server/connection.rs, and handle_fs of src/ui_cm_interface.rs for  *)
(* its disk writes) at the other.  The end that has the files reads them   *)
(* block by block, the other end writes <file>.download and <file>.digest  *)
(* and renames the first to <file>.  In a download the client writes, in   *)
(* an upload the host does.                                                *)
(*                                                                         *)
(* Either end may leave at any moment.  What it had sent may still arrive, *)
(* what was sent to it is lost; the client saves the file number of its    *)
(* jobs and offers them to be resumed in the next session.                 *)
(*                                                                         *)
(* The two ends understand overwrite detection and resuming.  The host's   *)
(* connection and its connection manager are one end: the pipe between     *)
(* them keeps order.  A session runs one job; jobs of earlier sessions to  *)
(* the same destination wait as paused jobs (is_last_job) or are resumed.  *)
(***************************************************************************)
EXTENDS Naturals, Sequences, FiniteSets

CONSTANTS
    NumFiles,      \* files of the job
    NumBlocks,     \* blocks of a file
    MaxVersion,    \* how often the owner of the source files edits them
    MaxTrouble,    \* sessions, faults of the file systems and edits together
    FaultKinds     \* faults of the file systems, see AnyFault

\* What can fail: opening or listing the source, reading it, looking at an existing
\* file or at its digest, seeking in a file, creating or writing a .download, and
\* finalizing it.
AnyFault == {"open", "read", "stat", "seek", "write", "finalize"}

ASSUME TransferAssumption ==
    /\ NumFiles \in Nat \ {0} /\ NumBlocks \in Nat \ {0}
    /\ MaxVersion \in Nat \ {0} /\ MaxTrouble \in Nat \ {0}
    /\ FaultKinds \subseteq AnyFault

VARIABLES
    upload,        \* the direction: the client reads, the host writes
    audited,       \* the session has an audit context
    session,       \* sessions begun
    alive,         \* the ends that are still in the session
    started,       \* the session's job was started
    rd,            \* the read job (read_jobs of its end)
    wr,            \* the write job (write_jobs of its end)
    toR, toW,      \* messages on their way to the reader, to the writer
    prompt,        \* files the user is asked about: override_file_confirm
    paused,        \* file numbers of the restored jobs of the client
    saved,         \* file numbers of the jobs in the client's PeerConfig
    src,           \* version of each source file
    dst,           \* each destination file
    part, digest,  \* its .download and its .digest
    pending,       \* pending_file_audits of the job: none, open, finished
    audit,         \* outcome the host reported of the session's job
    status,        \* outcome the client showed its user
    faults,        \* history: faults that happened
    skips,         \* history: files the user had the current job skip
    omitted,       \* history: files some job skipped
    passed,        \* history: files the saved file number was already past, not stored
    ignored,       \* history: files whose resume offset an end ignored
    holed          \* history: files the writer lost a block of

ends  == <<rd, wr>>
net   == <<toR, toW>>
disk  == <<dst, part, digest>>
link  == <<upload, audited, session, alive>>
ui    == <<started, prompt, paused, saved, status>>
log   == <<pending, audit>>
hist  == <<skips, omitted, passed, ignored, holed>>
vars  == <<link, ends, net, disk, ui, log, src, faults, hist>>

Files == 0 .. NumFiles - 1
EOF   == <<0, 0>>                         \* the empty block that ends a file
Copy(v) == [i \in 1 .. NumBlocks |-> <<v, i>>]
NoFile  == <<EOF>>                        \* there is no such file
Exists(f, files) == files[f] # NoFile

NoRead  == [on |-> FALSE, num |-> 0, open |-> FALSE, ver |-> 0, pos |-> 0,
            confirmed |-> FALSE, skipped |-> FALSE, hadSkip |-> FALSE,
            error |-> FALSE, resume |-> FALSE, always |-> "ask"]
NoWrite == [on |-> FALSE, num |-> 0, open |-> FALSE, pos |-> 0, ver |-> 0,
            skipped |-> FALSE, hadSkip |-> FALSE, resume |-> FALSE, always |-> "ask"]

\* TransferJob::new_read and new_write; ResumeJob sets is_resume at the client.
NewRead(n, res)  == [NoRead EXCEPT !.on = TRUE, !.num = n, !.resume = res]
NewWrite(n, res) == [NoWrite EXCEPT !.on = TRUE, !.num = n, !.resume = res]

\* What the bound MaxTrouble counts.
Trouble == session + Cardinality(faults) + Cardinality({f \in Files : src[f] > 1})

Reader == IF upload THEN "client" ELSE "host"
Writer == IF upload THEN "host" ELSE "client"
Msg(t, n, p) == [t |-> t, n |-> n, p |-> p]

\* A fault of a file system.
Fault(k) ==
    /\ k \in FaultKinds \ faults /\ Trouble < MaxTrouble
    /\ faults' = faults \cup {k}

SendW(ms) == toW' = IF Writer \in alive THEN toW \o ms ELSE toW
SendR(ms) == toR' = IF Reader \in alive THEN toR \o ms ELSE toR

----------------------------------------------------------------------------
(* The client's user, and the ends coming and going.                       *)

Init ==
    /\ upload \in BOOLEAN /\ audited \in BOOLEAN
    /\ session = 1 /\ alive = {"client", "host"} /\ started = FALSE
    /\ rd = NoRead /\ wr = NoWrite /\ toR = <<>> /\ toW = <<>>
    /\ prompt = {} /\ paused = {} /\ saved = {}
    /\ src = [f \in Files |-> 1]
    /\ dst \in [Files -> {NoFile, Copy(0)}]
    /\ part = [f \in Files |-> NoFile] /\ digest = [f \in Files |-> 0]
    /\ pending = "none" /\ audit = "none" /\ status = "none" /\ faults = {}
    /\ skips = {} /\ omitted = {} /\ passed = {} /\ ignored = {} /\ holed = {}

\* SendFiles, and ResumeJob of a job AddJob restored: the client makes its job
\* and asks the host for the other one (new_receive, new_send).
Begin(n, res) ==
    /\ "client" \in alive /\ ~started /\ started' = TRUE
    /\ skips' = {}
    /\ IF upload THEN /\ rd' = NewRead(n, res) /\ UNCHANGED <<wr, toR>>
                      /\ SendW(<<Msg("start", n, EOF)>>)
                 ELSE /\ wr' = NewWrite(n, res) /\ UNCHANGED <<rd, toW>>
                      /\ SendR(<<Msg("start", n, EOF)>>)

SendFiles ==
    /\ Begin(0, FALSE)
    /\ UNCHANGED <<link, disk, prompt, paused, saved, status, log, src, faults,
                   omitted, passed, ignored, holed>>

\* handle_job_status: a cancelled job is no longer in the user's list.
Report(o) == status' = IF status = "cancelled" THEN status ELSE o

\* The client cannot list what it shall send (new_read): the host is not asked.
SendFilesFault ==
    /\ upload /\ "client" \in alive /\ ~started /\ started' = TRUE
    /\ Fault("open") /\ Report("error")
    /\ UNCHANGED <<link, ends, net, disk, prompt, paused, saved, log, src, hist>>

ResumeJob(n) ==
    /\ n \in paused /\ paused' = paused \ {n}
    /\ Begin(n, TRUE)
    /\ UNCHANGED <<link, disk, prompt, saved, status, log, src, faults,
                   omitted, passed, ignored, holed>>

\* TransferJob::remove_download_file of the write job w.
RemoveDownload(w) ==
    IF w.on /\ w.num \in Files
    THEN /\ part' = [part EXCEPT ![w.num] = NoFile]
         /\ digest' = [digest EXCEPT ![w.num] = 0]
    ELSE UNCHANGED <<part, digest>>

\* cancel_transfer_job: the client drops its job and tells the host.
CancelJob ==
    /\ "client" \in alive
    /\ IF upload THEN rd.on ELSE wr.on
    /\ IF upload THEN /\ rd' = NoRead /\ UNCHANGED <<wr, toR, part, digest>>
                      /\ SendW(<<Msg("cancel", 0, EOF)>>)
                 ELSE /\ wr' = NoWrite /\ UNCHANGED <<rd, toW>> /\ RemoveDownload(wr)
                      /\ SendR(<<Msg("cancel", 0, EOF)>>)
    /\ status' = "cancelled"
    /\ UNCHANGED <<link, dst, started, prompt, paused, saved, log, src, faults, hist>>

\* sync_jobs_status_to_local at the end of the client's io_loop.  Files the
\* saved number is past and that are not stored are noted.
Stored(f) == \E v \in 1 .. MaxVersion : dst[f] = Copy(v)
JobNumber == IF upload THEN IF rd.on THEN {rd.num} ELSE {}
                       ELSE IF wr.on THEN {wr.num} ELSE {}

ClientEnds(keep) ==
    /\ "client" \in alive /\ alive' = alive \ {"client"}
    /\ saved' = keep
    /\ passed' = passed \cup {f \in Files : ~Stored(f) /\ \E n \in keep : f < n}
    /\ prompt' = {} /\ paused' = {}
    /\ IF upload THEN rd' = NoRead /\ toR' = <<>> /\ UNCHANGED <<wr, toW>>
                 ELSE wr' = NoWrite /\ toW' = <<>> /\ UNCHANGED <<rd, toR>>
    /\ UNCHANGED <<upload, audited, session, disk, started, status, log, src, faults,
                   skips, omitted, ignored, holed>>

ClientClose == ClientEnds(paused \cup JobNumber)
ClientCrash == ClientEnds(saved)

\* The host's connection ends: its jobs are dropped as they are, the audit of an
\* unfinished job says CANCELLED.
HostClose ==
    /\ "host" \in alive /\ alive' = alive \ {"host"}
    /\ IF upload THEN wr' = NoWrite /\ toW' = <<>> /\ UNCHANGED <<rd, toR>>
                 ELSE rd' = NoRead /\ toR' = <<>> /\ UNCHANGED <<wr, toW>>
    /\ pending' = "none" /\ audit' = IF pending = "none" THEN audit ELSE "CANCELLED"
    /\ UNCHANGED <<upload, audited, session, disk, ui, src, faults, hist>>

\* A new session: load_last_jobs restores the saved jobs (AddJob).
NewSession(jobs) ==
    /\ alive = {} /\ Trouble < MaxTrouble
    /\ session' = session + 1 /\ alive' = {"client", "host"}
    /\ started' = FALSE /\ paused' = jobs
    /\ audit' = "none" /\ status' = "none" /\ skips' = {}
    /\ UNCHANGED <<upload, audited, ends, net, disk, prompt, saved, pending, src,
                   omitted, passed, ignored, holed>>

Connect == NewSession(saved) /\ UNCHANGED faults

\* The restored job of an upload is lost when the client cannot list its files.
ConnectFault(n) ==
    /\ upload /\ n \in saved /\ Trouble + 1 < MaxTrouble
    /\ NewSession(saved \ {n}) /\ Fault("open")

\* The owner of the files replaces one between two sessions.
Edit(f) ==
    /\ alive = {} /\ src[f] < MaxVersion /\ Trouble < MaxTrouble
    /\ src' = [src EXCEPT ![f] = @ + 1]
    /\ UNCHANGED <<link, ends, net, disk, ui, log, faults, hist>>

----------------------------------------------------------------------------
(* The reader's timer: handle_read_jobs (init_jobs, read).  A job waits for *)
(* confirmation (file_is_waiting) exactly while its file is open.          *)

\* post_enterprise_file_outcome.
Outcome(o) == /\ pending' = "none"
              /\ audit' = IF pending = "none" THEN audit ELSE o

\* Mutation: the outcome noted of a job with a skipped file is that of job_error.
FinishForgetsSkip(r, before) ==
    LET bad == r.error \/ (r.skipped /\ NumFiles = 1) IN
    /\ rd' = NoRead
    /\ SendW(before \o <<Msg(IF bad THEN "error" ELSE "done", r.num, EOF)>>)
    /\ IF upload THEN UNCHANGED log
       ELSE IF bad THEN Outcome("FAILED")
       ELSE /\ pending' = IF pending = "none" THEN "none" ELSE "finished"
            /\ UNCHANGED audit

\* The job is over: Done, or Error when it failed or its only file was skipped
\* (job_error); the host notes what audit_error says.
Finish(r, before) ==
    LET bad == r.error \/ (r.skipped /\ NumFiles = 1) IN
    /\ rd' = NoRead
    /\ SendW(before \o <<Msg(IF bad THEN "error" ELSE "done", r.num, EOF)>>)
    /\ IF upload THEN UNCHANGED log
       ELSE IF r.hadSkip \/ r.error THEN Outcome("FAILED")
       ELSE /\ pending' = IF pending = "none" THEN "none" ELSE "finished"
            /\ UNCHANGED audit

Tick == Reader \in alive /\ rd.on
Advance(r) == [r EXCEPT !.num = @ + 1, !.open = FALSE, !.confirmed = FALSE]

\* open_data_stream and send_current_digest.
ReadOpen ==
    /\ Tick /\ ~rd.open /\ rd.num \in Files
    /\ rd' = [rd EXCEPT !.open = TRUE, !.ver = src[rd.num], !.pos = 0, !.confirmed = FALSE]
    /\ SendW(<<Msg("digest", rd.num, <<src[rd.num], IF rd.resume THEN 1 ELSE 0>>)>>)
    /\ UNCHANGED <<link, wr, toR, disk, ui, log, src, faults, hist>>

\* open_data_stream fails: Error is sent, then read returns None for a job that is
\* not waiting, which ends it.
ReadOpenFault ==
    /\ Tick /\ ~rd.open /\ rd.num \in Files
    /\ Fault("open")
    /\ LET r == [Advance(rd) EXCEPT !.error = TRUE] IN
       Finish(r, <<Msg("error", r.num, EOF)>>)
    /\ UNCHANGED <<link, wr, toR, disk, ui, src, hist>>

\* Mutation: the next file begins with the stream and the confirmation of the last.
ReadBlockKeepsStream ==
    /\ Tick /\ rd.open /\ rd.confirmed
    /\ IF rd.pos < NumBlocks
       THEN /\ rd' = [rd EXCEPT !.pos = @ + 1]
            /\ SendW(<<Msg("block", rd.num, <<rd.ver, rd.pos + 1>>)>>)
       ELSE rd' = [rd EXCEPT !.num = @ + 1] /\ SendW(<<Msg("block", rd.num, EOF)>>)
    /\ UNCHANGED <<link, wr, toR, disk, ui, log, src, faults, hist>>

\* read: the next block, or the empty block that ends the file.
ReadBlock ==
    /\ Tick /\ rd.open /\ rd.confirmed
    /\ IF rd.pos < NumBlocks
       THEN /\ rd' = [rd EXCEPT !.pos = @ + 1]
            /\ SendW(<<Msg("block", rd.num, <<rd.ver, rd.pos + 1>>)>>)
       ELSE rd' = Advance(rd) /\ SendW(<<Msg("block", rd.num, EOF)>>)
    /\ UNCHANGED <<link, wr, toR, disk, ui, log, src, faults, hist>>

\* read fails: the job goes on with the next file.
ReadFault ==
    /\ Tick /\ rd.open /\ rd.confirmed
    /\ Fault("read")
    /\ rd' = [Advance(rd) EXCEPT !.error = TRUE]
    /\ SendW(<<Msg("error", rd.num + 1, EOF)>>)
    /\ UNCHANGED <<link, wr, toR, disk, ui, log, src, hist>>

ReadFinish ==
    /\ Tick /\ rd.num = NumFiles
    /\ Finish(rd, <<>>)
    /\ UNCHANGED <<link, wr, toR, disk, ui, src, faults, hist>>

----------------------------------------------------------------------------
(* Confirmation.  TransferJob::confirm of the answer "skip" or of the      *)
(* offset o for file n; a reader at an offset opens its file by name again *)
(* (set_stream_offset).  When that fails nobody is told: the job goes on,  *)
(* confirmed, with the stream it has, as it does for offset 0.             *)

\* Mutation: a skip is not applied.
ReadConfirmLost(r, n, skip, o) ==
    IF r.num # n \/ skip THEN r
    ELSE [r EXCEPT !.confirmed = TRUE, !.skipped = FALSE,
                   !.open = TRUE, !.ver = src[n], !.pos = o]

ReadConfirm(r, n, skip, o) ==
    IF r.num # n THEN r
    ELSE IF skip THEN [Advance(r) EXCEPT !.skipped = TRUE, !.hadSkip = TRUE]
    ELSE IF o = 0 THEN [r EXCEPT !.confirmed = TRUE, !.skipped = FALSE]
    ELSE [r EXCEPT !.confirmed = TRUE, !.skipped = FALSE,
                   !.open = TRUE, !.ver = src[n], !.pos = o]

WriteConfirm(w, n, skip, o) ==
    IF w.num # n THEN w
    ELSE IF skip THEN [w EXCEPT !.num = @ + 1, !.open = FALSE,
                                !.skipped = TRUE, !.hadSkip = TRUE]
    ELSE IF o = 0 THEN [w EXCEPT !.skipped = FALSE]
    ELSE [w EXCEPT !.skipped = FALSE, !.open = TRUE, !.pos = o]

Answer(n, skip, o) == Msg(IF skip THEN "skip" ELSE "confirm", n, <<o, 0>>)
NoteSkip(n, skip) == /\ skips' = IF skip THEN skips \cup {n} ELSE skips
                     /\ omitted' = IF skip THEN omitted \cup {n} ELSE omitted

\* Job j is positioned at k, for the offset o of file n.
Positioned(j, n, o, k) ==
    \/ k = o /\ UNCHANGED faults
    \/ k = 0 /\ o > 0 /\ j.on /\ j.num = n /\ Fault("seek")
NoteIgnored(n, lost) == ignored' = IF lost THEN ignored \cup {n} ELSE ignored

\* Mutation: the digest is not compared.
ResumableAnyVersion(f, v, res) ==
    res /\ digest[f] # 0 /\ Exists(f, part) /\ part[f] # <<>>

\* is_write_need_confirmation: a partial file to resume, of the same version.
Resumable(f, v, res) ==
    /\ res /\ digest[f] = v /\ digest[f] # 0
    /\ Exists(f, part) /\ part[f] # <<>>

\* A message of type t is taken from the head of the channel.
RecvW(t) == Writer \in alive /\ toW # <<>> /\ Head(toW).t = t /\ toW' = Tail(toW)
RecvR(t) == Reader \in alive /\ toR # <<>> /\ Head(toR).t = t /\ toR' = Tail(toR)

\* Digest at the client of a download: it answers for the user when it can.
DownloadDigest ==
    /\ ~upload /\ RecvW("digest")
    /\ LET m == Head(toW)
           w == [wr EXCEPT !.ver = m.p[1]]
           resuming == Resumable(m.n, m.p[1], wr.resume)
           offset == IF resuming THEN Len(part[m.n]) ELSE 0
           ask  == ~resuming /\ Exists(m.n, dst) /\ wr.always = "ask"
           skip == ~resuming /\ Exists(m.n, dst) /\ wr.always = "skip"
       IN IF ~wr.on THEN UNCHANGED <<wr, toR, prompt, faults, hist>>
          ELSE IF ask THEN /\ wr' = w /\ prompt' = prompt \cup {m.n}
                           /\ UNCHANGED <<toR, faults, hist>>
          ELSE \E k \in {0, offset} :
               /\ Positioned(wr, m.n, offset, k)
               /\ wr' = WriteConfirm(w, m.n, skip, k)
               /\ SendR(<<Answer(m.n, skip, offset)>>)
               /\ NoteSkip(m.n, skip)
               /\ NoteIgnored(m.n, k # offset \/ (wr.num # m.n /\ offset > 0))
               /\ UNCHANGED <<prompt, passed, holed>>
    /\ UNCHANGED <<link, rd, disk, started, paused, saved, status, log, src>>

\* CheckDigest at the host of an upload: the client is asked when the file is there.
UploadDigest ==
    /\ upload /\ RecvW("digest")
    /\ LET m == Head(toW)
           resuming == Resumable(m.n, m.p[1], m.p[2] = 1)
       IN IF ~wr.on THEN UNCHANGED <<wr, toR>>
          ELSE /\ wr' = [wr EXCEPT !.ver = m.p[1]]
               /\ IF resuming THEN SendR(<<Msg("need", m.n, <<Len(part[m.n]), 0>>)>>)
                  ELSE IF Exists(m.n, dst) THEN SendR(<<Msg("need", m.n, EOF)>>)
                  ELSE SendR(<<Answer(m.n, FALSE, 0)>>)
    /\ UNCHANGED <<link, rd, disk, ui, log, src, faults, hist>>

\* The file that is there cannot be looked at (is_write_need_confirmation): a host
\* answers with an Error, a client does not answer.
DigestFault ==
    /\ RecvW("digest") /\ wr.on
    /\ LET m == Head(toW) IN
       /\ Exists(m.n, dst)
       /\ ~Resumable(m.n, m.p[1], IF upload THEN m.p[2] = 1 ELSE wr.resume)
       /\ Fault("stat")
       /\ IF upload THEN SendR(<<Msg("error", m.n, EOF)>>) /\ Outcome("FAILED") /\ UNCHANGED wr
                    ELSE wr' = [wr EXCEPT !.ver = m.p[1]] /\ UNCHANGED <<toR, log>>
    /\ UNCHANGED <<link, rd, disk, ui, src, hist>>

\* Digest of an upload back at the client, which confirms to both jobs or asks.
UploadNeed ==
    /\ RecvR("need")
    /\ LET m == Head(toR)
           resuming == rd.resume /\ m.p[1] > 0
           skip == ~resuming /\ rd.always = "skip"
       IN IF ~rd.on THEN UNCHANGED <<rd, toW, prompt, faults, hist>>
          ELSE IF ~resuming /\ rd.always = "ask"
          THEN prompt' = prompt \cup {m.n} /\ UNCHANGED <<rd, toW, faults, hist>>
          ELSE \E k \in {0, m.p[1]} :
               /\ Positioned(rd, m.n, m.p[1], k)
               /\ rd' = ReadConfirm(rd, m.n, skip, k)
               /\ SendW(<<Answer(m.n, skip, m.p[1])>>)
               /\ NoteSkip(m.n, skip) /\ NoteIgnored(m.n, k # m.p[1])
               /\ UNCHANGED <<prompt, passed, holed>>
    /\ UNCHANGED <<link, wr, disk, started, paused, saved, status, log, src>>

\* SetConfirmOverrideFile: the answer of the user.  That of an upload goes to the
\* client's read job alone.
SetConfirmOverrideFile(n, skip, remember) ==
    /\ "client" \in alive /\ n \in prompt /\ prompt' = prompt \ {n}
    /\ LET always == IF skip THEN "skip" ELSE "overwrite"
           r == IF remember THEN [rd EXCEPT !.always = always] ELSE rd
           w == IF remember THEN [wr EXCEPT !.always = always] ELSE wr
       IN IF upload
          THEN /\ rd' = IF rd.on THEN ReadConfirm(r, n, skip, 0) ELSE rd
               /\ UNCHANGED <<wr, toR>>
          ELSE IF wr.on
          THEN /\ wr' = WriteConfirm(w, n, skip, 0)
               /\ SendR(<<Answer(n, skip, 0)>>) /\ UNCHANGED rd
          ELSE UNCHANGED <<rd, wr, toR>>
    /\ NoteSkip(n, skip /\ JobNumber # {})
    /\ UNCHANGED <<link, toW, disk, started, paused, saved, status, log, src, faults,
                   passed, ignored, holed>>

\* SendConfirm reaches the reader.
ConfirmReader(skip) ==
    /\ RecvR(IF skip THEN "skip" ELSE "confirm")
    /\ LET m == Head(toR) IN
       \E k \in {0, m.p[1]} :
         /\ Positioned(rd, m.n, m.p[1], k)
         /\ rd' = IF rd.on THEN ReadConfirm(rd, m.n, skip, k) ELSE rd
         /\ NoteIgnored(m.n, k # m.p[1])
    /\ UNCHANGED <<link, wr, toW, disk, ui, log, src, skips, omitted, passed, holed>>

\* SendConfirm reaches the host's write job, which also notes a skip.
ConfirmWriter(skip) ==
    /\ RecvW(IF skip THEN "skip" ELSE "confirm")
    /\ LET m == Head(toW)
           w == [wr EXCEPT !.hadSkip = @ \/ skip]
       IN IF ~wr.on THEN UNCHANGED <<wr, faults, ignored>>
          ELSE \E k \in {0, m.p[1]} :
               /\ Positioned(wr, m.n, m.p[1], k)
               /\ wr' = WriteConfirm(w, m.n, skip, k)
               /\ NoteIgnored(m.n, k # m.p[1] \/ (wr.num # m.n /\ m.p[1] > 0))
    /\ UNCHANGED <<link, rd, toR, disk, ui, log, src, skips, omitted, passed, holed>>

----------------------------------------------------------------------------
(* The write job.                                                          *)

\* Mutation: Done is acknowledged without the rename.
DstAfterNoRename(w) == dst

\* Files after finalize_write of job w: the current file is renamed, its digest
\* removed.
DstAfter(w)    == IF w.open THEN [dst EXCEPT ![w.num] = part[w.num]] ELSE dst
PartAfter(w)   == IF w.open THEN [part EXCEPT ![w.num] = NoFile] ELSE part
DigestAfter(w) == IF w.open THEN [digest EXCEPT ![w.num] = 0] ELSE digest

\* Block b written at position i of s.
Put(s, i, b) == [k \in 1 .. (IF Len(s) > i THEN Len(s) ELSE i + 1) |->
                    IF k = i + 1 THEN b ELSE s[k]]

\* TransferJob::write up to write_all: a block of another file finalizes the
\* current one; a file without a stream is created afresh, with its digest.
TakeBlock(m) ==
    LET fresh == m.n # wr.num \/ ~wr.open
        p == IF fresh THEN [PartAfter(wr) EXCEPT ![m.n] = <<>>] ELSE part
        i == IF fresh THEN 0 ELSE wr.pos
    IN /\ dst' = IF fresh THEN DstAfter(wr) ELSE dst
       /\ digest' = IF fresh THEN [DigestAfter(wr) EXCEPT ![m.n] = wr.ver] ELSE digest
       /\ part' = IF m.p = EOF THEN p ELSE [p EXCEPT ![m.n] = Put(@, i, m.p)]
       /\ wr' = [wr EXCEPT !.num = m.n, !.open = TRUE,
                           !.pos = IF m.p = EOF THEN i ELSE i + 1]

Block ==
    /\ RecvW("block")
    /\ IF wr.on THEN TakeBlock(Head(toW)) ELSE UNCHANGED <<wr, disk>>
    /\ UNCHANGED <<link, rd, toR, ui, log, src, faults, hist>>

\* TransferJob::write fails: a client gives the job up and tells the host; a host
\* tells the client and keeps the job, without the block.
WriteFails(n) ==
    /\ SendR(<<Msg("error", n, EOF)>>)
    /\ IF upload THEN holed' = holed \cup {n} /\ Outcome("FAILED") /\ UNCHANGED status
                 ELSE Report("error") /\ UNCHANGED <<holed, log>>
    /\ UNCHANGED <<link, rd, started, prompt, paused, saved, src, skips, omitted, passed, ignored>>

\* write_all fails.
BlockFault ==
    /\ RecvW("block") /\ wr.on /\ Head(toW).p # EOF
    /\ Fault("write")
    /\ LET m == Head(toW)
           fresh == m.n # wr.num \/ ~wr.open
       IN /\ dst' = IF fresh THEN DstAfter(wr) ELSE dst
          /\ IF upload
             THEN /\ part' = IF fresh THEN [PartAfter(wr) EXCEPT ![m.n] = <<>>] ELSE part
                  /\ digest' = IF fresh THEN [DigestAfter(wr) EXCEPT ![m.n] = wr.ver]
                                        ELSE digest
                  /\ wr' = [wr EXCEPT !.num = m.n, !.open = TRUE,
                                      !.pos = IF fresh THEN 0 ELSE @]
             ELSE /\ part' = [PartAfter([wr EXCEPT !.open = @ /\ fresh])
                                EXCEPT ![m.n] = NoFile]
                  /\ digest' = [DigestAfter([wr EXCEPT !.open = @ /\ fresh])
                                EXCEPT ![m.n] = 0]
                  /\ wr' = NoWrite
    /\ WriteFails(Head(toW).n)

\* The file of the block cannot be created, when its old digest is removed already.
CreateFault ==
    /\ RecvW("block") /\ wr.on
    /\ Fault("write")
    /\ LET n == Head(toW).n IN
       /\ n # wr.num \/ ~wr.open
       /\ dst' = DstAfter(wr)
       /\ part' = IF upload THEN PartAfter(wr) ELSE [PartAfter(wr) EXCEPT ![n] = NoFile]
       /\ digest' = [DigestAfter(wr) EXCEPT ![n] = 0]
       /\ wr' = IF upload THEN [wr EXCEPT !.num = n, !.open = FALSE] ELSE NoWrite
    /\ WriteFails(Head(toW).n)

\* finalize_write fails after it did the steps before: sync_all, the digest is
\* removed, the file is renamed, set_file_mtime.
FinalizeFails(step) ==
    /\ wr.open /\ Fault("finalize")
    /\ IF step = "mtime" THEN dst' = DstAfter(wr) ELSE UNCHANGED dst

\* The file before cannot be finalized when a block of another one comes.  A host
\* goes on without a stream, unless it still has it; a client removes that file.
FinalizeFault ==
    /\ RecvW("block") /\ wr.on /\ Head(toW).n # wr.num
    /\ \E step \in {"sync", "rename", "mtime"} :
         /\ FinalizeFails(step)
         /\ IF upload
            THEN /\ part' = IF step = "mtime" THEN PartAfter(wr) ELSE part
                 /\ digest' = IF step = "sync" THEN digest ELSE DigestAfter(wr)
                 /\ wr' = [wr EXCEPT !.open = step = "sync"]
            ELSE /\ part' = PartAfter(wr) /\ digest' = DigestAfter(wr) /\ wr' = NoWrite
    /\ WriteFails(Head(toW).n)

\* Done of the reader: the last file is finalized and the reader told.  The client
\* of a download reports job_error; the host of an upload posts audit_error.
Done ==
    /\ RecvW("done")
    /\ IF wr.on
       THEN LET bad == ~upload /\ wr.skipped /\ NumFiles = 1 IN
            /\ wr' = NoWrite
            /\ dst' = DstAfter(wr) /\ part' = PartAfter(wr) /\ digest' = DigestAfter(wr)
            /\ SendR(<<Msg(IF bad THEN "error" ELSE "done", 0, EOF)>>)
            /\ IF upload
               THEN /\ Outcome(IF wr.hadSkip THEN "FAILED" ELSE "COMPLETED")
                    /\ UNCHANGED status
               ELSE /\ Report(IF bad THEN "error" ELSE "done")
                    /\ UNCHANGED log
       ELSE /\ Report(IF upload THEN status ELSE "done")
            /\ UNCHANGED <<wr, disk, toR, log>>
    /\ UNCHANGED <<link, rd, started, prompt, paused, saved, src, faults, hist>>

\* ... and the last file cannot be finalized: the job has failed.
DoneFault ==
    /\ RecvW("done") /\ wr.on /\ wr' = NoWrite
    /\ \E step \in {"sync", "rename", "mtime"} :
         /\ FinalizeFails(step)
         /\ part' = IF step = "mtime" THEN PartAfter(wr) ELSE part
         /\ digest' = IF step = "sync" THEN digest ELSE DigestAfter(wr)
    /\ SendR(<<Msg("error", 0, EOF)>>)
    /\ IF upload THEN Outcome("FAILED") /\ UNCHANGED status
                 ELSE Report("error") /\ UNCHANGED log
    /\ UNCHANGED <<link, rd, started, prompt, paused, saved, src, hist>>

\* Error of the reader: the write job is dropped as it is.
Failed ==
    /\ RecvW("error")
    /\ wr' = NoWrite
    /\ IF upload
       THEN IF wr.on THEN /\ SendR(<<Msg("error", 0, EOF)>>) /\ Outcome("FAILED")
                          /\ UNCHANGED status
                     ELSE UNCHANGED <<toR, log, status>>
       ELSE Report("error") /\ UNCHANGED <<toR, log>>
    /\ UNCHANGED <<link, rd, disk, started, prompt, paused, saved, src, faults, hist>>

----------------------------------------------------------------------------
(* What the host does for the client, and the writer's acknowledgement.    *)

\* Receive (the connection manager's NewWrite) and Send.
HostStart ==
    /\ IF upload THEN /\ RecvW("start") /\ wr' = NewWrite(Head(toW).n, FALSE)
                      /\ UNCHANGED <<rd, toR>>
                 ELSE /\ RecvR("start") /\ rd' = NewRead(Head(toR).n, FALSE)
                      /\ UNCHANGED <<wr, toW>>
    /\ pending' = IF audited THEN "open" ELSE "none"
    /\ UNCHANGED <<link, disk, ui, audit, src, faults, hist>>

\* The host cannot list what it shall send (new_read).
HostStartFault ==
    /\ ~upload /\ RecvR("start") /\ Fault("open")
    /\ SendW(<<Msg("error", 0, EOF)>>)
    /\ UNCHANGED <<link, ends, disk, ui, log, src, hist>>

\* Cancel: CancelWrite, and the read job is removed.
HostCancel ==
    /\ IF upload THEN /\ RecvW("cancel") /\ wr' = NoWrite /\ RemoveDownload(wr)
                      /\ UNCHANGED <<rd, toR>>
                 ELSE /\ RecvR("cancel") /\ rd' = NoRead
                      /\ UNCHANGED <<wr, toW, part, digest>>
    /\ Outcome("CANCELLED")
    /\ UNCHANGED <<link, dst, ui, src, faults, hist>>

\* Done or Error of the writer.  The host takes a Done for the end of a download
\* only after its own reader has finished, and an Error only when it audits the job.
Acknowledged(t) ==
    /\ RecvR(t)
    /\ IF upload
       THEN Report(t) /\ UNCHANGED <<rd, log>>
       ELSE IF t = "done"
       THEN /\ IF pending = "finished" THEN Outcome("COMPLETED") ELSE UNCHANGED log
            /\ UNCHANGED <<rd, status>>
       ELSE /\ IF pending # "none" THEN rd' = NoRead /\ Outcome("FAILED")
                                   ELSE UNCHANGED <<rd, log>>
            /\ UNCHANGED status
    /\ UNCHANGED <<link, wr, toW, disk, started, prompt, paused, saved, src, faults, hist>>

----------------------------------------------------------------------------

ReaderStep == ReadOpen \/ ReadOpenFault \/ ReadBlock \/ ReadFault \/ ReadFinish
WriterStep ==
    \/ DownloadDigest \/ UploadDigest \/ DigestFault
    \/ ConfirmWriter(TRUE) \/ ConfirmWriter(FALSE)
    \/ Block \/ BlockFault \/ CreateFault \/ FinalizeFault \/ Done \/ DoneFault \/ Failed
ReplyStep ==
    \/ UploadNeed \/ ConfirmReader(TRUE) \/ ConfirmReader(FALSE)
    \/ Acknowledged("done") \/ Acknowledged("error")
HostStep == HostStart \/ HostStartFault \/ HostCancel
UserAnswer == \E n \in prompt, skip, remember \in BOOLEAN :
                  SetConfirmOverrideFile(n, skip, remember)
UserStep == SendFiles \/ SendFilesFault \/ CancelJob \/ \E n \in paused : ResumeJob(n)
LinkStep ==
    \/ ClientClose \/ ClientCrash \/ HostClose
    \/ Connect \/ \E n \in saved : ConnectFault(n)
Next ==
    \/ ReaderStep \/ WriterStep \/ ReplyStep \/ HostStep
    \/ UserAnswer \/ UserStep \/ LinkStep
    \/ \E f \in Files : Edit(f)

Spec == Init /\ [][Next]_vars

----------------------------------------------------------------------------

Contents == {Copy(v) : v \in 0 .. MaxVersion}
ReadJob ==
    [on : BOOLEAN, num : 0 .. NumFiles, open : BOOLEAN, ver : 0 .. MaxVersion,
     pos : Nat, confirmed : BOOLEAN, skipped : BOOLEAN, hadSkip : BOOLEAN,
     error : BOOLEAN, resume : BOOLEAN, always : {"ask", "skip", "overwrite"}]
WriteJob ==
    [on : BOOLEAN, num : 0 .. NumFiles, open : BOOLEAN, pos : Nat,
     ver : 0 .. MaxVersion, skipped : BOOLEAN, hadSkip : BOOLEAN,
     resume : BOOLEAN, always : {"ask", "skip", "overwrite"}]
TypeOK ==
    /\ upload \in BOOLEAN /\ audited \in BOOLEAN /\ started \in BOOLEAN
    /\ session \in 1 .. MaxTrouble /\ alive \subseteq {"client", "host"}
    /\ rd \in ReadJob /\ wr \in WriteJob
    /\ prompt \subseteq Files /\ paused \subseteq 0 .. NumFiles /\ saved \subseteq 0 .. NumFiles
    /\ src \in [Files -> 1 .. MaxVersion] /\ digest \in [Files -> 0 .. MaxVersion]
    /\ dst \in [Files -> Seq(Nat \X Nat)] /\ part \in [Files -> Seq(Nat \X Nat)]
    /\ pending \in {"none", "open", "finished"}
    /\ audit \in {"none", "COMPLETED", "FAILED", "CANCELLED"}
    /\ status \in {"none", "done", "error", "cancelled"}
    /\ faults \subseteq FaultKinds

\* A file under its own name is the whole of one version of the source, and a
\* partial file is a beginning of the version its digest names, so that resuming
\* at its length continues it; except a file whose resume offset one of the ends
\* ignored, as its job was not there yet (TransferJob::confirm) or the seek failed
\* (set_stream_offset), or that lost a block at the host.
Whole(s) == s \in Contents \cup {NoFile}
Begins(s, v) == s = NoFile \/ \A i \in 1 .. Len(s) : s[i] = <<v, i>>
StoredIntact ==
    \A f \in Files \ (ignored \cup holed) :
        Whole(dst[f]) /\ (digest[f] # 0 => Begins(part[f], digest[f]))

\* The host reports COMPLETED only when every file of the job is stored; except a
\* file that was skipped, one that the resumed job started behind, and those of
\* StoredIntact.
CompletedIsStored ==
    [][audit' = "COMPLETED" /\ audit # "COMPLETED" =>
         \A f \in Files \ (omitted \cup passed \cup ignored \cup holed) : Stored(f)']_vars

\* A download is never reported COMPLETED when one of its files was skipped.
SkippedNotCompleted ==
    audit = "COMPLETED" /\ ~upload => skips = {}

\* A read job that waits for a confirmation will get one: a message is on its way
\* or the user is asked; except after a failed read or a digest that could not be
\* compared, and when the client failed to write and the host, which does not audit
\* the session, ignored its Error.
ConfirmationComing ==
    alive = {"client", "host"} /\ rd.open /\ ~rd.confirmed =>
        \/ toW # <<>> \/ toR # <<>> \/ prompt # {}
        \/ faults \cap {"read", "stat"} # {}
        \/ faults \cap {"write", "finalize"} # {} /\ ~upload /\ ~audited

\* finalize_write renames "so Windows does not report success while leaving only a
\* `.download` file" (fs.rs:1638): a job that is reported done leaves no partial file
\* of which there is no whole one, but for files the user skipped.
DoneLeavesNoPartial ==
    status = "done" => \A f \in Files \ omitted : Exists(f, part) => Exists(f, dst)
=============================================================================

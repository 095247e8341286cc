------------------------------ MODULE DbMirror ------------------------------
(***************************************************************************)
(* The mirror of the database: a run copies the database, drops what is    *)
(* not public from the copy, uploads it chunk by chunk, and keeps one      *)
(* announcement of the latest link, or one of the latest failure, in a     *)
(* Discord channel.  The cron, the start of the process and a command of   *)
(* an admin begin runs, and nothing keeps them apart.                      *)
(*                                                                         *)
(* A step runs from one await to the next.  A folder and a message are     *)
(* known by the run that made them; a dump by its name, the second of its  *)
(* creation.  The dump is not kept (FILE_MIRROR_KEEP_LOCAL_DUMP=false).    *)
(***************************************************************************)
EXTENDS Naturals, FiniteSets, Sequences, FiniteSetsExt

CONSTANTS
  Runs,           \* runs, none of which is begun twice
  Past,           \* one that ended before
  Chunks,         \* bound of the parts a dump is uploaded in
  MaxSecond,      \* bound of the clock
  MirrorFaults    \* bound of failing calls, lost chunks and crashes

ASSUME MirrorAssumption ==
  /\ Past \in Runs
  /\ Chunks \in Nat \ {0} /\ MaxSecond \in Nat /\ MirrorFaults \in Nat

Sources == {"cron", "startup", "command"}
Kinds == {"link", "error"}    \* of an announcement

VARIABLES
  process,     \* booting, while a run at the start is waited for, up, closing or down
  bridge,      \* the Discord client is ready
  second,      \* the clock
  run,         \* each run: pc, who began it, name of its dump, whether it has one,
               \* parts of it, those still to send, what it does in the channel,
               \* messages it has seen there
  files,       \* dumps on the disk
  pruned,      \* those without the tables that are not public
  stored,      \* the chunks that file.kiwi has of each run's dump
  public,      \* runs whose upload was made from a pruned dump (history)
  channel,     \* messages: id, kind and the run they tell of
  posted,      \* how many messages there have been
  buried,      \* those that the last search for their kind did not reach (history)
  reply,       \* what the admin is told of a run
  excused,     \* dumps that a failure or a crash left behind (history)
  clean,       \* runs that nothing disturbed in the channel so far (history)
  latest,      \* what the channel should show: the last run to finish, whether it
               \* succeeded and whether all of the channel may be judged by it (history)
  mirrorFaults

runVars == <<run, files, pruned, stored, public, reply, excused>>
messages == <<channel, posted, buried>>
channelVars == <<messages, clean, latest>>
mirrorVars == <<process, bridge, second, runVars, channelVars, mirrorFaults>>

NotRunning(pc) == [pc |-> pc, source |-> "cron", dump |-> 0, made |-> FALSE,
                   total |-> 1, todo |-> <<>>, job |-> "clear", seen |-> {}]
Nothing == [of |-> Past, sent |-> FALSE, known |-> FALSE, tidy |-> FALSE]

\* What runs that overlapped and failed may have left in the channel.
Leftovers == {[id |-> 0, kind |-> "link", of |-> Past], [id |-> 1, kind |-> "link", of |-> Past],
              [id |-> 2, kind |-> "error", of |-> Past]}

MirrorInit ==
  /\ process = "up" /\ bridge = TRUE /\ second = 0
  /\ run = [r \in Runs |-> NotRunning(IF r = Past THEN "done" ELSE "unbegun")]
  /\ files = {} /\ pruned = {} /\ public = {Past} /\ excused = {}
  /\ stored = [r \in Runs |-> IF r = Past THEN {0} ELSE {}]
  /\ channel \in {{}, Leftovers} /\ posted = Cardinality(channel)
  /\ buried = {}
  /\ clean = {} /\ latest = Nothing
  /\ reply = [r \in Runs |-> "none"]
  /\ mirrorFaults = 0

Running == {r \in Runs : run[r].pc \notin {"unbegun", "done", "failed", "killed"}}
InChannel == {r \in Running : run[r].pc \in {"find", "post", "trim"}}

Alive == process # "down"
Fault == mirrorFaults < MirrorFaults /\ mirrorFaults' = mirrorFaults + 1
NoFault == UNCHANGED mirrorFaults

\* r goes on at pc, with nothing else of it changed.
At(r, pc) == run' = [run EXCEPT ![r] = [@ EXCEPT !.pc = pc]]

\* r turns to the channel; it disturbs those that are there, and they it.
ToChannel(r, job) ==
  /\ run' = [run EXCEPT ![r] = [@ EXCEPT !.pc = "find", !.job = job, !.seen = {}]]
  /\ clean' = IF InChannel = {} THEN {r} ELSE {}

\* buildChunkOrder: the first, the last, and those between.
ChunkOrder(total) ==
  [i \in 1 .. total |-> IF i = 1 THEN 0 ELSE IF i = 2 THEN total - 1 ELSE i - 2]

-----------------------------------------------------------------------------
(* runMirrorJob                                                            *)

\* The cron and the command need a process that is up; a run at the start is
\* begun by Starts.  The command does not wait for the run, so that the admin is
\* told at once that it was triggered, and no failure of it is ever caught.
Begins(r, source) ==
  /\ run[r].pc = "unbegun"
  /\ run' = [run EXCEPT ![r] = [@ EXCEPT !.pc = "copy", !.source = source, !.dump = second]]
  /\ reply' = [reply EXCEPT ![r] = IF source = "command" THEN "triggered" ELSE "none"]

CronBegins(r) ==
  /\ process = "up" /\ Begins(r, "cron")
  /\ UNCHANGED <<process, bridge, second, files, pruned, stored, public, excused,
                 channelVars, mirrorFaults>>

CommandBegins(r) ==
  /\ Alive /\ bridge /\ Begins(r, "command")
  /\ UNCHANGED <<process, bridge, second, files, pruned, stored, public, excused,
                 channelVars, mirrorFaults>>

\* VACUUM INTO, which refuses a file that exists.
Copies(r) ==
  /\ run[r].pc = "copy"
  /\ \/ /\ run[r].dump \notin files
        /\ files' = files \cup {run[r].dump} /\ pruned' = pruned \ {run[r].dump}
        /\ At(r, "prune") /\ NoFault /\ UNCHANGED clean
     \/ /\ \/ run[r].dump \in files /\ NoFault
           \/ run[r].dump \notin files /\ Fault
        /\ ToChannel(r, "error") /\ UNCHANGED <<files, pruned>>
  /\ UNCHANGED <<process, bridge, second, stored, public, reply, excused,
                 messages, latest>>

\* pruneNonLegalTables.  When it fails, nobody removes the copy.
Prunes(r) ==
  /\ run[r].pc = "prune"
  /\ \/ /\ pruned' = pruned \cup {run[r].dump}
        /\ run' = [run EXCEPT ![r] = [@ EXCEPT !.pc = "folder", !.made = TRUE]]
        /\ NoFault /\ UNCHANGED <<excused, clean>>
     \/ /\ Fault /\ ToChannel(r, "error")
        /\ excused' = excused \cup {run[r].dump}
        /\ UNCHANGED pruned
  /\ UNCHANGED <<process, bridge, second, files, stored, public, reply,
                 messages, latest>>

\* The file is looked at, which only its own run removes, and the folder is created.
CreatesFolder(r) ==
  /\ run[r].pc = "folder"
  /\ \/ /\ \E total \in 1 .. Chunks :
             run' = [run EXCEPT ![r] = [@ EXCEPT !.pc = "upload", !.total = total,
                                                  !.todo = ChunkOrder(total)]]
        /\ public' = IF run[r].dump \in pruned THEN public \cup {r} ELSE public
        /\ NoFault /\ UNCHANGED clean
     \/ Fault /\ ToChannel(r, "error") /\ UNCHANGED public
  /\ UNCHANGED <<process, bridge, second, files, pruned, stored, reply, excused,
                 messages, latest>>

\* A chunk arrives; it is lost although the answer was good; or the call fails.
UploadsChunk(r) ==
  /\ run[r].pc = "upload" /\ run[r].todo # <<>>
  /\ \/ /\ run' = [run EXCEPT ![r] = [@ EXCEPT !.todo = Tail(run[r].todo)]]
        /\ \/ stored' = [stored EXCEPT ![r] = @ \cup {Head(run[r].todo)}] /\ NoFault
           \/ Fault /\ UNCHANGED stored
        /\ UNCHANGED clean
     \/ Fault /\ ToChannel(r, "error") /\ UNCHANGED stored
  /\ UNCHANGED <<process, bridge, second, files, pruned, public, reply, excused,
                 messages, latest>>

Complete(r) == stored[r] = 0 .. run[r].total - 1

\* Mutant of Verifies: the status is asked for and not looked at.
VerifiesNothing(r) ==
  /\ run[r].pc = "upload" /\ run[r].todo = <<>>
  /\ NoFault /\ ToChannel(r, "clear")
  /\ UNCHANGED <<process, bridge, second, files, pruned, stored, public, reply, excused,
                 messages, latest>>

\* verifyUpload
Verifies(r) ==
  /\ run[r].pc = "upload" /\ run[r].todo = <<>>
  /\ \/ Complete(r) /\ NoFault /\ ToChannel(r, "clear")
     \/ ((~Complete(r) /\ NoFault) \/ Fault) /\ ToChannel(r, "error")
  /\ UNCHANGED <<process, bridge, second, files, pruned, stored, public, reply, excused,
                 messages, latest>>

-----------------------------------------------------------------------------
(* The channel: clearDbMirrorErrorAnnouncements, then                      *)
(* upsertDbMirrorAnnouncement; or upsertDbMirrorErrorAnnouncement          *)

\* Mutant of KindOf: the links are cleared, not the failures.
KindOfSwapped(job) == IF job = "error" THEN "error" ELSE "link"

\* What messages a call looks for.
KindOf(job) == IF job = "link" THEN "link" ELSE "error"

\* Mutant of AfterFind: what is to be cleared is edited like the rest.
PostRegardless(job) == "post"

AfterFind(job) == IF job = "clear" THEN "trim" ELSE "post"

Ids == {m.id : m \in channel}

\* After the last await of one of them: the next one, or the end of the run, which
\* removes the dump it made.  What the channel should show from now on.
Leaves(r, undisturbed) ==
  IF run[r].job = "clear"
  THEN /\ run' = [run EXCEPT ![r] = [@ EXCEPT !.pc = "find", !.job = "link", !.seen = {}]]
       /\ clean' = IF undisturbed THEN clean ELSE clean \ {r}
       /\ UNCHANGED latest
  ELSE LET ok == undisturbed /\ r \in clean
           sent == run[r].job = "link"
       IN /\ At(r, "remove")
          /\ clean' = clean \ {r}
          /\ latest' = [of |-> r, sent |-> sent, known |-> ok,
                        tidy |-> IF sent THEN ok ELSE ok /\ latest.tidy]

\* The messages of a kind.
IdsOf(kind) == {m.id : m \in {x \in channel : x.kind = kind}}

\* The bridge is not ready, or the channel or its messages cannot be read: the
\* call is over.  Otherwise it has the messages of the kind among the newest 300 of
\* the channel (maxScanBatches pages of pageSize).  How many others write there is
\* not modelled: the search goes back to any message, or to none.
Finds(r) ==
  LET found == IdsOf(KindOf(run[r].job)) IN
  /\ run[r].pc = "find"
  /\ \/ ((~bridge /\ NoFault) \/ Fault) /\ Leaves(r, FALSE) /\ UNCHANGED buried
     \/ \E oldest \in 0 .. posted :
          LET seen == {i \in found : i >= oldest} IN
          /\ bridge /\ NoFault
          /\ run' = [run EXCEPT ![r] = [@ EXCEPT !.pc = AfterFind(run[r].job), !.seen = seen]]
          /\ buried' = (buried \cup found) \ seen
          /\ UNCHANGED <<clean, latest>>
  /\ UNCHANGED <<process, bridge, second, files, pruned, stored, public, reply, excused,
                 channel, posted>>

\* The newest message it has seen is edited, or a new one is sent.  A message that
\* was deleted meanwhile cannot be edited, and the call is over.
Posts(r) ==
  LET seen == run[r].seen  job == run[r].job  newest == Max(seen) IN
  /\ run[r].pc = "post"
  /\ \/ /\ seen = {} /\ bridge /\ NoFault
        /\ channel' = channel \cup {[id |-> posted, kind |-> job, of |-> r]}
        /\ posted' = posted + 1
        /\ At(r, "trim") /\ UNCHANGED <<clean, latest>>
     \/ /\ seen # {} /\ newest \in Ids /\ bridge /\ NoFault
        /\ channel' = {m \in channel : m.id # newest}
                        \cup {[id |-> newest, kind |-> job, of |-> r]}
        /\ run' = [run EXCEPT ![r] = [@ EXCEPT !.pc = "trim", !.seen = seen \ {newest}]]
        /\ UNCHANGED <<posted, clean, latest>>
     \/ /\ \/ ~bridge /\ NoFault
           \/ seen # {} /\ newest \notin Ids /\ NoFault
           \/ Fault
        /\ Leaves(r, FALSE) /\ UNCHANGED <<channel, posted>>
  /\ UNCHANGED <<process, bridge, second, files, pruned, stored, public, reply, excused, buried>>

\* The others are deleted one by one; a deletion may fail.
Trims(r) ==
  LET seen == run[r].seen  newest == Max(seen) IN
  /\ run[r].pc = "trim"
  /\ \/ /\ seen = {} /\ NoFault /\ Leaves(r, TRUE) /\ UNCHANGED channel
     \/ /\ seen # {}
        /\ run' = [run EXCEPT ![r] = [@ EXCEPT !.seen = seen \ {newest}]]
        /\ \/ /\ bridge /\ NoFault /\ UNCHANGED clean
              /\ channel' = {m \in channel : m.id # newest}
           \/ ((~bridge /\ NoFault) \/ Fault) /\ clean' = clean \ {r} /\ UNCHANGED channel
        /\ UNCHANGED latest
  /\ UNCHANGED <<process, bridge, second, files, pruned, stored, public, reply, excused, posted,
                 buried>>

\* Mutant of HasDump: only after a success.
HasDumpOfSuccess(r) == run[r].made /\ run[r].job # "error"

HasDump(r) == run[r].made

\* What becomes of a failure: the cron logs it, a run at the start ends the process,
\* and that of a command is an unhandled rejection, which shuts the process down.
ProcessAfter(source, failed) ==
  CASE failed /\ source # "cron" -> "closing"
    [] ~failed /\ source = "startup" /\ process = "booting" -> "up"
    [] OTHER -> process

\* The finally block.
Ends(r) ==
  LET failed == run[r].job = "error"  dump == run[r].dump IN
  /\ run[r].pc = "remove"
  /\ At(r, IF failed THEN "failed" ELSE "done")
  /\ \/ files' = (IF HasDump(r) THEN files \ {dump} ELSE files) /\ NoFault /\ UNCHANGED excused
     \/ HasDump(r) /\ Fault /\ excused' = excused \cup {dump} /\ UNCHANGED files
  /\ process' = ProcessAfter(run[r].source, failed)
  /\ UNCHANGED <<bridge, second, pruned, stored, public, reply, channelVars>>

RunStep(r) ==
  /\ Alive
  /\ \/ Copies(r) \/ Prunes(r) \/ CreatesFolder(r) \/ UploadsChunk(r) \/ Verifies(r)
     \/ Finds(r) \/ Posts(r) \/ Trims(r) \/ Ends(r)

-----------------------------------------------------------------------------
(* The process                                                             *)

Ticks ==
  /\ second < MaxSecond /\ second' = second + 1
  /\ UNCHANGED <<process, bridge, runVars, channelVars, mirrorFaults>>

BridgeReady ==
  /\ Alive /\ process # "closing" /\ ~bridge /\ bridge' = TRUE
  /\ UNCHANGED <<process, second, runVars, channelVars, mirrorFaults>>

\* app.close() destroys the client, and runs go on until the process exits.
BridgeCloses ==
  /\ process = "closing" /\ bridge /\ bridge' = FALSE
  /\ UNCHANGED <<process, second, runVars, channelVars, mirrorFaults>>

\* The process exits or crashes; the runs are gone, with their dumps left behind.
Dies ==
  /\ Alive /\ IF process = "closing" THEN NoFault ELSE Fault
  /\ process' = "down" /\ bridge' = FALSE
  /\ run' = [r \in Runs |-> IF r \in Running THEN [run[r] EXCEPT !.pc = "killed"] ELSE run[r]]
  /\ excused' = excused \cup {run[r].dump : r \in Running}
  /\ latest' = IF InChannel = {} THEN latest
               ELSE [latest EXCEPT !.known = FALSE, !.tidy = FALSE]
  /\ clean' = {}
  /\ UNCHANGED <<second, files, pruned, stored, public, reply, messages>>

\* With FILE_MIRROR_TEST_UPLOAD_ON_STARTUP the process waits for a run.
Starts ==
  /\ process = "down" /\ second > 0
  /\ \/ process' = "up" /\ UNCHANGED <<run, reply>>
     \/ process' = "booting" /\ \E r \in Runs : Begins(r, "startup")
  /\ UNCHANGED <<bridge, second, files, pruned, stored, public, excused, channelVars, mirrorFaults>>

MirrorNext ==
  \/ \E r \in Runs : CronBegins(r) \/ CommandBegins(r) \/ RunStep(r)
  \/ Ticks \/ BridgeReady \/ BridgeCloses \/ Dies \/ Starts

MirrorSpec == MirrorInit /\ [][MirrorNext]_mirrorVars
-----------------------------------------------------------------------------
MirrorTypeOK ==
  /\ process \in {"booting", "up", "closing", "down"} /\ bridge \in BOOLEAN
  /\ second \in Nat /\ mirrorFaults \in Nat /\ posted \in Nat
  /\ run \in [Runs -> [pc : {"unbegun", "copy", "prune", "folder", "upload", "find", "post",
                            "trim", "remove", "done", "failed", "killed"},
                       source : Sources, dump : Nat, made : BOOLEAN, total : Nat \ {0},
                       todo : Seq(Nat), job : {"clear", "link", "error"}, seen : SUBSET Nat]]
  /\ buried \subseteq Nat /\ files \subseteq Nat /\ pruned \subseteq Nat /\ excused \subseteq Nat
  /\ stored \in [Runs -> SUBSET Nat] /\ public \subseteq Runs /\ clean \subseteq Runs
  /\ channel \subseteq [id : Nat, kind : Kinds, of : Runs]
  /\ reply \in [Runs -> {"none", "triggered", "failed"}]
  /\ latest \in [of : Runs, sent : BOOLEAN, known : BOOLEAN, tidy : BOOLEAN]

\* A link in the channel leads to an upload of which file.kiwi has every chunk, and
\* which was made from a copy without the private tables (uploadAllChunks,
\* verifyUpload, pruneNonLegalTables), whatever fails and however runs overlap.
LinksComplete ==
  \A m \in channel : m.kind = "link" => m.of \in public /\ Complete(m.of)

\* As long as no call has failed, every chunk is at file.kiwi or still to be sent,
\* and none is sent twice, for any number of chunks (buildChunkOrder).
NoChunkForgotten ==
  \A r \in Runs : run[r].pc = "upload" /\ mirrorFaults = 0 =>
    LET todo == run[r].todo IN
    /\ stored[r] \cup {todo[i] : i \in DOMAIN todo} = 0 .. run[r].total - 1
    /\ Cardinality(stored[r]) + Len(todo) = run[r].total

\* A link is announced of a whole dump only, and no chunk is left out on the way.
UploadsComplete == LinksComplete /\ NoChunkForgotten

Posted(kind) == {m \in channel : m.kind = kind}

\* m is the newest message of its kind, and the others were out of reach when they
\* were last looked for.
Heads(m) == \A x \in Posted(m.kind) \ {m} : x.id < m.id /\ x.id \in buried

\* When nobody writes to the channel, and the last run that did was disturbed neither
\* by another nor by a failing call, the newest link or the newest failure in the
\* channel tells what became of that run.  What stands beside it (an older message
\* of the kind, a failure beside a link) is out of reach of the search.  There are
\* two links within reach only when a run that announced one was disturbed
\* (upsertDbMirrorAnnouncement, which finds the messages before it edits, sends and
\* deletes).
ChannelTellsLatest ==
  InChannel = {} =>
    /\ latest.known =>
         /\ \E m \in Posted(IF latest.sent THEN "link" ELSE "error") :
              m.of = latest.of /\ Heads(m)
         /\ latest.sent => IdsOf("error") \subseteq buried
    /\ latest.tidy => \A m \in Posted("link") : Heads(m) \/ m.id \in buried

\* No dump stays on the disk but for those of running uploads and those that a
\* failing prune, a failing removal or a dying process left (the finally block of
\* runMirrorJob).
DumpsRemoved ==
  \A f \in files : f \in excused \/
    \E r \in Running : run[r].dump = f /\ (run[r].pc = "prune" \/ run[r].made)

\* The admin is told of a run by command that fails.  So say the catch block of
\* cmdDbMirrorUpload and its reply; but the run is not awaited.
ManualFailureReported ==
  \A r \in Runs : run[r].source = "command" /\ run[r].pc = "failed" => reply[r] = "failed"
=============================================================================

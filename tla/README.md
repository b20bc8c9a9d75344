# A verification project for SecureMailScope (`ecforensics`)

SecureMailScope reads a packet capture of mail traffic, rebuilds the TCP streams,
decides for each whether it was encrypted (implicit TLS or STARTTLS), judges the
TLS parameters and certificates it can see, and reports a score and findings per
session. Everything it says is an inference from an incomplete observation, so
most of what can go wrong is an inference that is not justified: a plaintext
verdict on a capture that lost packets, an upgrade nobody agreed to, a gap where
there is none. The models in this directory state what those inferences should
mean, against models of the traffic they are drawn from.

The TLA+ modules model the program (`src/src/ecforensics`), TLC checks them on
small instances (the `MC*` modules and `.cfg` files), and TLAPS checks the
theorems of the seven `*Proofs` modules, and the lemmas of `OperatorLemmas` they
share, for all values of the constants. Every invariant and action property a
passing run checks is also a theorem; only liveness is model-checked alone.
`PROJECT.json` lists components, runs, findings, hazards and theorems, and maps
each definition to the lines it stands for.

    tlc -workers 2 -config MCReassemblyLoop.cfg MCReassemblyLoop.tla
    tlapm ReassemblyLoopProofs.tla

## 1. The system

| Component | Source | State it keeps | Operations |
|---|---|---|---|
| Stream discovery | `ingestion/stream_reassembly.py` 35-92 | the set of seen stream ids, the list of streams | two passes over packet rows of TShark, SYN rows first |
| Direction reassembly | same, 95-117 | position, assembled bytes, gap flag | sort the chunks, merge them |
| Stream reassembly | same, 120-217 | chunks and flags of each direction | collect packets, decide completeness |
| Protocol identification | `ingestion/protocol_identifier.py` | none | port table, banner |
| STARTTLS detection | `tls/starttls_detector.py` | none | offer, command, acceptance, ClientHello |
| TLS handshake parser | `tls/handshake_parser.py`, `tls/cipher_suites.py`, `tls/cipher_suite_registry.py` | none | first hellos to version, suite, forward secrecy, certificates |
| Certificates | `certificates/extractor.py`, `validator.py` | none | extract, parse, validate the presented chain |
| Pipeline | `pipeline.py` | the list of sessions | build, chain status, assess, two ML stages |
| Risk engine | `risk_engine/rules.py`, `scorer.py` | findings and score of a session | ten findings from nine rules, penalties, headline |
| ML models | `ml/*.py`, `scripts/train_*.py` | columns, fitted estimator, importances, metrics; a model file | extract features, train, save, load, predict |
| Reports | `reporting/*.py` | files | order and write JSON, HTML, PDF |
| FastAPI service | `dashboard/app.py` | `_STORE` in memory, working directories on disk | upload, list sessions, fetch a report |
| Streamlit dashboard | `dashboard/streamlit_app.py` | a cache keyed by content and paths, with a lock per entry | analyse, clear the cache, sort, show |
| Command line | `cli.py`, `scripts/run_pipeline.py` | files | one analysis, up to three exports |

**How they interact.** `analyze` is a chain of calls: discovery gives streams,
each is reassembled, `build_sessions_from_pcap` combines the protocol, the
STARTTLS result, the handshake and the chain status into a session, `assess_sessions`
attaches findings and a score, `apply_ml` attaches two more kinds of findings to
the same list. The session object is shared and mutated by every stage, so the
order of the stages matters. TShark is called as a subprocess without a timeout;
its failure is an exception that ends the analysis. Both dashboards and the
command line call `analyze` and then the reports. Two parts have concurrency:
the service, with coroutines on one event loop and a store that a restart empties,
and the Streamlit dashboard, whose users' runs share a cache and read model files
that another process may be writing. A model object keeps what training left in
it, also when training failed half way.

**What is hard.** Packets lost, truncated, repeated, reordered, or captured from
the middle of a connection; sequence numbers that wrap; dialogues in which a
command is refused, repeated, or mentioned in mail text; messages of both peers
in the same column; the order of the stages that write one session; a service
whose uploads overlap at an `await`, whose exporters fail half way and whose
process may die; reports of two runs in one directory; a cache that outlives the
model it was computed with, and a model object that outlives a failed training.
The hazards are listed in `PROJECT.json`, each at its line.

**What makes each component correct.**

- *Discovery*: each stream with a readable packet is listed once, its server is
  the peer with the mail port, otherwise the peer that did not open.
- *Reassembly*: every captured byte once and in order; a gap exactly where a
  byte between captured ones is missing; "complete" only for what is contiguous,
  and always for what is whole.
- *STARTTLS*: an upgrade that was captured is recognised, an acceptance that was
  not given is not, a refusal stands.
- *Rules*: the critical plaintext finding is given to whole dialogues in which
  the server never agreed to TLS, and absence of TLS is explained once.
- *Certificates*: what is shown is what the server presented, and the chain
  finding is given exactly to inconsistent chains.
- *Pipeline*: no mail stream is lost, no model changes the score or withdraws a
  finding, the worst session is shown first.
- *ML models*: a saved model is one model, with its own columns, importances and
  metrics, and its features tell apart what the rules it learns from tell apart.
- *Command line*: success means that every report is of this analysis, failure
  that at most one is spoiled.
- *Dashboard*: one result per capture and configuration until the cache is
  cleared, the model as saved after that, and every run ends.
- *Service*: a report id serves its own upload, only after success, until the
  process dies; reports appear whole and never change; each upload is answered.

## 2. The modules

    Selection --+-- Reassembly ----+-- Direction <...implements... ReassemblyLoop
                |                  +-- StreamCapture
                |   StreamMeta ----+-- StreamDiscovery
                |
                +-- StartTlsDetector ----------------+-- MailDialogue
                +-- HandshakeParser -- SessionRules -+
                                                     +-- FeatureExtraction
                                                               |
                                                          AnalysisRun -- CommandLine
    ReportStore <...implements... ReportApi
    MlModel -- Dashboard

    OperatorLemmas (about Selection, Reassembly, HandshakeParser, SessionRules)
        +-- ReassemblyLoopProofs, StreamCaptureProofs, MailDialogueProofs, AnalysisRunProofs
    StreamDiscoveryProofs, ReportApiProofs, DashboardProofs

| Module | Models | State and actions, and the code they stand for |
|---|---|---|
| `Selection` | comprehensions and loops that keep some elements of a list in order | `Picked` by the set of their positions, `Least` the first of them: a choice and a recursive function, which a proof can unfold where `SelectSeq` and its `RECURSIVE` relatives are closed to it. |
| `Reassembly` | chunks and `_reassemble_direction` as a fold | A chunk is `[seq, len]`; a byte is its raw position. `InSeqOrder` is the stable sort, by insertion; `Absorb` is the loop body and `Absorbed` the loop, both as recursive functions. |
| `Direction` | the promise of one direction (abstract specification) | `Collect` chunks, then `Deliver` all captured bytes and whether one is missing, in one step. |
| `ReassemblyLoop` | the same code, one iteration per step | `chunks`, `queue` (sorted), `i`, `expected`, `assembled`, `has_gap` are the variables of the function; `SkipCovered`, `AppendAfterGap` and `AppendFresh` its three branches. |
| `StreamMeta` | `_MAIL_SERVER_PORTS` and the choice of client and server | `Orient`. |
| `StreamDiscovery` | `_list_tcp_streams`, `_stream_meta_from_rows` | `seen`, `streams` and the position in the pass; `SkipRow` joins every `continue`, `NextPass` is the second TShark call. |
| `StreamCapture` | `_reassemble_stream`, over a TCP connection and its capture | The wire actions are external; each packet may be missed or truncated by the capture. `Analyse` is the function, which may run at any moment: every prefix is a capture that ended early. |
| `StartTlsDetector` | `detect_starttls` | Lines are records of the words the code looks for; a line of other words is one without them. |
| `HandshakeParser` | `parse`, the extractor, `validate_chain` | Fields are the value sequences TShark joins by commas; certificates carry names, keys and the key that signed them. |
| `SessionRules` | sessions and their notes, rules, score, headline | `Session` takes the branches of the pipeline one after the other: `UpgradeNotes` is what an accepted upgrade without details leaves, `Annotated` the note added if there is none yet. `Rules` lists findings in the order of `ALL_RULES`. |
| `MailDialogue` | client, server, capture, and the verdict on it | The peers are external, and free in their wording. `Result` and `Verdict` are what the program would say if the capture ended now. `accepted`, `refusals`, `offerCaptured` and `misled` record what really happened: whether the server agreed, and in words the detector knows or not; what it refused and offered; and whether another of its lines reads like an agreement. |
| `FeatureExtraction` | `session_to_features`, the training sessions of `train_risk_model.py` | Operators. `LabelsAsIntended`, which TLC evaluates, says that the rules label each training profile as it is named and that the features tell the profiles apart. |
| `AnalysisRun` | `analyze` and the presentation | `phase` and `k` are the program counter of the loops of `build_sessions_from_pcap`, `assess_sessions` and `apply_ml`; failures of TShark and of a model file end in `"failed"`. |
| `CommandLine` | `cli.py`, `run_pipeline.py`, the PDF export | `status` and `todo` are where `main` stands, `files` what each report file holds: of an earlier run, of this one, or cut off. `WeasyPrint` and `Browser` are the two renderers. |
| `MlModel` | `MLRiskClassifier`, `TLSAnomalyDetector`, their files | Operators on an object: `Train` and `Fit` keep the order in which the code replaces columns, metrics, estimator and importances around what may raise; `Load` has both kinds of files. |
| `Dashboard` | the cached analysis of `streamlit_app.py` beside a trainer | `pc`, `key`, `uses`, `result` are the run of each user, `cache` and `lock` those of `st.cache_data` (external); `object`, `file` and `saving` belong to the trainer. `current`, `since` and `cleared` only record what the properties speak of. |
| `ReportStore` | what the service promises (abstract specification) | `Publish` a report, whole and in one step; `Ask` for one; `Lose` all of them. |
| `ReportApi` | `dashboard/app.py` | `stage` is where a handler stands, `running` who holds the event loop; `Crash` empties `store` and keeps `capture` and `files`. |

An operator whose comment begins "Variant of" is a plausible bug in the
definition below it. No module uses it; a property is worth its run only if such
a change of the code makes TLC find it violated, and `PROJECT.json` pairs each
property with one.

### What the models abstract

- Payload bytes are their positions in the sequence space. Two captured copies of
  a position are taken to carry the same byte, as TCP retransmissions do.
- Addresses, times and wording are left out. Lines of a dialogue hold only the
  words the detector tests for; cipher suite names only their patterns.
- The ids of sessions compare as their strings do, which for the instances (ids
  below ten) is the order of the numbers.
- What a model predicts is a free choice in `AnalysisRun`; in `MlModel` what was
  learned is the data set it was learned from. Nothing is shown of its quality.
- `Dashboard` lets a run that waits for the lock of an entry that was cleared go
  on at once; in Streamlit it waits for the holder of the forgotten lock. The
  contamination of an anomaly detector is left out: it is read by `fit` only, so
  the slider of the dashboard has no effect on a model that is loaded.

## 3. The runs

| Run | Instance and why it is enough | Shows |
|---|---|---|
| `reassembly_loop` | up to 4 chunks, starts 0..3, lengths 0, 1, 3. Two chunks give every relation of two intervals; four give a hole, its filling, and a chunk merged after both. | `NoByteTwice`, `AllCapturedBytes`, `GapIffHole`, `GapIsFinal`, `FoldAgrees`, the inductive invariant `IInv`, and that the loop implements `Direction`. |
| `stream_discovery` | 2 streams, 3 rows, every assignment of a mail and another port, rows readable or not. Three rows hold an early reply, another stream's SYN and a late SYN. | `ListedOnce`, `NoStreamMissed`, `MailPortServes`, `OpenerIsClient`, and the inductive invariant `Inv`. |
| `stream_capture` | 6 packets, 3 bytes per peer, sequence space 16, initial number far from its end. Six packets are a handshake, data, a retransmission and a close. | `OwnBytesOnce`, `CompleteIsContiguous` (exactly which losses are noticed), `WholeCaptureIsComplete`. |
| `mail_dialogue` | SMTP and POP3 with up to 2 upgrade commands, IMAP with 1, 2 lines of text, 1 reply to another command, captures that start late and end at any moment. The wordings are common ones and, in each protocol, some that the detector does not know or mistakes. | `UpgradeSeen`, `RefusalStands`, `OnlyRemarksMislead`, `PlaintextVerdict`, `PlaintextExact`, `UnusedOfferReported`. |
| `analysis_run` | up to 2 streams out of 17 kinds, which reach each rule and each path of the pipeline; either model absent, readable or broken; then every set of formats over files that an earlier run left or not. Two sessions are enough for a loop that leaves one behind, for an order, and for two sessions with the same features. | `EveryMailStreamReported`, `ScoreFromRules`, `HeadlineFromRules`, `AbsenceExplainedOnce`, `ChainVerdict`, `FeaturesFollowRules`, `OkMeansWritten`, `ErrorLeavesPrefix`, `FindingsOnlyGrow`. |
| `report_api` | 2 uploads, 1 crash, reads at any moment. Two uploads overlap in every way the `await` allows. | `OwnReport`, `OnlyCompletedServed`, `FoundUntilCrash`, `EveryUploadAnswered`, and that the service implements `ReportStore` (`ImplementsStore`). |
| `dashboard` | 2 users of one cache key, 3 trainings or loads, 2 saves, 5 data sets of 2 schemas (validated, too small to validate, refused, failing in the split, failing in the fit), a path that names nothing or a bare estimator. Three calls are a training, a failed one and a retry; two saves are a model and its successor. One key has all the contention: entries of other keys are independent, and the proofs hold for any number. | `SavedModelAnswers`, `OwnMetrics`, `OneResultUntilCleared`, `ClearedShowsSaved`, `EveryRunEnds`. |

`CHECK_DEADLOCK FALSE` is set where the system ends: a function that returned, a
dialogue that closed, a command that exited. The service and the dashboard are
checked for deadlock.

**Bounds.** `MaxChunks`, `MaxRows`, `MaxBytes`, `MaxPackets`, `MaxAsks`,
`MaxTexts`, `MaxReplies`, `MaxStreams`, `MaxCrashes`, `MaxCalls` and `MaxSaves` bound
inputs, never the program.
`Modulus` is 2^32 in the program; it only has to exceed what is sent.

**Limits of what the passing runs say.** The instances hold the cases below, and the
properties except them, because there the code does not do better:

- *Losses at the ends.* The code looks for gaps only between captured payloads.
  A loss before the first or after the last captured byte of a direction is not
  noticed, the stream counts as complete, and its lack of TLS may get the critical
  finding. `CompleteIsContiguous` says just this.
- *Wordings.* The RFCs leave the text of an answer to the server. An acceptance in
  words the detector does not know is missed (`accepted = "unknown"`), and the
  dialogue is judged as plaintext. A greeting or a reply to another command that
  reads like an acceptance is taken for one in SMTP and POP3 (`misled`);
  `OnlyRemarksMislead` says that nothing else is. The offer in a POP3 capability
  list whose first line does not name `CAPA` is missed (`offerCaptured = "bare"`).
- *Unused offers.* Where no ClientHello follows an offer it is always reported;
  where one does after an acceptance that was missed, nothing is claimed.
- *Both peers with certificates.* `ChainVerdict` is about streams in which at most
  one presents them.
- *Features.* `FeaturesFollowRules` is about the rules on versions, cipher suites,
  forward secrecy, expiry and key size; chain validity and completeness of the
  capture are in no feature, so a session about which nothing could be concluded has
  the features of a plaintext session, and its class is the model's guess.
- *An old PDF.* `OkMeansWritten` excepts a browser that reports success and prints
  nothing while an old PDF is there.
- *A cache cleared under an analysis.* The analysis writes its older result into the
  emptied cache, and the next run shows it. `ClearedShowsSaved` is about runs that
  clear the cache while nobody analyses.
- *Model files.* `SavedModelAnswers` is about objects whose last training or load
  ended well: a fit that failed half way can be saved, and a file with an empty
  schema loaded. `OwnMetrics` excepts a bare estimator loaded over another model,
  whose metrics stay.

Two cases are kept out of the instances. `mail_dialogue` gives IMAP one command,
because with two `UpgradeSeen` fails, and `stream_capture` keeps away from the
wrap-around: for both, see below.

### Where code and documentation part

Five runs check a sentence of the documentation, of a docstring or of a comment
that the code does not keep; TLC's counterexample is short in each.

| Run | Property | What happens |
|---|---|---|
| `sequence_wrap` | `NoGapWithoutLoss` | Raw sequence numbers wrap inside a connection: the data after the wrap sort first, and the jump back is reported as a gap although nothing was lost. |
| `smtp_greeting` | `AcceptanceIsReal` | A greeting `220 ... ready` is taken for the answer to a STARTTLS command that was refused without naming TLS. |
| `imap_retry` | `UpgradeSeen` | The tag of the first STARTTLS command is remembered; the second attempt is accepted and not recognised. |
| `client_certificate` | `ServerChainReported` | Both peers present certificates: no comma separates the two rows, so the last certificate of one and the first of the other become one that cannot be parsed, and the rest of the client's chain is shown as the server's. |
| `report_order` | `HighestRiskFirst` | Reports sort by descending score, where a lower score is worse; the dashboard does so within a severity. |

### Fairness

`ReportApi` assumes weak fairness of the handler of each upload (`Handle(u)`): the
event loop resumes a handler that can go on. A handler waiting behind another that
holds the loop is enabled again once that one has finished, which its own fairness
brings about, since uploads are finite and a handler has no loop. Nothing is
assumed of `Receive`, of `Crash`, or of `Restart`: a request that was never sent
needs no answer, and one the crash cut off gets none. The assumption that is not in
the code is that the TShark processes end, which are started without a timeout.

`Dashboard` assumes weak fairness of each user's run (`Continue(u)`), which a thread
of the server executes. Nothing is assumed of the trainer, who may leave a file cut
off for ever, or of the users, who need not start or clear anything. Python's locks
are not fair, and `Continue(u)` is not continuously enabled for a run that waits for
a lock: `EveryRunEnds` therefore excepts a run that loses the lock again and again
to users who go on starting runs. It does not except failed analyses, nor cleared
caches. Taken for granted, and not in this code: that TShark ends, which is started
without a timeout, and that Streamlit releases the lock of a computation that raised.

## 4. The proofs

The proofs assume the named assumptions on constants (below, with each module) and, in
the few theorems that say so, one hypothesis about the traffic (`NoWrap`, `AsksOnce`,
`ServersPresent`). Each hypothesis is one a run shows to be needed: drop it, and the
run finds the property violated.

`ReassemblyLoopProofs` proves, for every set of natural sequence numbers and
lengths and every bound on the chunks (`ConstantsAssumption`):

- `Invariance`: `Spec => []IInv`. No safety property of the loop is inductive: that
  the next chunk's fresh part continues the assembled bytes needs to know where
  `expected` comes from. `IInv` adds that the queue is the sorted list of kept
  chunks (`QueueInv`), that the bytes assembled are those of the chunks merged so
  far, all below `expected`, with none missing from the start of the last merged
  chunk on (`MergeInv`: this is what lets the code cut an overlap off blindly), and
  that the flag tells whether one is missing at all, then for good (`GapInv`).
- From it `TypeCorrect`, `NeverTwice` (`NoByteTwice`), `Complete`
  (`AllCapturedBytes`), `GapExact` (`GapIffHole`) and `GapFinal` (`GapIsFinal`).
- `FoldIsLoop` (`FoldAgrees`): the function the other models use returns what the loop
  returns. Both hold the captured bytes, ascending, and two ascending sequences of
  the same numbers are the same (`AscendingUnique`).
- `Refinement`: `Spec => ImplementsDirection`. All steps but the returns stutter.

`StreamDiscoveryProofs` proves, for every set of streams and ports and any number
of rows (`DiscoveryAssumption`):

- `Invariance`: `Spec => []Inv`. `TypeOK` and `ScanInv` in it are inductive. `ScanInv` says that `seen` is
  what was listed and that each row passed is accounted for; in the second pass,
  that a stream not in `seen` has no readable SYN anywhere. Without the last part
  the orientation of a stream found in the second pass could not be justified.
- From it `Once`, `Found`, `MailPort` and `Opener`, the four properties of the run.

`StreamCaptureProofs` proves, for any ports and initial numbers and any number of
packets and bytes (`CaptureAssumption`), if no peer's bytes reach the end of the
sequence space (`NoWrap`; `sequence_wrap` shows what happens if they do):

- `CaptureInvariant`: `Spec => []CaptureInv`. A captured payload lies within what its
  sender has sent by then (`Within`), and the stream, once there is one, was made
  of the packets that are there. That is all the wire contributes; the rest is about
  `ReassembleDirection` (below).
- From it `OwnBytes` (`OwnBytesOnce`), `Contiguous` (`CompleteIsContiguous`) and
  `WholeCaptures` (`WholeCaptureIsComplete`). Behind the second stand that a hole
  in the raw positions is a byte lost between captured ones and the other way round
  (`HoleIsLoss`), and that ascending positions without a hole follow one another
  (`NoHoleConsecutive`); behind the third that where every
  byte was captured no position of the peer is missing (`WholeHasNoHole`), although
  the chunks may overlap, repeat and come in any order.
- `NoFalseGap`: with `NoWrap` the property the run `sequence_wrap` violates holds.

`MailDialogueProofs` proves, for any wordings of greetings, lists, answers and other
replies, and any number of commands and texts (`DialogueAssumption`). Of the wordings
nothing is assumed; `TagAssumption` says that the tags of IMAP commands are told from
the mark of untagged lines and from other tags:

- `DialogueInvariant`: `Spec => []DialogueInv`. The verdicts are functions of what was
  captured, and say something of what was agreed only because of the order the
  dialogue has. `Course` is that order, `ClientInv` what a client can have been captured
  saying, and `SmtpInv`, `ImapInv`, `Pop3Inv` what tells the answer of a server from all
  its other lines: in SMTP that it is the last line that reads like one, in IMAP its
  tag, in POP3 its words. Each part says what holds while no other line reads like an
  acceptance (`~misled`), and what holds in any case.
- From it `AcceptancesAreReal` (`OnlyRemarksMislead`) and `RefusalsStand` (`RefusalStands`), and if an IMAP client asks once (`AsksOnce`; `imap_retry` shows why)
  `CapturedUpgrades` (`UpgradeSeen`), `PlaintextVerdicts` (`PlaintextVerdict`),
  `PlaintextIsFound` (`PlaintextExact`) and `UnusedOffers` (`UnusedOfferReported`).
  Each is about acceptances in known words and offers in named lists where its
  statement says so.

`AnalysisRunProofs` proves, for every set of streams, any number of them, any models
and any classes (`RunAssumption`; `StreamAssumption` gives the types of a stream's fields;
`NoneAssumption` says that no parsed session is the value that stands for `None`):

- `AnalysisInvariant`: `Spec => []RunInv`. `SessionsInv` says which session stands for
  which stream of the capture, with which facts, and that each mail stream passed
  has one; `AssessedInv` that the findings of an assessed session are those of the
  rules, and behind them only what the models appended, and its score is that of the
  rules; `ShownInv` that what is shown is an arrangement of the sessions.
- From it `MailStreamsReported` (`EveryMailStreamReported`), `ScoreIsOfRules`
  (`ScoreFromRules`), `HeadlineIsOfRules` (`HeadlineFromRules`: an appended finding is
  never severe enough to displace a rule's), `AbsenceIsExplained`
  (`AbsenceExplainedOnce`; `NotesOfSession` goes through the branches that write notes), `FeaturesDecideRules` (`FeaturesFollowRules`), `ChainIsJudged`
  (`ChainVerdict`) and the action property `FindingsStay` (`FindingsOnlyGrow`).
- `ServerChains`: if at most one message of a stream has certificates and that is the
  server's (`ServersPresent`), the property the run `client_certificate` violates holds.
- `CommandLineAnalyses`: every behaviour of the command line is one of the analysis, so
  the properties of the analysis hold of it too.
- `SuccessWrites` (`OkMeansWritten`) and `FailureSpoilsOne` (`ErrorLeavesPrefix`), from
  `CliInv`. `InOrder` says that the formats no longer in `todo` are done and come before
  those in it, which are untouched but for the PDF between the two renderers;
  `HandsOff` that nothing is touched before the analysis is over. `AnalysisEnds` is what
  the proof needs of `AnalysisRun`: after "done" or "failed" no step is left.

`ReportApiProofs` proves, for every set of uploads and any number of crashes
(`ApiAssumption`):

- `Invariance`: `Spec => []IInv`, on which the others rest. `OwnReport` is about a reply; that a reply is right
  needs every file to be of the upload whose directory it is in, which needs the
  sessions of a handler to be of its capture, which needs the capture it finds after
  the `await` to be the one it stored (`HandlerInv`, with `running` the only handler
  past its `await`). `OnlyCompletedServed` and `FoundUntilCrash` need that an upload is
  answered 200 exactly if it is in the store or was lost with it, and that its two
  text reports then exist (`StoreInv`).
- From it `ServesOwn`, `ServesCompleted` and `KeptUntilCrash`, the three invariants of the run.
- `StoreRefinement`: `Spec => ImplementsStore`. What is published is the files of the
  uploads in `_STORE`. `WritesAreHidden` is the heart of it: a handler writes only
  into a directory that is not served yet, so no report a client can see ever changes.
  `StoreIsPublish` is the step that serves, `GetIsAsk` the reply, and `Crash` is `Lose`.

`DashboardProofs` proves, for every set of users, keys, data sets and old files and
any number of trainings and saves (`DashboardAssumption`):

- `SavedAnswers` (`SavedModelAnswers`) and `ReportsItsModel` (`OwnMetrics`), from
  `ModelInv`: the object in memory and the one in the file are `Sound`, whatever
  sequence of trainings, failures, loads and cut off saves led there. `LoadSound` and
  `TrainedSound` are the lemmas on the operators of `MlModel`.
- `ShowsCurrent` (`ClearedShowsSaved`) and `SharesResult` (`OneResultUntilCleared`), from
  `CacheInv`. `CurrentInv` says that while a run that cleared the cache alone goes on,
  every result that was read or cached since is at least as new; `LockInv` that before
  any clear the holder of a lock is the one who analyses and its entry is missing,
  so that no two results of one key can come about.

**The functions.** Most of what the code computes is a loop over a list, in the models
a recursive function or a selection. `OperatorLemmas` says what these are worth for a
list of any length. `InductionOverNat` is induction over a set of numbers (the
library's induction theorems take an operator, which no prover here can instantiate),
and `RecursionOverInterval` that a function given by a step from each value to the
next exists. From them follow, once for all models: what `Picked` holds
(`PickedElements`, `PickedPrefix`); that inserting the chunks one by one sorts them
(`InsertedChunk`, `InsertedRecursion`, `SortedIsPayload`); that merging them keeps
`Merged`, the invariant of the loop as a predicate on the chunks so far
(`MergedAtStart`, `MergedStep`, `MergedAtEnd`), which the proof of the loop shares; and what a
direction amounts to (`ReassembledDirection`): its bytes, ascending, and a gap exactly
where there is a hole. For the rules: which findings a session gets (`FindingOfRule`),
the range of a score (`ScoreRange`), the headline (`HeadlineIsWorst`), the fields of a
session (`FieldsOfSession`), and what is
extracted where one message has certificates (`DersOfOneSender`).

**Only model-checked.** The liveness properties `EveryUploadAnswered` and `EveryRunEnds`
(liveness under fairness is out of the prover's reach, as is `ENABLED`), and
`LabelsAsIntended`, which is about given training profiles and which TLC evaluates.
`HighestRiskFirst`, which `report_order` finds violated, has no theorem: no condition on
the traffic makes the order right but sessions of one score.

## 5. Not modelled

- *Server name, key share group and handshake duration*: no rule reads them. The
  fallback that looks for a server name in raw payload is a byte parser.
- *What the ML models learn*: numerical; only the data set is kept.
- *Pages of the Streamlit dashboard*: presentation. Their order of sessions is in
  `AnalysisRun`, the exporters behind the downloads in `CommandLine`. A browser that
  runs into its timeout while the PDF download is prepared ends the page with an
  exception its handler does not name; no state is left behind.
- *PDF, HTML and JSON layout*: presentation.
- *The registry of cipher suites*: a table; its classification is in `HandshakeParser`.
- *Test captures* (`scripts/generate_test_pcaps.py`): they make fixtures.

## 6. Plan

Done, in this order, the most important inference first: direction reassembly
with its abstract specification and proofs; discovery and its proofs; the
capture of a connection; the STARTTLS detector and dialogues; the session rules
and the analysis; the service; the handshake parser and certificates; the proofs
of the service; the life of the ML models and the dashboard's cache with their
proofs; the features; the exports and the command line with their proofs; the
selections, sorts and folds as functions with their lemmas, and on them the proofs
of the capture, the dialogues and the analysis; peers free in their wording, the
notes of a session, the exact account of losses, and the service as a store of
reports, with their proofs.

Next, in this order:

1. An abstract session report, one record per mail stream with the findings of its
   facts, that `AnalysisRun` implements, and the proof that it does.
2. `Dashboard` with the cache lock as Streamlit keeps it when an entry is cleared
   under its holder, and three users.

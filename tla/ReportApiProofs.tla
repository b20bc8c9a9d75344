---------------------------- MODULE ReportApiProofs ----------------------------
(***************************************************************************)
(* Proofs about ReportApi, for any set of uploads and any number of        *)
(* crashes.                                                                *)
(***************************************************************************)
EXTENDS ReportApi, TLAPS

(* What every step has to establish beside the state of the handlers: a    *)
(* step that is not a GET leaves no reply to be judged.                    *)
LEMMA NothingServed ==
    ASSUME reply' = NoReply
    PROVE  OwnReport' /\ OnlyCompletedServed' /\ FoundUntilCrash'
BY DEF OwnReport, OnlyCompletedServed, FoundUntilCrash

LEMMA InitInv == Init => IInv
<1> SUFFICES ASSUME Init PROVE IInv
  OBVIOUS
<1>1. TypeOK
  BY ApiAssumption DEF Init, TypeOK, Stages, Formats
<1>2. HandlerInv
  BY ApiAssumption DEF Init, HandlerInv, Busy, Formats
<1>3. StoreInv
  <2>1. \A u \in Uploads : answer[u] = 0 /\ u \notin store \cup lost
    BY DEF Init
  <2>2. 0 # 200
    OBVIOUS
  <2> QED
    BY <2>1, <2>2, Zenon DEF StoreInv
<1>4. OwnReport /\ OnlyCompletedServed /\ FoundUntilCrash
  BY DEF Init, OwnReport, OnlyCompletedServed, FoundUntilCrash
<1> QED
  BY <1>1, <1>2, <1>3, <1>4 DEF IInv

-----------------------------------------------------------------------------
(* Each step of a handler keeps the types, what the handlers rely on and   *)
(* what the store says of the files.                                       *)
LEMMA RejectSuffixStep ==
    ASSUME IInv, NEW u \in Uploads, RejectSuffix(u)
    PROVE  IInv'
<1> USE ApiAssumption DEF IInv, RejectSuffix, LoopFree, Finish, GoTo
<1>1. TypeOK'
  <2>1. TypeOK /\ HandlerInv
    OBVIOUS
  <2>2. up' \in BOOLEAN /\ crashes' \in 0..MaxCrashes /\ store' \subseteq Uploads
        /\ lost' \subseteq Uploads /\ reply' \in Replies \cup {NoReply}
    BY <2>1 DEF TypeOK
  <2>3. stage' \in [Uploads -> Stages] /\ answer' \in [Uploads -> {0, 200, 400, 422, 500}]
    BY <2>1, ZenonT(40) DEF TypeOK, Stages
  <2>4. capture' \in [Uploads -> Uploads \cup {NoUpload}]
        /\ sessions' \in [Uploads -> Uploads \cup {NoUpload}]
    BY <2>1 DEF TypeOK
  <2>5. files' \in [Uploads -> [Formats -> Uploads \cup {NoFile, Partial}]]
    BY <2>1 DEF TypeOK, HandlerInv, Formats, Busy
  <2>6. running' \in Uploads \cup {NoUpload}
        /\ (running' # NoUpload => up' /\ stage'[running'] \notin {"new", "answered"})
    BY <2>1 DEF TypeOK, HandlerInv, Busy
  <2> QED
    BY <2>2, <2>3, <2>4, <2>5, <2>6 DEF TypeOK
<1>2. HandlerInv'
  BY DEF TypeOK, HandlerInv, Busy, Formats
<1>3. StoreInv'
  BY DEF TypeOK, HandlerInv, StoreInv, Busy, Formats
<1> QED
  BY <1>1, <1>2, <1>3, NothingServed

LEMMA ReceiveStep ==
    ASSUME IInv, NEW u \in Uploads, Receive(u)
    PROVE  IInv'
<1> USE ApiAssumption DEF IInv, Receive, LoopFree, GoTo
<1>1. TypeOK'
  <2>1. TypeOK /\ HandlerInv
    OBVIOUS
  <2>2. up' \in BOOLEAN /\ crashes' \in 0..MaxCrashes /\ store' \subseteq Uploads
        /\ lost' \subseteq Uploads /\ reply' \in Replies \cup {NoReply}
    BY <2>1 DEF TypeOK
  <2>3. stage' \in [Uploads -> Stages] /\ answer' \in [Uploads -> {0, 200, 400, 422, 500}]
    BY <2>1, ZenonT(40) DEF TypeOK, Stages
  <2>4. capture' \in [Uploads -> Uploads \cup {NoUpload}]
        /\ sessions' \in [Uploads -> Uploads \cup {NoUpload}]
    BY <2>1 DEF TypeOK
  <2>5. files' \in [Uploads -> [Formats -> Uploads \cup {NoFile, Partial}]]
    BY <2>1 DEF TypeOK, HandlerInv, Formats, Busy
  <2>6. running' \in Uploads \cup {NoUpload}
        /\ (running' # NoUpload => up' /\ stage'[running'] \notin {"new", "answered"})
    BY <2>1 DEF TypeOK, HandlerInv, Busy
  <2> QED
    BY <2>2, <2>3, <2>4, <2>5, <2>6 DEF TypeOK
<1>2. HandlerInv'
  BY DEF TypeOK, HandlerInv, Busy, Formats
<1>3. StoreInv'
  BY DEF TypeOK, HandlerInv, StoreInv, Busy, Formats
<1> QED
  BY <1>1, <1>2, <1>3, NothingServed

LEMMA WriteCaptureStep ==
    ASSUME IInv, NEW u \in Uploads, WriteCapture(u)
    PROVE  IInv'
<1> USE ApiAssumption DEF IInv, WriteCapture, LoopFree, GoTo, WorkdirOf
<1>1. TypeOK'
  <2>1. TypeOK /\ HandlerInv
    OBVIOUS
  <2>2. up' \in BOOLEAN /\ crashes' \in 0..MaxCrashes /\ store' \subseteq Uploads
        /\ lost' \subseteq Uploads /\ reply' \in Replies \cup {NoReply}
    BY <2>1 DEF TypeOK
  <2>3. stage' \in [Uploads -> Stages] /\ answer' \in [Uploads -> {0, 200, 400, 422, 500}]
    BY <2>1, ZenonT(40) DEF TypeOK, Stages
  <2>4. capture' \in [Uploads -> Uploads \cup {NoUpload}]
        /\ sessions' \in [Uploads -> Uploads \cup {NoUpload}]
    BY <2>1 DEF TypeOK
  <2>5. files' \in [Uploads -> [Formats -> Uploads \cup {NoFile, Partial}]]
    BY <2>1 DEF TypeOK, HandlerInv, Formats, Busy
  <2>6. running' \in Uploads \cup {NoUpload}
        /\ (running' # NoUpload => up' /\ stage'[running'] \notin {"new", "answered"})
    BY <2>1 DEF TypeOK, HandlerInv, Busy
  <2> QED
    BY <2>2, <2>3, <2>4, <2>5, <2>6 DEF TypeOK
<1>2. HandlerInv'
  BY DEF TypeOK, HandlerInv, Busy, Formats
<1>3. StoreInv'
  BY DEF TypeOK, HandlerInv, StoreInv, Busy, Formats
<1> QED
  BY <1>1, <1>2, <1>3, NothingServed

LEMMA ReadFailsStep ==
    ASSUME IInv, NEW u \in Uploads, ReadFails(u)
    PROVE  IInv'
<1> USE ApiAssumption DEF IInv, ReadFails, LoopFree, Finish, GoTo
<1>1. TypeOK'
  <2>1. TypeOK /\ HandlerInv
    OBVIOUS
  <2>2. up' \in BOOLEAN /\ crashes' \in 0..MaxCrashes /\ store' \subseteq Uploads
        /\ lost' \subseteq Uploads /\ reply' \in Replies \cup {NoReply}
    BY <2>1 DEF TypeOK
  <2>3. stage' \in [Uploads -> Stages] /\ answer' \in [Uploads -> {0, 200, 400, 422, 500}]
    BY <2>1, ZenonT(40) DEF TypeOK, Stages
  <2>4. capture' \in [Uploads -> Uploads \cup {NoUpload}]
        /\ sessions' \in [Uploads -> Uploads \cup {NoUpload}]
    BY <2>1 DEF TypeOK
  <2>5. files' \in [Uploads -> [Formats -> Uploads \cup {NoFile, Partial}]]
    BY <2>1 DEF TypeOK, HandlerInv, Formats, Busy
  <2>6. running' \in Uploads \cup {NoUpload}
        /\ (running' # NoUpload => up' /\ stage'[running'] \notin {"new", "answered"})
    BY <2>1 DEF TypeOK, HandlerInv, Busy
  <2> QED
    BY <2>2, <2>3, <2>4, <2>5, <2>6 DEF TypeOK
<1>2. HandlerInv'
  BY DEF TypeOK, HandlerInv, Busy, Formats
<1>3. StoreInv'
  BY DEF TypeOK, HandlerInv, StoreInv, Busy, Formats
<1> QED
  BY <1>1, <1>2, <1>3, NothingServed

LEMMA AnalyseStep ==
    ASSUME IInv, NEW u \in Uploads, Analyse(u)
    PROVE  IInv'
<1> USE ApiAssumption DEF IInv, Analyse, Holds, GoTo, WorkdirOf
<1>1. TypeOK'
  <2>1. TypeOK /\ HandlerInv
    OBVIOUS
  <2>2. up' \in BOOLEAN /\ crashes' \in 0..MaxCrashes /\ store' \subseteq Uploads
        /\ lost' \subseteq Uploads /\ reply' \in Replies \cup {NoReply}
    BY <2>1 DEF TypeOK
  <2>3. stage' \in [Uploads -> Stages] /\ answer' \in [Uploads -> {0, 200, 400, 422, 500}]
    BY <2>1, ZenonT(40) DEF TypeOK, Stages
  <2>4. capture' \in [Uploads -> Uploads \cup {NoUpload}]
        /\ sessions' \in [Uploads -> Uploads \cup {NoUpload}]
    BY <2>1 DEF TypeOK
  <2>5. files' \in [Uploads -> [Formats -> Uploads \cup {NoFile, Partial}]]
    BY <2>1 DEF TypeOK, HandlerInv, Formats, Busy
  <2>6. running' \in Uploads \cup {NoUpload}
        /\ (running' # NoUpload => up' /\ stage'[running'] \notin {"new", "answered"})
    BY <2>1 DEF TypeOK, HandlerInv, Busy
  <2> QED
    BY <2>2, <2>3, <2>4, <2>5, <2>6 DEF TypeOK
<1>2. HandlerInv'
  BY DEF TypeOK, HandlerInv, Busy, Formats
<1>3. StoreInv'
  BY DEF TypeOK, HandlerInv, StoreInv, Busy, Formats
<1> QED
  BY <1>1, <1>2, <1>3, NothingServed

LEMMA WriteJsonStep ==
    ASSUME IInv, NEW u \in Uploads, WriteJson(u)
    PROVE  IInv'
<1> USE ApiAssumption DEF IInv, WriteJson, Holds, GoTo, Write, WorkdirOf
<1>1. TypeOK'
  <2>1. TypeOK /\ HandlerInv
    OBVIOUS
  <2>2. up' \in BOOLEAN /\ crashes' \in 0..MaxCrashes /\ store' \subseteq Uploads
        /\ lost' \subseteq Uploads /\ reply' \in Replies \cup {NoReply}
    BY <2>1 DEF TypeOK
  <2>3. stage' \in [Uploads -> Stages] /\ answer' \in [Uploads -> {0, 200, 400, 422, 500}]
    BY <2>1, ZenonT(40) DEF TypeOK, Stages
  <2>4. capture' \in [Uploads -> Uploads \cup {NoUpload}]
        /\ sessions' \in [Uploads -> Uploads \cup {NoUpload}]
    BY <2>1 DEF TypeOK
  <2>5. files' \in [Uploads -> [Formats -> Uploads \cup {NoFile, Partial}]]
    BY <2>1 DEF TypeOK, HandlerInv, Formats, Busy
  <2>6. running' \in Uploads \cup {NoUpload}
        /\ (running' # NoUpload => up' /\ stage'[running'] \notin {"new", "answered"})
    BY <2>1 DEF TypeOK, HandlerInv, Busy
  <2> QED
    BY <2>2, <2>3, <2>4, <2>5, <2>6 DEF TypeOK
<1>2. HandlerInv'
  BY DEF TypeOK, HandlerInv, Busy, Formats
<1>3. StoreInv'
  BY DEF TypeOK, HandlerInv, StoreInv, Busy, Formats
<1> QED
  BY <1>1, <1>2, <1>3, NothingServed

LEMMA WriteHtmlStep ==
    ASSUME IInv, NEW u \in Uploads, WriteHtml(u)
    PROVE  IInv'
<1> USE ApiAssumption DEF IInv, WriteHtml, Holds, GoTo, Write, WorkdirOf
<1>1. TypeOK'
  <2>1. TypeOK /\ HandlerInv
    OBVIOUS
  <2>2. up' \in BOOLEAN /\ crashes' \in 0..MaxCrashes /\ store' \subseteq Uploads
        /\ lost' \subseteq Uploads /\ reply' \in Replies \cup {NoReply}
    BY <2>1 DEF TypeOK
  <2>3. stage' \in [Uploads -> Stages] /\ answer' \in [Uploads -> {0, 200, 400, 422, 500}]
    BY <2>1, ZenonT(40) DEF TypeOK, Stages
  <2>4. capture' \in [Uploads -> Uploads \cup {NoUpload}]
        /\ sessions' \in [Uploads -> Uploads \cup {NoUpload}]
    BY <2>1 DEF TypeOK
  <2>5. files' \in [Uploads -> [Formats -> Uploads \cup {NoFile, Partial}]]
    BY <2>1 DEF TypeOK, HandlerInv, Formats, Busy
  <2>6. running' \in Uploads \cup {NoUpload}
        /\ (running' # NoUpload => up' /\ stage'[running'] \notin {"new", "answered"})
    BY <2>1 DEF TypeOK, HandlerInv, Busy
  <2> QED
    BY <2>2, <2>3, <2>4, <2>5, <2>6 DEF TypeOK
<1>2. HandlerInv'
  BY DEF TypeOK, HandlerInv, Busy, Formats
<1>3. StoreInv'
  BY DEF TypeOK, HandlerInv, StoreInv, Busy, Formats
<1> QED
  BY <1>1, <1>2, <1>3, NothingServed

LEMMA WritePdfStep ==
    ASSUME IInv, NEW u \in Uploads, WritePdf(u)
    PROVE  IInv'
<1> USE ApiAssumption DEF IInv, WritePdf, Holds, GoTo, Write, WorkdirOf
<1>1. TypeOK'
  <2>1. TypeOK /\ HandlerInv
    OBVIOUS
  <2>2. up' \in BOOLEAN /\ crashes' \in 0..MaxCrashes /\ store' \subseteq Uploads
        /\ lost' \subseteq Uploads /\ reply' \in Replies \cup {NoReply}
    BY <2>1 DEF TypeOK
  <2>3. stage' \in [Uploads -> Stages] /\ answer' \in [Uploads -> {0, 200, 400, 422, 500}]
    BY <2>1, ZenonT(40) DEF TypeOK, Stages
  <2>4. capture' \in [Uploads -> Uploads \cup {NoUpload}]
        /\ sessions' \in [Uploads -> Uploads \cup {NoUpload}]
    BY <2>1 DEF TypeOK
  <2>5. files' \in [Uploads -> [Formats -> Uploads \cup {NoFile, Partial}]]
    BY <2>1 DEF TypeOK, HandlerInv, Formats, Busy
  <2>6. running' \in Uploads \cup {NoUpload}
        /\ (running' # NoUpload => up' /\ stage'[running'] \notin {"new", "answered"})
    BY <2>1 DEF TypeOK, HandlerInv, Busy
  <2> QED
    BY <2>2, <2>3, <2>4, <2>5, <2>6 DEF TypeOK
<1>2. HandlerInv'
  BY DEF TypeOK, HandlerInv, Busy, Formats
<1>3. StoreInv'
  BY DEF TypeOK, HandlerInv, StoreInv, Busy, Formats
<1> QED
  BY <1>1, <1>2, <1>3, NothingServed

LEMMA FailStep ==
    ASSUME IInv, NEW u \in Uploads, Fail(u)
    PROVE  IInv'
<1> USE ApiAssumption DEF IInv, Fail, Holds, Finish, GoTo, Write, WorkdirOf
<1>1. TypeOK'
  <2>1. TypeOK /\ HandlerInv
    OBVIOUS
  <2>2. up' \in BOOLEAN /\ crashes' \in 0..MaxCrashes /\ store' \subseteq Uploads
        /\ lost' \subseteq Uploads /\ reply' \in Replies \cup {NoReply}
    BY <2>1 DEF TypeOK
  <2>3. stage' \in [Uploads -> Stages] /\ answer' \in [Uploads -> {0, 200, 400, 422, 500}]
    BY <2>1, ZenonT(40) DEF TypeOK, Stages
  <2>4. capture' \in [Uploads -> Uploads \cup {NoUpload}]
        /\ sessions' \in [Uploads -> Uploads \cup {NoUpload}]
    BY <2>1 DEF TypeOK
  <2>5. files' \in [Uploads -> [Formats -> Uploads \cup {NoFile, Partial}]]
    BY <2>1 DEF TypeOK, HandlerInv, Formats, Busy
  <2>6. running' \in Uploads \cup {NoUpload}
        /\ (running' # NoUpload => up' /\ stage'[running'] \notin {"new", "answered"})
    BY <2>1 DEF TypeOK, HandlerInv, Busy
  <2> QED
    BY <2>2, <2>3, <2>4, <2>5, <2>6 DEF TypeOK
<1>2. HandlerInv'
  BY DEF TypeOK, HandlerInv, Busy, Formats
<1>3. StoreInv'
  BY DEF TypeOK, HandlerInv, StoreInv, Busy, Formats
<1> QED
  BY <1>1, <1>2, <1>3, NothingServed

LEMMA StoreStep ==
    ASSUME IInv, NEW u \in Uploads, Store(u)
    PROVE  IInv'
<1> USE ApiAssumption DEF IInv, Store, Holds, Finish, GoTo
<1>1. TypeOK'
  <2>1. TypeOK /\ HandlerInv
    OBVIOUS
  <2>2. up' \in BOOLEAN /\ crashes' \in 0..MaxCrashes /\ store' \subseteq Uploads
        /\ lost' \subseteq Uploads /\ reply' \in Replies \cup {NoReply}
    BY <2>1 DEF TypeOK
  <2>3. stage' \in [Uploads -> Stages] /\ answer' \in [Uploads -> {0, 200, 400, 422, 500}]
    BY <2>1, ZenonT(40) DEF TypeOK, Stages
  <2>4. capture' \in [Uploads -> Uploads \cup {NoUpload}]
        /\ sessions' \in [Uploads -> Uploads \cup {NoUpload}]
    BY <2>1 DEF TypeOK
  <2>5. files' \in [Uploads -> [Formats -> Uploads \cup {NoFile, Partial}]]
    BY <2>1 DEF TypeOK, HandlerInv, Formats, Busy
  <2>6. running' \in Uploads \cup {NoUpload}
        /\ (running' # NoUpload => up' /\ stage'[running'] \notin {"new", "answered"})
    BY <2>1 DEF TypeOK, HandlerInv, Busy
  <2> QED
    BY <2>2, <2>3, <2>4, <2>5, <2>6 DEF TypeOK
<1>2. HandlerInv'
  BY DEF TypeOK, HandlerInv, Busy, Formats
<1>3. StoreInv'
  BY DEF TypeOK, HandlerInv, StoreInv, Busy, Formats
<1> QED
  BY <1>1, <1>2, <1>3, NothingServed

-----------------------------------------------------------------------------
(* The GETs change nothing but the reply, which is of the files the store  *)
(* stands for.                                                             *)
LEMMA ServedAsStored ==
    ASSUME IInv, NEW u \in Uploads, NEW f \in {"json", "html"}, u \in store
    PROVE  /\ answer[u] = 200
           /\ files[u][f] = u /\ files[u][f] \notin {NoFile, Partial}
BY ApiAssumption DEF IInv, StoreInv, HandlerInv, Formats

LEMMA GetSessionsStep ==
    ASSUME IInv, NEW u \in Uploads, GetSessions(u)
    PROVE  IInv'
<1> USE ApiAssumption DEF IInv, GetSessions, WorkdirOf
<1>1. CASE u \in store
  <2>1. reply' = Reply(u, "json", 200, u)
    BY <1>1, ServedAsStored DEF LoopFree
  <2>2. answer[u] = 200
    BY <1>1, ServedAsStored
  <2> QED
    BY <2>1, <2>2 DEF Reply, TypeOK, Replies, Formats, HandlerInv, StoreInv,
                      OwnReport, OnlyCompletedServed, FoundUntilCrash
<1>2. CASE u \notin store
  <2>1. reply' = Reply(u, "json", 404, NoFile)
    BY <1>2
  <2>2. answer[u] = 200 => u \in lost
    BY <1>2 DEF StoreInv
  <2> QED
    BY <2>1, <2>2 DEF Reply, TypeOK, Replies, Formats, HandlerInv, StoreInv,
                      OwnReport, OnlyCompletedServed, FoundUntilCrash
<1> QED
  BY <1>1, <1>2

LEMMA GetReportStep ==
    ASSUME IInv, NEW u \in Uploads, NEW f \in Formats \cup {"txt"}, GetReport(u, f)
    PROVE  IInv'
<1> USE ApiAssumption DEF IInv, GetReport, WorkdirOf
<1>1. CASE u \in store /\ f \in Formats /\ files[u][f] # NoFile
  <2>1. reply' = Reply(u, f, 200, files[u][f]) /\ answer[u] = 200
    BY <1>1 DEF StoreInv
  <2>2. files[u][f] = u \/ (f = "pdf" /\ files[u][f] = Partial)
    BY <1>1, ServedAsStored DEF HandlerInv, Formats
  <2>3. files[u][f] \in Uploads \cup {NoFile, Partial}
    BY <1>1 DEF TypeOK
  <2> QED
    BY <2>1, <2>2, <2>3 DEF Reply, TypeOK, Replies, HandlerInv, StoreInv,
                      OwnReport, OnlyCompletedServed, FoundUntilCrash
<1>2. CASE ~(u \in store /\ f \in Formats /\ files[u][f] # NoFile)
  <2>1. reply' = Reply(u, f, 404, NoFile)
    BY <1>2
  <2>2. answer[u] = 200 /\ f \in {"json", "html"} => u \in lost
    BY <1>2, ServedAsStored DEF StoreInv, Formats
  <2> QED
    BY <2>1, <2>2 DEF Reply, TypeOK, Replies, Formats, HandlerInv, StoreInv,
                      OwnReport, OnlyCompletedServed, FoundUntilCrash
<1> QED
  BY <1>1, <1>2

(* Counting up to a bound.                                                *)
LEMMA OneMore == ASSUME NEW m \in Nat, NEW n \in 0..m, n < m PROVE n + 1 \in 0..m
OBVIOUS

(* A crash cuts off whoever holds the loop and moves the store to what is  *)
(* lost.                                                                   *)
LEMMA CrashStep == IInv /\ Crash => IInv'
<1> SUFFICES ASSUME IInv, Crash PROVE IInv'
  OBVIOUS
<1> USE ApiAssumption DEF IInv, Crash
<1>1. TypeOK'
  <2>1. TypeOK
    OBVIOUS
  <2>2. stage' \in [Uploads -> Stages]
    <3>1. stage \in [Uploads -> Stages]
      BY <2>1 DEF TypeOK
    <3>2. "interrupted" \in Stages
      BY DEF Stages
    <3> QED
      BY <3>1, <3>2
  <2>3. crashes' \in 0..MaxCrashes
    <3>1. crashes \in 0..MaxCrashes /\ MaxCrashes \in Nat
      BY <2>1 DEF TypeOK
    <3>2. crashes < MaxCrashes /\ crashes' = crashes + 1
      OBVIOUS
    <3> QED
      BY <3>1, <3>2, OneMore
  <2>4. store' \subseteq Uploads /\ lost' \subseteq Uploads /\ up' \in BOOLEAN
        /\ reply' \in Replies \cup {NoReply}
    BY <2>1 DEF TypeOK
  <2>5. running' = NoUpload
    OBVIOUS
  <2> QED
    BY <2>1, <2>2, <2>3, <2>4, <2>5 DEF TypeOK
<1>2. HandlerInv'
  BY DEF TypeOK, HandlerInv, Busy
<1>3. StoreInv'
  BY DEF TypeOK, StoreInv
<1> QED
  BY <1>1, <1>2, <1>3, NothingServed

LEMMA RestartStep == IInv /\ Restart => IInv'
<1> SUFFICES ASSUME IInv, Restart PROVE IInv'
  OBVIOUS
<1> USE DEF IInv, Restart
<1>1. TypeOK'
  BY DEF TypeOK
<1>2. HandlerInv' /\ StoreInv'
  BY DEF TypeOK, HandlerInv, StoreInv, Busy
<1> QED
  BY <1>1, <1>2, NothingServed

-----------------------------------------------------------------------------
(* The handlers of any number of uploads, interleaved at their awaits and  *)
(* cut off by any number of crashes, keep the working directories, the     *)
(* store and the answers in step (all of dashboard/app.py).                *)
THEOREM Invariance == Spec => []IInv
<1>1. IInv /\ [Next]_vars => IInv'
  <2> SUFFICES ASSUME IInv, [Next]_vars PROVE IInv'
    OBVIOUS
  <2>1. ASSUME NEW u \in Uploads, RejectSuffix(u) \/ Receive(u) PROVE IInv'
    BY <2>1, RejectSuffixStep, ReceiveStep
  <2>2. ASSUME NEW u \in Uploads, Handle(u) PROVE IInv'
    BY <2>2, WriteCaptureStep, ReadFailsStep, AnalyseStep, WriteJsonStep,
       WriteHtmlStep, WritePdfStep, FailStep, StoreStep DEF Handle
  <2>3. ASSUME NEW u \in Uploads, GetSessions(u) PROVE IInv'
    BY <2>3, GetSessionsStep
  <2>4. ASSUME NEW u \in Uploads, NEW f \in Formats \cup {"txt"}, GetReport(u, f)
        PROVE IInv'
    BY <2>4, GetReportStep
  <2>5. CASE Crash
    BY <2>5, CrashStep
  <2>6. CASE Restart
    BY <2>6, RestartStep
  <2>7. CASE UNCHANGED vars
    BY <2>7 DEF vars, IInv, TypeOK, HandlerInv, StoreInv, OwnReport,
                OnlyCompletedServed, FoundUntilCrash
  <2> QED
    BY <2>1, <2>2, <2>3, <2>4, <2>5, <2>6, <2>7 DEF Next
<1> QED
  BY InitInv, <1>1, PTL DEF Spec

(* Whatever is served presents the capture that was uploaded for its id.   *)
THEOREM ServesOwn == Spec => []OwnReport
<1>1. IInv => OwnReport
  BY DEF IInv
<1> QED
  BY Invariance, <1>1, PTL

(* An upload that was not analysed to the end is never served.             *)
THEOREM ServesCompleted == Spec => []OnlyCompletedServed
<1>1. IInv => OnlyCompletedServed
  BY DEF IInv
<1> QED
  BY Invariance, <1>1, PTL

(* A completed report stays to be found until the process dies.            *)
THEOREM KeptUntilCrash == Spec => []FoundUntilCrash
<1>1. IInv => FoundUntilCrash
  BY DEF IInv
<1> QED
  BY Invariance, <1>1, PTL

-----------------------------------------------------------------------------
(* The steps, as the clients see them. A handler that is still at work is  *)
(* not in the store, so what it writes is not published.                   *)
LEMMA WritesAreHidden ==
    ASSUME IInv, NEW u \in Uploads, NEW f \in Formats, NEW content,
           stage[u] # "answered", store' = store,
           \/ UNCHANGED files
           \/ files' = [files EXCEPT ![u][f] = content]
    PROVE  Published' = Published
<1>1. \A v \in store : v # u
  <2> TAKE v \in store
  <2>1. v \in Uploads /\ answer[v] = 200
    BY DEF IInv, TypeOK, StoreInv
  <2>2. stage[v] = "answered"
    BY <2>1 DEF IInv, StoreInv
  <2> QED
    BY <2>2
<1>2. \A v \in store : files'[v] = files[v]
  <2>1. files \in [Uploads -> [Formats -> Uploads \cup {NoFile, Partial}]]
        /\ store \subseteq Uploads
    BY DEF IInv, TypeOK
  <2> QED
    BY <1>1, <2>1
<1> QED
  BY <1>2 DEF Published, WorkdirOf

LEMMA HandlerIsWork ==
    ASSUME IInv, NEW u \in Uploads,
           \/ RejectSuffix(u) \/ Receive(u) \/ WriteCapture(u) \/ ReadFails(u)
           \/ Analyse(u) \/ WriteJson(u) \/ WriteHtml(u) \/ WritePdf(u) \/ Fail(u)
    PROVE  Abstract!Work
<1> DEFINE Wrote(f, content) == files' = [files EXCEPT ![u][f] = content]
<1>1. /\ reply' = NoReply /\ store' = store /\ lost' = lost
      /\ stage[u] # "answered"
      /\ UNCHANGED files \/ \E f \in Formats : \E content : Wrote(f, content)
  <2> USE DEF LoopFree, Holds, GoTo, Write, WorkdirOf, Formats
  <2>1. CASE RejectSuffix(u) \/ Receive(u) \/ WriteCapture(u) \/ ReadFails(u) \/ Analyse(u)
    BY <2>1 DEF RejectSuffix, Receive, WriteCapture, ReadFails, Analyse
  <2>2. CASE WriteJson(u)
    BY <2>2 DEF WriteJson
  <2>3. CASE WriteHtml(u)
    BY <2>3 DEF WriteHtml
  <2>4. CASE WritePdf(u)
    BY <2>4 DEF WritePdf
  <2>5. CASE Fail(u)
    BY <2>5 DEF Fail
  <2> QED
    BY <2>1, <2>2, <2>3, <2>4, <2>5
<1>2. Published' = Published
  <2>1. CASE UNCHANGED files
    BY <1>1, <2>1 DEF Published, WorkdirOf
  <2>2. ASSUME NEW f \in Formats, NEW content, Wrote(f, content) PROVE Published' = Published
    BY <1>1, <2>2, WritesAreHidden
  <2> QED
    BY <1>1, <2>1, <2>2
<1> QED
  BY <1>1, <1>2 DEF Abstract!Work

(* The report that is stored is complete but for its PDF.                  *)
LEMMA StoreIsPublish ==
    ASSUME IInv, NEW u \in Uploads, Store(u)
    PROVE  Abstract!Publish(u)
<1>1. /\ store' = store \cup {u} /\ files' = files
      /\ reply' = NoReply /\ lost' = lost /\ stage[u] = "storing"
  BY DEF Store, Holds
<1>2. DOMAIN Published = store
  BY DEF Published
<1>3. u \notin store \cup lost
  <2>1. answer[u] # 200
    BY <1>1 DEF IInv, StoreInv
  <2> QED
    BY <2>1 DEF IInv, StoreInv
<1>4. files[u] = Abstract!Presenting(u, files[u]["pdf"])
      /\ files[u]["pdf"] \in {u, NoFile, Partial}
  <2>1. files[u] \in [Formats -> Uploads \cup {NoFile, Partial}]
    BY DEF IInv, TypeOK
  <2>2. files[u]["json"] = u /\ files[u]["html"] = u
    BY <1>1 DEF IInv, HandlerInv
  <2>3. files[u]["pdf"] \in {u, NoFile, Partial}
    BY DEF IInv, HandlerInv, Formats
  <2>4. \A f \in Formats : files[u][f] = IF f = "pdf" THEN files[u]["pdf"] ELSE u
    BY <2>2 DEF Formats
  <2> QED
    BY <2>1, <2>3, <2>4 DEF Abstract!Presenting, Abstract!Formats, Formats
<1>5. Published' = [v \in store \cup {u} |->
                       IF v = u THEN Abstract!Presenting(u, files[u]["pdf"]) ELSE Published[v]]
  BY <1>1, <1>4 DEF Published, WorkdirOf
<1> QED
  BY <1>1, <1>2, <1>3, <1>4, <1>5 DEF Abstract!Publish

(* Both GETs answer as the store does; the JSON report can always be read. *)
LEMMA GetIsAsk ==
    ASSUME IInv, NEW u \in Uploads, NEW f \in Formats \cup {"txt"},
           (GetSessions(u) /\ f = "json") \/ GetReport(u, f)
    PROVE  Abstract!Ask(u, f)
<1>1. /\ Published' = Published /\ lost' = lost
      /\ DOMAIN Published = store
      /\ \A v \in store : Published[v] = files[v]
  BY DEF GetSessions, GetReport, Published, WorkdirOf
<1>2. reply' = IF u \in store /\ f \in Formats /\ files[u][f] # NoFile
               THEN Reply(u, f, 200, files[u][f]) ELSE Reply(u, f, 404, NoFile)
  <2>1. CASE GetReport(u, f)
    BY <2>1 DEF GetReport, WorkdirOf
  <2>2. CASE GetSessions(u) /\ f = "json"
    <3>1. u \in store => files[u]["json"] = u /\ u \notin {NoFile, Partial}
      BY ServedAsStored
    <3>2. reply' = IF u \in store THEN Reply(u, "json", 200, files[u]["json"])
                   ELSE Reply(u, "json", 404, NoFile)
      BY <2>2, <3>1 DEF GetSessions, WorkdirOf
    <3> QED
      BY <2>2, <3>1, <3>2 DEF Formats
  <2> QED
    BY <2>1, <2>2
<1>3. \A status, content : Reply(u, f, status, content) = Abstract!Answer(u, f, status, content)
  BY DEF Reply, Abstract!Answer
<1>4. Formats = Abstract!Formats
  BY DEF Formats, Abstract!Formats
<1> QED
  BY <1>1, <1>2, <1>3, <1>4 DEF Abstract!Ask

(* To its clients the service is the store of finished reports, through    *)
(* any interleaving, failure and crash (ImplementsStore).                  *)
THEOREM StoreRefinement == Spec => ImplementsStore
<1>1. Init => Abstract!Init
  BY DEF Init, Abstract!Init, Abstract!Nothing, Published
<1>2. IInv /\ [Next]_vars => [Abstract!Next]_Abstract!vars
  <2> SUFFICES ASSUME IInv, [Next]_vars PROVE [Abstract!Next]_Abstract!vars
    OBVIOUS
  <2>1. ASSUME NEW u \in Uploads, RejectSuffix(u) \/ Receive(u) \/ Handle(u)
        PROVE  Abstract!Next
    <3>1. CASE Store(u)
      BY <3>1, StoreIsPublish DEF Abstract!Next
    <3>2. CASE ~Store(u)
      <4>1. Abstract!Work
        BY <2>1, <3>2, HandlerIsWork DEF Handle
      <4> QED
        BY <4>1 DEF Abstract!Next
    <3> QED
      BY <3>1, <3>2
  <2>2. ASSUME NEW u \in Uploads, GetSessions(u) PROVE Abstract!Next
    <3>1. "json" \in Formats \cup {"txt"} /\ Formats = Abstract!Formats
      BY DEF Formats, Abstract!Formats
    <3>2. Abstract!Ask(u, "json")
      BY <2>2, <3>1, GetIsAsk
    <3> QED
      BY <3>1, <3>2 DEF Abstract!Next
  <2>3. ASSUME NEW u \in Uploads, NEW f \in Formats \cup {"txt"}, GetReport(u, f)
        PROVE  Abstract!Next
    <3>1. Formats = Abstract!Formats
      BY DEF Formats, Abstract!Formats
    <3>2. Abstract!Ask(u, f)
      BY <2>3, GetIsAsk
    <3> QED
      BY <3>1, <3>2 DEF Abstract!Next
  <2>4. CASE Crash
    <3>1. /\ store' = {} /\ lost' = lost \cup store /\ reply' = NoReply
      BY <2>4 DEF Crash
    <3>2. DOMAIN Published = store /\ Published' = Abstract!Nothing
      BY <3>1 DEF Published, Abstract!Nothing
    <3> QED
      BY <3>1, <3>2 DEF Abstract!Next, Abstract!Lose
  <2>5. CASE Restart
    BY <2>5 DEF Restart, Published, WorkdirOf, Abstract!Next, Abstract!Work
  <2>6. CASE UNCHANGED vars
    BY <2>6 DEF vars, Published, WorkdirOf, Abstract!vars
  <2> QED
    BY <2>1, <2>2, <2>3, <2>4, <2>5, <2>6 DEF Next
<1> QED
  BY <1>1, <1>2, Invariance, PTL DEF Spec, ImplementsStore, Abstract!Spec
===============================================================================

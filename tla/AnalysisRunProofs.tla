--------------------------- MODULE AnalysisRunProofs ---------------------------
(***************************************************************************)
(* Proofs about AnalysisRun and CommandLine, for any captures, models and  *)
(* risk classes: the rules and the score as functions, then the analysis,  *)
(* then what the command line writes of it.                                *)
(***************************************************************************)
EXTENDS CommandLine, OperatorLemmas, FiniteSetTheorems

Phases == {"listing", "building", "assessing", "risk", "anomaly", "exporting", "done",
           "failed"}

Finding == [id : RuleIds \cup MlFindings, severity : Severities]

(* The facts of the session built from a stream.                           *)
FactsOf(s) == Session(s.implicit, s.starttls, WithChainStatus(Parse(s.messages)), s.complete)

SessionRecord ==
    [id : Nat, facts : {FactsOf(s) : s \in Streams}, findings : Seq(Finding),
     risk_score : 0..100, ml_risk_class : RiskClasses \cup {"none"}, anomalous : BOOLEAN]

RunTypes == /\ capture \in Seq(Streams)
            /\ phase \in Phases
            /\ k \in Nat \ {0}
            /\ sessions \in Seq(SessionRecord)
            /\ report \in Seq(SessionRecord) /\ dashboard \in Seq(SessionRecord)

Mail(n) == Identify(capture[n]) # "UNKNOWN"

(* The streams the loop of build_sessions_from_pcap has passed.            *)
Passed(n) == /\ phase \notin {"listing", "failed"}
             /\ phase = "building" => n < k

(* There is one session for each mail stream passed, in their order, with  *)
(* the facts of its stream.                                                *)
SessionsInv ==
    /\ phase = "listing" => sessions = <<>> /\ k = 1
    /\ phase = "building" => \A i \in DOMAIN sessions : sessions[i].id < k
    /\ \A i \in DOMAIN sessions :
           /\ sessions[i].id \in DOMAIN capture /\ Mail(sessions[i].id)
           /\ sessions[i].facts = FactsOf(capture[sessions[i].id])
    /\ \A i, j \in DOMAIN sessions : i < j => sessions[i].id < sessions[j].id
    /\ \A n \in DOMAIN capture : Mail(n) /\ Passed(n) =>
           \E i \in DOMAIN sessions : sessions[i].id = n

(* The findings of a session are those of the rules, and what the models   *)
(* appended; its score is that of the rules.                               *)
Grown(s) ==
    /\ Len(Findings(s.facts)) <= Len(s.findings)
    /\ \A n \in 1..Len(Findings(s.facts)) : s.findings[n] = Findings(s.facts)[n]
    /\ \A n \in (Len(Findings(s.facts)) + 1)..Len(s.findings) :
           s.findings[n] \in {RiskFinding, AnomalyFinding}
    /\ s.risk_score = Score(Findings(s.facts))

AssessedInv ==
    \A i \in DOMAIN sessions : Assessed(i) /\ phase # "failed" => Grown(sessions[i])

ShownInv == phase = "done" => report \in Arrangements /\ dashboard \in Arrangements

RunInv == RunTypes /\ SessionsInv /\ AssessedInv /\ ShownInv

(***************************************************************************)
(* The invariant is inductive.                                             *)
(***************************************************************************)
LEMMA RunInit == Init => RunInv
<1> SUFFICES ASSUME Init PROVE RunInv
  OBVIOUS
<1>1. capture \in Seq(Streams)
  <2>1. PICK n \in 0..MaxStreams : capture \in [1..n -> Streams]
    BY DEF Init
  <2>2. n \in Nat
    BY RunAssumption
  <2> QED
    BY <2>1, <2>2, SequenceOf
<1>2. RunTypes
  BY <1>1 DEF Init, RunTypes, Phases
<1>3. SessionsInv
  BY DEF Init, SessionsInv, Passed
<1> QED
  BY <1>2, <1>3 DEF Init, RunInv, AssessedInv, ShownInv

(* A new session has the type of one.                                      *)
LEMMA NewSessionType ==
    ASSUME NEW n \in Nat, NEW s \in Streams
    PROVE  /\ NewSession(n, s) \in SessionRecord
           /\ NewSession(n, s).id = n /\ NewSession(n, s).facts = FactsOf(s)
<1>1. FactsOf(s) \in {FactsOf(t) : t \in Streams}
  OBVIOUS
<1>2. /\ NewSession(n, s) = [id |-> n, facts |-> FactsOf(s), findings |-> <<>>, risk_score |-> 0,
                             ml_risk_class |-> "none", anomalous |-> FALSE]
  BY DEF NewSession, FactsOf
<1>3. <<>> \in Seq(Finding) /\ 0 \in 0..100
  OBVIOUS
<1> QED
  BY <1>1, <1>2, <1>3 DEF SessionRecord

(* The steps that replace one session by another with its id and facts.    *)
SameSessions == /\ sessions' \in Seq(SessionRecord)
                /\ Len(sessions') = Len(sessions)
                /\ \A i \in DOMAIN sessions : /\ sessions'[i].id = sessions[i].id
                                             /\ sessions'[i].facts = sessions[i].facts

Analysed == phase \notin {"listing", "building"}

LEMMA SessionsStay ==
    ASSUME RunTypes, SessionsInv, SameSessions, capture' = capture, Analysed,
           phase # "failed", Analysed'
    PROVE  SessionsInv'
<1>1. DOMAIN sessions' = DOMAIN sessions
  BY DEF SameSessions, RunTypes
<1>2. \A n : Mail(n)' <=> Mail(n)
  BY DEF Mail
<1>3. \A n : Passed(n)
  BY DEF Passed, Analysed
<1> QED
  BY <1>1, <1>2, <1>3 DEF SessionsInv, SameSessions, Analysed

LEMMA RunStutters == RunInv /\ UNCHANGED vars => RunInv'
BY DEF RunInv, RunTypes, SessionsInv, AssessedInv, ShownInv, vars, given, shown, Mail, Passed,
       Assessed, Arrangements

LEMMA ReassembleKeeps == RunInv /\ Reassemble => RunInv'
<1> SUFFICES ASSUME RunInv, Reassemble PROVE RunInv'
  OBVIOUS
<1>1. RunTypes'
  BY DEF RunInv, RunTypes, Phases, Reassemble, given, shown
<1>2. SessionsInv'
  BY DEF RunInv, RunTypes, SessionsInv, Reassemble, given, shown, Passed, Mail
<1>3. AssessedInv' /\ ShownInv'
  BY DEF AssessedInv, ShownInv, Assessed, Reassemble
<1> QED
  BY <1>1, <1>2, <1>3 DEF RunInv

LEMMA SkipUnknownKeeps == RunInv /\ SkipUnknown => RunInv'
<1> SUFFICES ASSUME RunInv, SkipUnknown PROVE RunInv'
  OBVIOUS
<1>1. RunTypes'
  BY DEF RunInv, RunTypes, Phases, SkipUnknown, Building, given, shown
<1>2. SessionsInv'
  <2>1. ~Mail(k) /\ k' = k + 1 /\ k \in Nat /\ phase = "building" /\ phase' = phase
        /\ sessions' = sessions /\ capture' = capture /\ capture \in Seq(Streams)
    BY DEF RunInv, RunTypes, SkipUnknown, Building, given, Mail
  <2>2. \A n \in DOMAIN capture : Mail(n)' /\ Passed(n)' => Mail(n) /\ Passed(n)
    BY <2>1 DEF Mail, Passed
  <2>3. \A n : Mail(n) => Mail(n)'
    BY <2>1 DEF Mail
  <2>4. \A i \in DOMAIN sessions : sessions[i].id \in DOMAIN capture
                                   /\ sessions[i].id < k
    BY <2>1 DEF RunInv, SessionsInv
  <2>5. \A i \in DOMAIN sessions : sessions'[i].id < k'
    BY <2>1, <2>4
  <2> QED
    BY <2>1, <2>2, <2>3, <2>5 DEF RunInv, SessionsInv
<1>3. AssessedInv' /\ ShownInv'
  BY DEF AssessedInv, ShownInv, Assessed, SkipUnknown, Building
<1> QED
  BY <1>1, <1>2, <1>3 DEF RunInv

LEMMA BuildSessionKeeps == RunInv /\ BuildSession => RunInv'
<1> SUFFICES ASSUME RunInv, BuildSession PROVE RunInv'
  OBVIOUS
<1> DEFINE new == NewSession(k, capture[k])
           L == Len(sessions)
<1>1. /\ Mail(k) /\ k \in DOMAIN capture /\ k' = k + 1 /\ k \in Nat
      /\ phase = "building" /\ phase' = phase
      /\ capture' = capture /\ capture \in Seq(Streams) /\ capture[k] \in Streams
      /\ report' = report /\ dashboard' = dashboard
  BY DEF RunInv, RunTypes, BuildSession, Building, given, shown, Mail
<1>2. /\ new \in SessionRecord /\ new.id = k /\ new.facts = FactsOf(capture[k])
  BY <1>1, NewSessionType
<1>3. /\ sessions' = Append(sessions, new) /\ sessions \in Seq(SessionRecord) /\ L \in Nat
  BY DEF RunInv, RunTypes, BuildSession
<1> HIDE DEF new
<1>4. /\ DOMAIN sessions = 1..L /\ DOMAIN sessions' = 1..(L + 1)
      /\ \A i \in DOMAIN sessions : i < L + 1 /\ i \in DOMAIN sessions' /\ sessions'[i] = sessions[i]
      /\ sessions'[L + 1] = new /\ L + 1 \in DOMAIN sessions'
      /\ \A i \in DOMAIN sessions' : i \in DOMAIN sessions \/ i = L + 1
      /\ sessions' \in Seq(SessionRecord)
  BY <1>2, <1>3
<1>5. RunTypes'
  BY <1>1, <1>4 DEF RunInv, RunTypes, Phases
<1>6. SessionsInv'
  <2>1. \A i \in DOMAIN sessions :
           /\ sessions[i].id \in DOMAIN capture /\ Mail(sessions[i].id) /\ sessions[i].id < k
           /\ sessions[i].facts = FactsOf(capture[sessions[i].id])
    BY <1>1 DEF RunInv, SessionsInv
  <2>2. \A i, j \in DOMAIN sessions' : i < j => sessions'[i].id < sessions'[j].id
    <3> SUFFICES ASSUME NEW i \in DOMAIN sessions', NEW j \in DOMAIN sessions', i < j
                 PROVE  sessions'[i].id < sessions'[j].id
      OBVIOUS
    <3>1. i \in DOMAIN sessions
      BY <1>3, <1>4
    <3>2. CASE j \in DOMAIN sessions
      BY <3>1, <3>2, <1>4 DEF RunInv, SessionsInv
    <3>3. CASE j = L + 1
      BY <3>1, <3>3, <1>2, <1>4, <2>1
    <3> QED
      BY <1>4, <3>2, <3>3
  <2>3. \A n : Mail(n)' <=> Mail(n)
    BY <1>1 DEF Mail
  <2>4. \A i \in DOMAIN sessions' :
           /\ sessions'[i].id \in DOMAIN capture /\ Mail(sessions'[i].id) /\ sessions'[i].id < k + 1
           /\ sessions'[i].facts = FactsOf(capture[sessions'[i].id])
    <3> SUFFICES ASSUME NEW i \in DOMAIN sessions'
                 PROVE /\ sessions'[i].id \in DOMAIN capture /\ Mail(sessions'[i].id)
                       /\ sessions'[i].id < k + 1
                       /\ sessions'[i].facts = FactsOf(capture[sessions'[i].id])
      OBVIOUS
    <3>1. CASE i \in DOMAIN sessions
      BY <3>1, <1>1, <1>4, <2>1
    <3>2. CASE i = L + 1
      BY <3>2, <1>1, <1>2, <1>4
    <3> QED
      BY <1>4, <3>1, <3>2
  <2>5. ASSUME NEW n \in DOMAIN capture, Mail(n), Passed(n)'
        PROVE  \E i \in DOMAIN sessions' : sessions'[i].id = n
    <3>1. n < k + 1
      BY <1>1, <2>5 DEF Passed
    <3>2. CASE n = k
      BY <3>2, <1>2, <1>4
    <3>3. CASE n < k
      BY <3>3, <1>1, <1>4, <2>5 DEF RunInv, SessionsInv, Passed
    <3> QED
      BY <3>1, <3>2, <3>3, <1>1
  <2> QED
    BY <1>1, <2>2, <2>3, <2>4, <2>5 DEF SessionsInv
<1>7. AssessedInv' /\ ShownInv'
  BY <1>1 DEF AssessedInv, ShownInv, Assessed
<1> QED
  BY <1>5, <1>6, <1>7 DEF RunInv

LEMMA ParserFailsKeeps == RunInv /\ ParserFails => RunInv'
<1> SUFFICES ASSUME RunInv, ParserFails PROVE RunInv'
  OBVIOUS
<1>1. RunTypes'
  BY DEF RunInv, RunTypes, Phases, ParserFails, given, shown
<1>2. SessionsInv'
  BY DEF RunInv, SessionsInv, ParserFails, given, Passed, Mail
<1>3. AssessedInv' /\ ShownInv'
  BY DEF AssessedInv, ShownInv, ParserFails
<1> QED
  BY <1>1, <1>2, <1>3 DEF RunInv

LEMMA StartAssessingKeeps == RunInv /\ StartAssessing => RunInv'
<1> SUFFICES ASSUME RunInv, StartAssessing PROVE RunInv'
  OBVIOUS
<1>1. RunTypes'
  BY DEF RunInv, RunTypes, Phases, StartAssessing, given, shown
<1>2. SessionsInv'
  <2>1. \A n \in DOMAIN capture : Passed(n)
    BY DEF RunInv, RunTypes, StartAssessing, Passed
  <2> QED
    BY <2>1 DEF RunInv, SessionsInv, StartAssessing, given, Mail
<1>3. AssessedInv' /\ ShownInv'
  BY DEF RunInv, RunTypes, AssessedInv, ShownInv, Assessed, StartAssessing
<1> QED
  BY <1>1, <1>2, <1>3 DEF RunInv

(* The rule findings of a session have the type of findings, and a score.  *)
LEMMA FindingsTyped ==
    ASSUME NEW s
    PROVE  Findings(s) \in Seq(Finding) /\ Score(Findings(s)) \in 0..100
<1>1. Findings(s) \in Seq(RuleFinding) /\ RuleFinding \subseteq Finding
  BY FindingsOfRules DEF RuleFinding, Finding
<1>2. \A f \in RuleFinding : f.severity \in Severities
  BY DEF RuleFinding
<1>3. Score(Findings(s)) \in 0..100
  BY <1>1, <1>2, ScoreRange
<1> QED
  BY <1>1, <1>3

LEMMA ModelFindings == RiskFinding \in Finding /\ AnomalyFinding \in Finding
BY DEF RiskFinding, AnomalyFinding, Finding, MlFindings, Severities

LEMMA AssessKeeps == RunInv /\ Assess => RunInv'
<1> SUFFICES ASSUME RunInv, Assess PROVE RunInv'
  OBVIOUS
<1> DEFINE found == Findings(sessions[k].facts)
           score == Score(found)
           judged == [sessions[k] EXCEPT !.findings = found, !.risk_score = score]
<1>1. /\ phase = "assessing" /\ phase' = phase /\ k \in DOMAIN sessions /\ k' = k + 1
      /\ k \in Nat \ {0} /\ sessions \in Seq(SessionRecord)
      /\ capture' = capture /\ report' = report /\ dashboard' = dashboard
      /\ sessions' = [sessions EXCEPT ![k].findings = found, ![k].risk_score = Score(found)]
  BY DEF RunInv, RunTypes, Assess, given, shown
<1>2. /\ found \in Seq(Finding) /\ Score(found) \in 0..100
      /\ sessions[k] \in SessionRecord
  BY <1>1, FindingsTyped
<1>3. /\ sessions' = [sessions EXCEPT ![k] = judged]
      /\ judged \in SessionRecord /\ judged.id = sessions[k].id
      /\ judged.facts = sessions[k].facts /\ judged.findings = found
      /\ judged.risk_score = Score(found)
  <2> HIDE DEF found, score
  <2>1. sessions' = [sessions EXCEPT ![k] = judged]
    <3>1. sessions' = [sessions EXCEPT ![k].findings = found, ![k].risk_score = score]
      BY <1>1 DEF score
    <3>2. sessions \in Seq(SessionRecord) /\ k \in DOMAIN sessions
      BY <1>1
    <3> QED
      BY <3>1, <3>2
  <2>2. /\ judged.id = sessions[k].id
        /\ judged.facts = sessions[k].facts /\ judged.findings = found
        /\ judged.risk_score = score
    BY <1>2 DEF SessionRecord
  <2>3. judged \in SessionRecord
    BY <1>2 DEF SessionRecord, score
  <2> QED
    BY <2>1, <2>2, <2>3 DEF score
<1>4. Grown(judged)
  BY <1>2, <1>3 DEF Grown
<1> HIDE DEF judged, found, score
<1>5. /\ SameSessions /\ sessions'[k] = judged
      /\ \A i \in DOMAIN sessions : i # k => sessions'[i] = sessions[i]
      /\ DOMAIN sessions' = DOMAIN sessions
  <2>1. sessions \in Seq(SessionRecord) /\ k \in DOMAIN sessions
    BY <1>1
  <2> QED
    BY <1>3, <2>1 DEF SameSessions
<1>6. RunTypes'
  BY <1>1, <1>5 DEF RunInv, RunTypes, SameSessions
<1>7. SessionsInv'
  BY <1>1, <1>5, SessionsStay DEF RunInv, Analysed
<1>8. AssessedInv'
  <2> SUFFICES ASSUME NEW i \in DOMAIN sessions, i < k + 1 PROVE Grown(sessions'[i])
    BY <1>1, <1>5 DEF AssessedInv, Assessed
  <2>1. CASE i = k
    BY <2>1, <1>4, <1>5
  <2>2. CASE i < k
    BY <2>2, <1>1, <1>5 DEF RunInv, AssessedInv, Assessed
  <2> QED
    BY <1>1, <2>1, <2>2
<1>9. ShownInv'
  BY <1>1 DEF ShownInv
<1> QED
  BY <1>6, <1>7, <1>8, <1>9 DEF RunInv

LEMMA StartRiskKeeps == RunInv /\ StartRisk => RunInv'
<1> SUFFICES ASSUME RunInv, StartRisk PROVE RunInv'
  OBVIOUS
<1>1. /\ phase = "assessing" /\ phase' \in {"failed", "risk"} /\ k > Len(sessions)
      /\ capture' = capture /\ sessions' = sessions /\ k' \in {1, k}
      /\ report' = report /\ dashboard' = dashboard
  BY DEF StartRisk, given, shown
<1>2. RunTypes'
  BY <1>1 DEF RunInv, RunTypes, Phases
<1>3. SessionsInv'
  BY <1>1 DEF RunInv, SessionsInv, Passed, Mail
<1>4. AssessedInv' /\ ShownInv'
  BY <1>1 DEF RunInv, RunTypes, AssessedInv, ShownInv, Assessed
<1> QED
  BY <1>2, <1>3, <1>4 DEF RunInv

(* A finding of a model at the end keeps the rule findings and the score.  *)
LEMMA GrownByModel ==
    ASSUME NEW s \in SessionRecord, NEW t \in SessionRecord, Grown(s),
           NEW f \in {RiskFinding, AnomalyFinding},
           t.findings = Append(s.findings, f), t.facts = s.facts, t.risk_score = s.risk_score
    PROVE  Grown(t)
<1> DEFINE R == Findings(s.facts)
           L == Len(s.findings)
<1>1. s.findings \in Seq(Finding) /\ R \in Seq(Finding) /\ L \in Nat /\ Len(R) \in Nat
  BY FindingsTyped DEF SessionRecord
<1>2. /\ Len(R) <= L
      /\ \A n \in 1..Len(R) : s.findings[n] = R[n]
      /\ \A n \in (Len(R) + 1)..L : s.findings[n] \in {RiskFinding, AnomalyFinding}
      /\ s.risk_score = Score(R)
  BY DEF Grown
<1>3. /\ Findings(t.facts) = R /\ Len(t.findings) = L + 1
      /\ \A n \in 1..L : t.findings[n] = s.findings[n]
      /\ t.findings[L + 1] = f
  BY <1>1, ModelFindings
<1> HIDE DEF R, L
<1>4. \A n \in 1..Len(R) : t.findings[n] = R[n]
  BY <1>1, <1>2, <1>3
<1>5. \A n \in (Len(R) + 1)..(L + 1) : t.findings[n] \in {RiskFinding, AnomalyFinding}
  <2> TAKE n \in (Len(R) + 1)..(L + 1)
  <2>1. CASE n = L + 1
    BY <2>1, <1>3
  <2>2. CASE n # L + 1
    BY <2>2, <1>1, <1>2, <1>3
  <2> QED
    BY <2>1, <2>2
<1> QED
  BY <1>1, <1>2, <1>3, <1>4, <1>5 DEF Grown

LEMMA ApplyRiskKeeps == RunInv /\ ApplyRisk => RunInv'
<1> SUFFICES ASSUME RunInv, ApplyRisk PROVE RunInv'
  OBVIOUS
<1>1. /\ phase = "risk" /\ phase' = phase /\ k \in DOMAIN sessions /\ k' = k + 1
      /\ k \in Nat \ {0} /\ sessions \in Seq(SessionRecord)
      /\ capture' = capture /\ report' = report /\ dashboard' = dashboard
  BY DEF RunInv, RunTypes, ApplyRisk, given, shown
<1>2. PICK class \in RiskClasses :
         sessions' = [sessions EXCEPT ![k].ml_risk_class = class,
                                      ![k].findings = Append(@, RiskFinding)]
  BY DEF ApplyRisk
<1> DEFINE judged == [sessions[k] EXCEPT !.ml_risk_class = class,
                                         !.findings = Append(@, RiskFinding)]
<1>3. sessions' = [sessions EXCEPT ![k] = judged]
  BY <1>1, <1>2
<1>4. sessions[k] \in SessionRecord
  BY <1>1
<1>5. /\ judged \in SessionRecord /\ judged.id = sessions[k].id
      /\ judged.facts = sessions[k].facts
      /\ judged.findings = Append(sessions[k].findings, RiskFinding)
      /\ judged.risk_score = sessions[k].risk_score
  <2>1. Append(sessions[k].findings, RiskFinding) \in Seq(Finding)
    BY <1>4, ModelFindings DEF SessionRecord
  <2> QED
    BY <1>2, <1>4, <2>1 DEF SessionRecord
<1>6. Grown(sessions[k])
  BY <1>1 DEF RunInv, AssessedInv, Assessed
<1>7. Grown(judged)
  BY <1>4, <1>5, <1>6, GrownByModel
<1> HIDE DEF judged
<1>8. /\ SameSessions /\ sessions'[k] = judged
      /\ \A i \in DOMAIN sessions : i # k => sessions'[i] = sessions[i]
      /\ DOMAIN sessions' = DOMAIN sessions
  BY <1>1, <1>3, <1>5 DEF SameSessions
<1>9. RunTypes'
  BY <1>1, <1>8 DEF RunInv, RunTypes, SameSessions
<1>10. SessionsInv'
  BY <1>1, <1>8, SessionsStay DEF RunInv, Analysed
<1>11. AssessedInv' /\ ShownInv'
  BY <1>1, <1>7, <1>8 DEF RunInv, AssessedInv, ShownInv, Assessed
<1> QED
  BY <1>9, <1>10, <1>11 DEF RunInv

LEMMA StartAnomalyKeeps == RunInv /\ StartAnomaly => RunInv'
<1> SUFFICES ASSUME RunInv, StartAnomaly PROVE RunInv'
  OBVIOUS
<1>1. /\ phase = "risk" /\ phase' \in {"failed", "anomaly"}
      /\ capture' = capture /\ sessions' = sessions /\ k' \in {1, k}
      /\ report' = report /\ dashboard' = dashboard
  BY DEF StartAnomaly, given, shown
<1>2. RunTypes'
  BY <1>1 DEF RunInv, RunTypes, Phases
<1>3. SessionsInv'
  BY <1>1 DEF RunInv, SessionsInv, Passed, Mail
<1>4. AssessedInv' /\ ShownInv'
  BY <1>1 DEF RunInv, RunTypes, AssessedInv, ShownInv, Assessed
<1> QED
  BY <1>2, <1>3, <1>4 DEF RunInv

LEMMA ApplyAnomalyKeeps == RunInv /\ ApplyAnomaly => RunInv'
<1> SUFFICES ASSUME RunInv, ApplyAnomaly PROVE RunInv'
  OBVIOUS
<1> DEFINE judged == Flagged(sessions[k])
<1>1. /\ phase = "anomaly" /\ phase' = phase /\ k \in DOMAIN sessions /\ k' = k + 1
      /\ k \in Nat \ {0} /\ sessions \in Seq(SessionRecord)
      /\ capture' = capture /\ report' = report /\ dashboard' = dashboard
      /\ sessions' \in {sessions, [sessions EXCEPT ![k] = judged]}
  BY DEF RunInv, RunTypes, ApplyAnomaly, given, shown
<1>2. sessions[k] \in SessionRecord
  BY <1>1
<1>3. /\ judged \in SessionRecord /\ judged.id = sessions[k].id
      /\ judged.facts = sessions[k].facts
      /\ judged.findings = Append(sessions[k].findings, AnomalyFinding)
      /\ judged.risk_score = sessions[k].risk_score
  <2>1. Append(sessions[k].findings, AnomalyFinding) \in Seq(Finding)
    BY <1>2, ModelFindings DEF SessionRecord
  <2> QED
    BY <1>2, <2>1 DEF SessionRecord, Flagged
<1>4. Grown(sessions[k])
  BY <1>1 DEF RunInv, AssessedInv, Assessed
<1>5. Grown(judged)
  BY <1>2, <1>3, <1>4, GrownByModel
<1> HIDE DEF judged
<1>6. /\ SameSessions /\ DOMAIN sessions' = DOMAIN sessions
      /\ \A i \in DOMAIN sessions : sessions'[i] = sessions[i] \/ (i = k /\ sessions'[i] = judged)
  BY <1>1, <1>3 DEF SameSessions
<1>7. RunTypes'
  BY <1>1, <1>6 DEF RunInv, RunTypes, SameSessions
<1>8. SessionsInv'
  BY <1>1, <1>6, SessionsStay DEF RunInv, Analysed
<1>9. AssessedInv' /\ ShownInv'
  BY <1>1, <1>5, <1>6 DEF RunInv, AssessedInv, ShownInv, Assessed
<1> QED
  BY <1>7, <1>8, <1>9 DEF RunInv

LEMMA ReturnKeeps == RunInv /\ Return => RunInv'
<1> SUFFICES ASSUME RunInv, Return PROVE RunInv'
  OBVIOUS
<1>1. RunTypes'
  BY DEF RunInv, RunTypes, Phases, Return, given, shown
<1>2. SessionsInv'
  BY DEF RunInv, SessionsInv, Return, given, Passed, Mail
<1>3. AssessedInv' /\ ShownInv'
  BY DEF RunInv, AssessedInv, ShownInv, Assessed, Return
<1> QED
  BY <1>1, <1>2, <1>3 DEF RunInv

(* What a sort may return is a list of sessions, each of them once.        *)
LEMMA ArrangementOfSessions ==
    ASSUME sessions \in Seq(SessionRecord), NEW list \in Arrangements
    PROVE  \E p \in Bijection(DOMAIN sessions, DOMAIN sessions) :
               /\ list \in Seq(SessionRecord) /\ DOMAIN list = DOMAIN sessions
               /\ \A n \in DOMAIN sessions :
                      p[n] \in DOMAIN sessions /\ list[n] = sessions[p[n]]
               /\ \A m, n \in DOMAIN sessions : p[m] = p[n] => m = n
               /\ \A m \in DOMAIN sessions : \E n \in DOMAIN sessions : p[n] = m
<1>1. PICK p \in Bijection(DOMAIN sessions, DOMAIN sessions) :
         list = [n \in DOMAIN sessions |-> sessions[p[n]]]
  BY DEF Arrangements
<1>2. /\ \A n \in DOMAIN sessions : p[n] \in DOMAIN sessions
      /\ \A m, n \in DOMAIN sessions : p[m] = p[n] => m = n
      /\ \A m \in DOMAIN sessions : \E n \in DOMAIN sessions : p[n] = m
  BY DEF Bijection, Injection, Surjection, IsInjective
<1>3. DOMAIN sessions = 1..Len(sessions) /\ Len(sessions) \in Nat
  OBVIOUS
<1>4. list \in [1..Len(sessions) -> SessionRecord]
  BY <1>1, <1>2, <1>3
<1>5. list \in Seq(SessionRecord)
  BY <1>3, <1>4, SequenceOf
<1> QED
  BY <1>1, <1>2, <1>5

LEMMA ExportKeeps == RunInv /\ Export => RunInv'
<1> SUFFICES ASSUME RunInv, Export PROVE RunInv'
  OBVIOUS
<1>1. /\ phase = "exporting" /\ phase' = "done"
      /\ report' \in Arrangements /\ dashboard' \in Arrangements
      /\ capture' = capture /\ k' = k /\ sessions' = sessions
  BY DEF Export, given
<1>2. sessions \in Seq(SessionRecord)
  BY DEF RunInv, RunTypes
<1>3. report' \in Seq(SessionRecord) /\ dashboard' \in Seq(SessionRecord)
  BY <1>1, <1>2, ArrangementOfSessions
<1>4. RunTypes'
  BY <1>1, <1>3 DEF RunInv, RunTypes, Phases
<1>5. SessionsInv'
  BY <1>1 DEF RunInv, SessionsInv, Passed, Mail
<1>6. AssessedInv' /\ ShownInv'
  BY <1>1 DEF RunInv, AssessedInv, ShownInv, Assessed, Arrangements
<1> QED
  BY <1>4, <1>5, <1>6 DEF RunInv

LEMMA RunStep == RunInv /\ [Next]_vars => RunInv'
BY ReassembleKeeps, SkipUnknownKeeps, BuildSessionKeeps, ParserFailsKeeps,
   StartAssessingKeeps, AssessKeeps, StartRiskKeeps, ApplyRiskKeeps, StartAnomalyKeeps,
   ApplyAnomalyKeeps, ReturnKeeps, ExportKeeps, RunStutters DEF Next

(* The analysis keeps the types of its state and the invariant of its      *)
(* loops, whatever the capture and the models (pipeline.analyze).          *)
THEOREM AnalysisInvariant == Spec => []RunInv
<1>1. Init => RunInv
  BY RunInit
<1>2. RunInv /\ [Next]_vars => RunInv'
  BY RunStep
<1> QED
  BY <1>1, <1>2, PTL DEF Spec

(* The command line runs an analysis as it is: what is shown of Spec holds *)
(* of every run of the command line.                                       *)
THEOREM CommandLineAnalyses == CliSpec => Spec
<1>1. CliInit => Init
  BY DEF CliInit
<1>2. [CliNext]_cliVars => [Next]_vars
  <2>1. CASE UNCHANGED cliVars
    BY <2>1 DEF cliVars
  <2>2. CASE CliNext
    BY <2>2 DEF CliNext, Analysis, AnalysisFails, StartWriting, WriteText, WeasyPrint,
                Browser, Exit, Written, Raise
  <2> QED
    BY <2>1, <2>2
<1> QED
  BY <1>1, <1>2, PTL DEF CliSpec, Spec

-----------------------------------------------------------------------------
(* Once the analysis has got so far, a session that was assessed is grown. *)
LEMMA AssessedIsGrown ==
    ASSUME RunInv, NEW i \in DOMAIN sessions, Assessed(i), phase # "failed"
    PROVE  sessions[i] \in SessionRecord /\ Grown(sessions[i])
BY DEF RunInv, RunTypes, AssessedInv

(* The findings that are of no model are those of the rules.               *)
LEMMA RuleFindingsOfGrown ==
    ASSUME NEW s \in SessionRecord, Grown(s)
    PROVE  /\ RuleFindings(s) = Findings(s.facts)
           /\ \A id \in RuleIds : Found(s, id) <=> HasFinding(s.facts, id)
<1> DEFINE R == Findings(s.facts)
           t == s.findings
           p == Len(R)
           I == {n \in DOMAIN t : t[n].id \notin MlFindings}
<1>1. t \in Seq(Finding) /\ R \in Seq(RuleFinding) /\ p \in Nat /\ Len(t) \in Nat
  BY FindingsOfRules DEF SessionRecord
<1>2. /\ p <= Len(t)
      /\ \A n \in 1..p : t[n] = R[n]
      /\ \A n \in (p + 1)..Len(t) : t[n] \in {RiskFinding, AnomalyFinding}
  BY DEF Grown
<1>3. /\ RiskFinding.id \in MlFindings /\ AnomalyFinding.id \in MlFindings
      /\ \A id \in RuleIds : id \notin MlFindings
  BY DEF RiskFinding, AnomalyFinding, MlFindings, RuleIds
<1> HIDE DEF t, R
<1>4. \A n \in 1..p : R[n].id \in RuleIds
  <2>1. \A n \in 1..p : R[n] \in RuleFinding
    BY <1>1
  <2> QED
    BY <2>1 DEF RuleFinding
<1>5. \A n \in 1..Len(t) : n <= p => t[n].id \in RuleIds
  BY <1>1, <1>2, <1>4
<1>6. \A n \in 1..Len(t) : ~(n <= p) => t[n].id \in MlFindings
  BY <1>1, <1>2, <1>3
<1>7. \A n \in 1..Len(t) : n \in I <=> n <= p
  BY <1>1, <1>3, <1>5, <1>6
<1>8. p \in 0..Len(t)
  BY <1>1, <1>2
<1>9. Picked(t, I) = SubSeq(t, 1, p)
  <2> HIDE DEF I, p
  <2> QED
    BY <1>1, <1>7, <1>8, PickedPrefix
<1>10. SubSeq(t, 1, p) = R
  BY <1>1, <1>2, <1>8
<1>11. RuleFindings(s) = R
  BY <1>9, <1>10 DEF RuleFindings, t
<1>12. ASSUME NEW id \in RuleIds
       PROVE  (\E n \in DOMAIN t : t[n].id = id) <=> (\E n \in DOMAIN R : R[n].id = id)
  <2>1. ASSUME NEW n \in DOMAIN t, t[n].id = id PROVE n \in DOMAIN R /\ R[n].id = id
    <3>1. n <= p
      BY <1>1, <1>3, <1>6, <1>12, <2>1
    <3> QED
      BY <1>1, <1>2, <2>1, <3>1
  <2>2. ASSUME NEW n \in DOMAIN R, R[n].id = id PROVE n \in DOMAIN t /\ t[n].id = id
    BY <1>1, <1>2, <2>2
  <2> QED
    BY <2>1, <2>2
<1> QED
  BY <1>11, <1>12 DEF Found, HasFinding, t, R

(* Every mail stream is reported once, in either order.                    *)
THEOREM MailStreamsReported == Spec => []EveryMailStreamReported
<1>1. RunInv => EveryMailStreamReported
  <2> SUFFICES ASSUME RunInv, phase = "done"
               PROVE  /\ {report[i].id : i \in DOMAIN report} =
                             {i \in DOMAIN capture : capture[i].banner # "UNKNOWN"
                                                    \/ capture[i].port # "UNKNOWN"}
                      /\ \A i, j \in DOMAIN report : i # j => report[i].id # report[j].id
    BY DEF EveryMailStreamReported
  <2>1. sessions \in Seq(SessionRecord) /\ report \in Arrangements
    BY DEF RunInv, RunTypes, ShownInv
  <2>2. PICK p \in Bijection(DOMAIN sessions, DOMAIN sessions) :
               /\ report \in Seq(SessionRecord) /\ DOMAIN report = DOMAIN sessions
               /\ \A n \in DOMAIN sessions :
                      p[n] \in DOMAIN sessions /\ report[n] = sessions[p[n]]
               /\ \A m, n \in DOMAIN sessions : p[m] = p[n] => m = n
               /\ \A m \in DOMAIN sessions : \E n \in DOMAIN sessions : p[n] = m
    BY <2>1, ArrangementOfSessions, Zenon
  <2>3. \A n : Mail(n) <=> (capture[n].banner # "UNKNOWN" \/ capture[n].port # "UNKNOWN")
    BY DEF Mail, Identify
  <2>4. /\ \A i \in DOMAIN sessions :
               sessions[i].id \in DOMAIN capture /\ Mail(sessions[i].id)
        /\ \A n \in DOMAIN capture : Mail(n) => \E i \in DOMAIN sessions : sessions[i].id = n
    BY DEF RunInv, SessionsInv, Passed
  <2>5. \A i, j \in DOMAIN sessions : i # j => sessions[i].id # sessions[j].id
    <3> SUFFICES ASSUME NEW i \in DOMAIN sessions, NEW j \in DOMAIN sessions, i # j
                 PROVE  sessions[i].id # sessions[j].id
      OBVIOUS
    <3>1. i \in Nat /\ j \in Nat /\ sessions[i].id \in Nat /\ sessions[j].id \in Nat
      <4>1. sessions[i] \in SessionRecord /\ sessions[j] \in SessionRecord
        BY <2>1
      <4>2. DOMAIN sessions = 1..Len(sessions) /\ Len(sessions) \in Nat
        BY <2>1
      <4> QED
        BY <4>1, <4>2 DEF SessionRecord
    <3>2. /\ i < j => sessions[i].id < sessions[j].id
          /\ j < i => sessions[j].id < sessions[i].id
      BY DEF RunInv, SessionsInv
    <3> QED
      BY <3>1, <3>2
  <2>6. {report[i].id : i \in DOMAIN report} = {n \in DOMAIN capture : Mail(n)}
    <3>1. ASSUME NEW i \in DOMAIN report
          PROVE  report[i].id \in DOMAIN capture /\ Mail(report[i].id)
      <4>1. p[i] \in DOMAIN sessions /\ report[i] = sessions[p[i]]
        BY <2>2, <3>1
      <4> QED
        BY <2>4, <4>1
    <3>2. ASSUME NEW n \in DOMAIN capture, Mail(n)
          PROVE  \E i \in DOMAIN report : report[i].id = n
      <4>1. PICK m \in DOMAIN sessions : sessions[m].id = n
        BY <2>4, <3>2
      <4>2. PICK i \in DOMAIN sessions : p[i] = m
        BY <2>2
      <4> QED
        BY <2>2, <4>1, <4>2
    <3> QED
      BY <3>1, <3>2
  <2>7. \A i, j \in DOMAIN report : i # j => report[i].id # report[j].id
    <3> SUFFICES ASSUME NEW i \in DOMAIN report, NEW j \in DOMAIN report, i # j
                 PROVE  report[i].id # report[j].id
      OBVIOUS
    <3>1. /\ p[i] \in DOMAIN sessions /\ report[i] = sessions[p[i]]
          /\ p[j] \in DOMAIN sessions /\ report[j] = sessions[p[j]]
          /\ p[i] # p[j]
      BY <2>2
    <3> QED
      BY <2>5, <3>1
  <2> QED
    BY <2>3, <2>6, <2>7
<1> QED
  BY <1>1, AnalysisInvariant, PTL

(* The score is that of the rule findings, from 0 to 100.                  *)
THEOREM ScoreIsOfRules == Spec => []ScoreFromRules
<1>1. RunInv => ScoreFromRules
  <2> SUFFICES ASSUME RunInv, NEW i \in DOMAIN sessions, Assessed(i), phase # "failed"
               PROVE  /\ sessions[i].risk_score = Score(RuleFindings(sessions[i]))
                      /\ sessions[i].risk_score \in 0..100
    BY DEF ScoreFromRules
  <2>1. sessions[i] \in SessionRecord /\ Grown(sessions[i])
    BY AssessedIsGrown
  <2>2. RuleFindings(sessions[i]) = Findings(sessions[i].facts)
    BY <2>1, RuleFindingsOfGrown
  <2>3. sessions[i].risk_score \in 0..100
    BY <2>1 DEF SessionRecord
  <2> QED
    BY <2>1, <2>2, <2>3 DEF Grown
<1> QED
  BY <1>1, AnalysisInvariant, PTL

(* The models move the headline at most from INFO to LOW.                  *)
THEOREM HeadlineIsOfRules == Spec => []HeadlineFromRules
<1>1. RunInv => HeadlineFromRules
  <2> SUFFICES ASSUME RunInv, NEW i \in DOMAIN sessions, Assessed(i), phase # "failed"
               PROVE  \/ OverallSeverity(sessions[i].findings)
                             = OverallSeverity(RuleFindings(sessions[i]))
                      \/ /\ OverallSeverity(RuleFindings(sessions[i])) = "INFO"
                         /\ OverallSeverity(sessions[i].findings) = "LOW"
    BY DEF HeadlineFromRules
  <2> DEFINE s == sessions[i]
             R == Findings(s.facts)
             t == s.findings
  <2>1. s \in SessionRecord /\ Grown(s)
    BY AssessedIsGrown
  <2>2. RuleFindings(s) = R
    BY <2>1, RuleFindingsOfGrown
  <2>3. t \in Seq(Finding) /\ R \in Seq(Finding)
    BY <2>1, FindingsTyped DEF SessionRecord
  <2>4. /\ Len(R) <= Len(t)
        /\ \A n \in 1..Len(R) : t[n] = R[n]
        /\ \A n \in (Len(R) + 1)..Len(t) : t[n] \in {RiskFinding, AnomalyFinding}
    BY <2>1 DEF Grown
  <2>5. RiskFinding.severity \in {"LOW", "INFO"} /\ AnomalyFinding.severity \in {"LOW", "INFO"}
    BY DEF RiskFinding, AnomalyFinding
  <2> HIDE DEF R, t
  <2>6. DOMAIN R \subseteq DOMAIN t /\ \A n \in DOMAIN R : t[n] = R[n]
    BY <2>3, <2>4
  <2>7. \A n \in DOMAIN t \ DOMAIN R : t[n].severity \in {"LOW", "INFO"}
    BY <2>3, <2>4, <2>5
  <2>8. \/ OverallSeverity(t) = OverallSeverity(R)
        \/ OverallSeverity(R) = "INFO" /\ OverallSeverity(t) = "LOW"
    BY <2>6, <2>7, HeadlineAfterMildFindings
  <2> QED
    BY <2>2, <2>8 DEF t
<1> QED
  BY <1>1, AnalysisInvariant, PTL

(* The notes of a session, by the branches of the code that take them: one *)
(* if TLS was attempted and no details are known, else none.               *)
LEMMA NotesOfSession ==
    ASSUME NEW implicit \in BOOLEAN, NEW d, d.clienthello \in BOOLEAN, NEW parsed, NEW complete
    PROVE  LET s == Session(implicit, d, parsed, complete)
           IN  /\ s.tls_attempted \in BOOLEAN
               /\ Len(s.analysis_notes) =
                      IF s.tls_attempted /\ s.tls_session = NoTls THEN 1 ELSE 0
               /\ HasTls(s) => s.tls_attempted
<1> DEFINE accepted == d.server_accepted = "yes"
           started  == accepted /\ d.clienthello
           notes    == IF implicit THEN <<>> ELSE UpgradeNotes(d, parsed)
           tls      == IF implicit \/ started THEN parsed ELSE NoTls
           tried    == implicit \/ accepted \/ d.clienthello
           s        == Session(implicit, d, parsed, complete)
<1>1. /\ s.tls_attempted = tried /\ s.tls_session = tls
      /\ s.analysis_notes = IF tried /\ tls = NoTls /\ notes = <<>>
                             THEN <<"NoServerHello">> ELSE notes
  BY FieldsOfSession
<1>2. notes = <<>> \/ (Len(notes) = 1 /\ notes # <<>> /\ tried /\ tls = NoTls)
  <2>1. CASE implicit
    BY <2>1
  <2>2. CASE ~implicit
    BY <2>2 DEF UpgradeNotes
  <2> QED
    BY <2>1, <2>2
<1>3. tls # NoTls => tried
  OBVIOUS
<1>4. tried \in BOOLEAN /\ Len(<<"NoServerHello">>) = 1 /\ Len(<<>>) = 0
  OBVIOUS
<1> HIDE DEF tried, tls, notes
<1> QED
  BY <1>1, <1>2, <1>3, <1>4 DEF HasTls, s

(* That there are no TLS details is explained once, by a finding or a note.*)
THEOREM AbsenceIsExplained == Spec => []AbsenceExplainedOnce
<1>1. RunInv => AbsenceExplainedOnce
  <2> SUFFICES ASSUME RunInv, NEW i \in DOMAIN sessions, Assessed(i), phase # "failed"
               PROVE  Cardinality({f \in {"CRYPTO-000", "CRYPTO-001"} : Found(sessions[i], f)})
                          + Len(sessions[i].facts.analysis_notes)
                        = IF HasTls(sessions[i].facts) THEN 0 ELSE 1
    BY DEF AbsenceExplainedOnce
  <2> DEFINE s == sessions[i].facts
             found == {f \in {"CRYPTO-000", "CRYPTO-001"} : Found(sessions[i], f)}
             notes == Len(s.analysis_notes)
  <2>1. /\ Found(sessions[i], "CRYPTO-000") <=> HasFinding(s, "CRYPTO-000")
        /\ Found(sessions[i], "CRYPTO-001") <=> HasFinding(s, "CRYPTO-001")
    BY AssessedIsGrown, RuleFindingsOfGrown DEF RuleIds
  <2>2. /\ HasFinding(s, "CRYPTO-000") <=> NotConclusive(s)
        /\ HasFinding(s, "CRYPTO-001") <=> NoEncryption(s)
    BY FindingOfRule
  <2>3. /\ notes = IF s.tls_attempted /\ s.tls_session = NoTls THEN 1 ELSE 0
        /\ HasTls(s) => s.tls_attempted
    <3>1. sessions[i].id \in DOMAIN capture /\ s = FactsOf(capture[sessions[i].id])
      BY DEF RunInv, SessionsInv
    <3>2. capture[sessions[i].id] \in Streams
      BY <3>1 DEF RunInv, RunTypes
    <3> QED
      BY <3>1, <3>2, StreamAssumption, NotesOfSession DEF FactsOf
  <2>4. CASE s.tls_attempted
    <3>1. found = {}
      BY <2>1, <2>2, <2>4 DEF NotConclusive, NoEncryption
    <3>2. Cardinality(found) = 0
      BY <3>1, FS_EmptySet
    <3> QED
      BY <2>3, <2>4, <3>2 DEF HasTls
  <2>5. CASE ~s.tls_attempted
    <3>1. found = {"CRYPTO-000"} \/ found = {"CRYPTO-001"}
      BY <2>1, <2>2, <2>3, <2>5 DEF NotConclusive, NoEncryption
    <3>2. Cardinality(found) = 1
      BY <3>1, FS_Singleton
    <3> QED
      BY <2>3, <2>5, <3>2
  <2> QED
    BY <2>4, <2>5
<1> QED
  BY <1>1, AnalysisInvariant, PTL

(* Sessions with the same features have the same of the five findings.     *)
THEOREM FeaturesDecideRules == Spec => []FeaturesFollowRules
<1>1. ASSUME NEW s, NEW t, Features(s) = Features(t)
      PROVE  \A id \in {"CRYPTO-002", "CRYPTO-003", "CRYPTO-004", "CRYPTO-005", "CRYPTO-006"} :
                 HasFinding(s, id) <=> HasFinding(t, id)
  <2>1. ASSUME NEW a \in BOOLEAN, NEW b \in BOOLEAN, Flag(a) = Flag(b) PROVE a = b
    BY <2>1 DEF Flag
  <2> DEFINE Deprecated(u) == HasTls(u) /\ IsDeprecatedVersion(u.tls_session.tls_version)
             Secret(u) == HasTls(u) /\ u.tls_session.forward_secrecy
             Expired(u) == \E c \in Certificates(u) : c.expired
             Own(u) == \E c \in Certificates(u) : IsSelfSigned(c)
  <2>2. ASSUME NEW u
        PROVE  /\ Features(u).is_encrypted = Flag(HasTls(u))
               /\ Features(u).tls_version_deprecated = Flag(Deprecated(u))
               /\ Features(u).cipher_suite_weak = Flag(CipherSuiteWeak(u))
               /\ Features(u).forward_secrecy = Flag(Secret(u))
               /\ Features(u).any_cert_expired = Flag(Expired(u))
               /\ Features(u).any_cert_self_signed = Flag(Own(u))
    BY DEF Features
  <2>3. /\ Flag(HasTls(s)) = Flag(HasTls(t))
        /\ Flag(Deprecated(s)) = Flag(Deprecated(t))
        /\ Flag(CipherSuiteWeak(s)) = Flag(CipherSuiteWeak(t))
        /\ Flag(Secret(s)) = Flag(Secret(t))
        /\ Flag(Expired(s)) = Flag(Expired(t))
        /\ Flag(Own(s)) = Flag(Own(t))
    <3> HIDE DEF Deprecated, Secret, Expired, Own
    <3> QED
      BY <1>1, <2>2, Zenon
  <2>4. /\ HasTls(s) <=> HasTls(t)
        /\ Deprecated(s) <=> Deprecated(t)
        /\ CipherSuiteWeak(s) <=> CipherSuiteWeak(t)
        /\ Secret(s) <=> Secret(t)
        /\ Expired(s) <=> Expired(t)
        /\ Own(s) <=> Own(t)
    <3> HIDE DEF Deprecated, Secret, Expired, Own
    <3> QED
      BY <2>3 DEF Flag
  <2>5. ASSUME NEW u
        PROVE  /\ HasFinding(u, "CRYPTO-002") <=> Deprecated(u)
               /\ HasFinding(u, "CRYPTO-003") <=> CipherSuiteWeak(u)
               /\ HasFinding(u, "CRYPTO-004") <=> HasTls(u) /\ ~Secret(u)
               /\ HasFinding(u, "CRYPTO-005") <=> Expired(u)
               /\ HasFinding(u, "CRYPTO-006") <=> Own(u)
    BY FindingOfRule DEF CipherSuiteWeak
  <2> QED
    BY <2>4, <2>5
<1>2. RunInv => FeaturesFollowRules
  <2> SUFFICES ASSUME RunInv, NEW i \in DOMAIN sessions, NEW j \in DOMAIN sessions,
                      Assessed(i), Assessed(j), phase # "failed",
                      Features(sessions[i].facts) = Features(sessions[j].facts),
                      NEW id \in {"CRYPTO-002", "CRYPTO-003", "CRYPTO-004", "CRYPTO-005",
                                  "CRYPTO-006"}
               PROVE  Found(sessions[i], id) <=> Found(sessions[j], id)
    BY DEF FeaturesFollowRules
  <2>1. id \in RuleIds
    BY DEF RuleIds
  <2>2. Found(sessions[i], id) <=> HasFinding(sessions[i].facts, id)
    BY <2>1, AssessedIsGrown, RuleFindingsOfGrown
  <2>3. Found(sessions[j], id) <=> HasFinding(sessions[j].facts, id)
    BY <2>1, AssessedIsGrown, RuleFindingsOfGrown
  <2> QED
    BY <1>1, <2>2, <2>3
<1> QED
  BY <1>2, AnalysisInvariant, PTL

LEMMA PrefixOfGrown ==
    ASSUME NEW X, NEW t \in Seq(X)
    PROVE  IsPrefix(t, t) /\ \A f : IsPrefix(t, Append(t, f))
<1>1. ASSUME NEW f PROVE IsPrefix(t, Append(t, f))
  <2>1. Len(Append(t, f)) = Len(t) + 1 /\ \A n \in 1..Len(t) : Append(t, f)[n] = t[n]
    OBVIOUS
  <2>2. SubSeq(Append(t, f), 1, Len(t)) = SubSeq(t, 1, Len(t))
    BY <2>1
  <2> QED
    BY <2>1, <2>2 DEF IsPrefix
<1> QED
  BY <1>1 DEF IsPrefix

(* Once a session is assessed its findings only grow.                      *)
THEOREM FindingsStay == Spec => FindingsOnlyGrow
<1> DEFINE Grow == \A i \in DOMAIN sessions : Assessed(i) =>
                       IsPrefix(sessions[i].findings, sessions'[i].findings)
<1>1. RunInv /\ [Next]_vars => [Grow]_vars
  <2> SUFFICES ASSUME RunInv, Next, NEW i \in DOMAIN sessions, Assessed(i)
               PROVE  IsPrefix(sessions[i].findings, sessions'[i].findings)
    OBVIOUS
  <2>1. /\ sessions \in Seq(SessionRecord) /\ sessions[i] \in SessionRecord
        /\ sessions[i].findings \in Seq(Finding)
    <3>1. sessions \in Seq(SessionRecord)
      BY DEF RunInv, RunTypes
    <3>2. sessions[i] \in SessionRecord
      BY <3>1
    <3> QED
      BY <3>1, <3>2 DEF SessionRecord
  <2>2. CASE sessions' = sessions
    BY <2>1, <2>2, PrefixOfGrown
  <2>3. CASE BuildSession
    BY <2>3 DEF BuildSession, Building, Assessed
  <2>4. CASE Assess
    <3>1. sessions'[i] = sessions[i]
      BY <2>1, <2>4 DEF Assess, Assessed
    <3> QED
      BY <2>1, <3>1, PrefixOfGrown
  <2>5. CASE ApplyRisk
    <3>1. sessions'[i].findings \in {sessions[i].findings,
                                     Append(sessions[i].findings, RiskFinding)}
      BY <2>1, <2>5 DEF ApplyRisk, SessionRecord
    <3> QED
      BY <2>1, <3>1, PrefixOfGrown
  <2>6. CASE ApplyAnomaly
    <3>1. sessions'[i].findings \in {sessions[i].findings,
                                     Append(sessions[i].findings, AnomalyFinding)}
      BY <2>1, <2>6 DEF ApplyAnomaly, Flagged, SessionRecord
    <3> QED
      BY <2>1, <3>1, PrefixOfGrown
  <2> QED
    BY <2>2, <2>3, <2>4, <2>5, <2>6
       DEF Next, Reassemble, SkipUnknown, ParserFails, StartAssessing, StartRisk,
           StartAnomaly, Return, Export
<1>2. Spec => [][Grow]_vars
  BY <1>1, AnalysisInvariant, PTL DEF Spec
<1> QED
  BY <1>2 DEF FindingsOnlyGrow

-----------------------------------------------------------------------------
(* Where only one message has certificates, those are what is presented.   *)
LEMMA PresentedByOneSender ==
    ASSUME NEW messages, Len(messages) \in Nat, NEW p \in Nat, NEW X, NEW v \in Seq(X),
           NEW peers,
           \A n \in 1..Len(messages) :
               messages[n].chain # <<>> => messages[n].sender \in peers,
           \A n \in 1..Len(messages) : messages[n].chain = IF n = p THEN v ELSE <<>>
    PROVE  Presented(messages, peers)
              = Parseable(IF p \in 1..Len(messages) THEN v ELSE <<>>)
<1> DEFINE N == Len(messages)
           added(n) == IF messages[n].sender \in peers THEN messages[n].chain ELSE <<>>
           Follows(g) == g = [n \in 0..N |->
                                 IF n = 0 THEN <<>> ELSE g[n - 1] \o added(n)]
           sent == CHOOSE g : Follows(g)
           f == [n \in 0..N |-> IF p \in 1..n THEN v ELSE <<>>]
<1>1. Presented(messages, peers) = Parseable(sent[N])
  BY DEF Presented
<1>2. f[0] = <<>> /\ \A n \in 1..N : f[n] = f[n - 1] \o added(n)
  <2>1. f[0] = <<>>
    OBVIOUS
  <2>2. ASSUME NEW n \in 1..N PROVE f[n] = f[n - 1] \o added(n)
    <3>1. n - 1 \in 0..N /\ n \in 0..N /\ n \in Nat /\ added(n) = messages[n].chain
      OBVIOUS
    <3>2. CASE p = n
      <4>1. f[n - 1] = <<>> /\ f[n] = v /\ added(n) = v
        BY <3>1, <3>2
      <4> HIDE DEF f, added
      <4> QED
        BY <4>1
    <3>3. CASE p # n
      <4>1. f[n] = f[n - 1] /\ added(n) = <<>> /\ f[n - 1] \in Seq(X)
        BY <3>1, <3>3
      <4> HIDE DEF f, added
      <4> QED
        BY <4>1
    <3> QED
      BY <3>2, <3>3
  <2> QED
    BY <2>1, <2>2
<1>3. Follows(f)
  <2>1. \A n \in 0..N : n = 0 \/ n \in 1..N
    OBVIOUS
  <2>2. f = [n \in 0..N |-> f[n]]
    OBVIOUS
  <2> HIDE DEF f, N, added
  <2> QED
    BY <1>2, <2>1, <2>2
<1>4. Follows(sent)
  BY <1>3
<1>5. sent[0] = <<>> /\ \A n \in 1..N : sent[n] = sent[n - 1] \o added(n)
  <2> HIDE DEF sent, added
  <2>1. 0 \in 0..N /\ \A n \in 1..N : n \in 0..N /\ n # 0
    OBVIOUS
  <2> HIDE DEF N
  <2>2. ASSUME NEW n \in 0..N
        PROVE  sent[n] = IF n = 0 THEN <<>> ELSE sent[n - 1] \o added(n)
    BY <1>4
  <2> QED
    BY <2>1, <2>2, Zenon
<1>6. sent[N] = f[N]
  <2>1. N \in Nat
    OBVIOUS
  <2> HIDE DEF sent, f, N, added
  <2>2. sent[0] = f[0] /\ \A n \in 1..N : sent[n - 1] = f[n - 1] => sent[n] = f[n]
    BY <1>2, <1>5
  <2> QED
    BY <2>1, <2>2, SameRecursion
<1>7. f[N] = IF p \in 1..N THEN v ELSE <<>>
  <2>1. N \in 0..N
    OBVIOUS
  <2> HIDE DEF N
  <2> QED
    BY <2>1
<1> HIDE DEF sent, f
<1> QED
  BY <1>1, <1>6, <1>7

(* A chain that is shown but not valid has a link that does not hold.      *)
LEMMA BrokenLink ==
    ASSUME NEW X, NEW chain \in Seq(X)
    PROVE  LET Signs(a, b) == a.subject = b.issuer /\ VerifySignature(b, a)
           IN  (chain # <<>> /\ ~ValidateChain(chain))
                  <=> \E c \in DOMAIN chain :
                         IF c < Len(chain) THEN ~Signs(chain[c + 1], chain[c])
                         ELSE IsSelfSigned(chain[c]) /\ ~Signs(chain[c], chain[c])
<1> DEFINE Signs(a, b) == a.subject = b.issuer /\ VerifySignature(b, a)
           N == Len(chain)
<1>1. N \in Nat /\ DOMAIN chain = 1..N /\ (chain # <<>> <=> N > 0)
  OBVIOUS
<1>2. ValidateChain(chain)
        <=> /\ chain # <<>>
            /\ \A c \in 1..(N - 1) : Signs(chain[c + 1], chain[c])
            /\ IsSelfSigned(chain[N]) => VerifySignature(chain[N], chain[N])
  <2>1. \A a, b : Signs(a, b) <=> (b.issuer = a.subject /\ VerifySignature(b, a))
    OBVIOUS
  <2> HIDE DEF Signs
  <2> QED
    BY <2>1, Zenon DEF ValidateChain, Last, IsSelfSigned, N
<1>3. Signs(chain[N], chain[N]) <=> (IsSelfSigned(chain[N]) /\ VerifySignature(chain[N], chain[N]))
  BY DEF IsSelfSigned
<1> HIDE DEF Signs
<1>4. ASSUME chain # <<>>, ~ValidateChain(chain)
      PROVE  \E c \in DOMAIN chain : IF c < N THEN ~Signs(chain[c + 1], chain[c])
                                     ELSE IsSelfSigned(chain[c]) /\ ~Signs(chain[c], chain[c])
  <2> HIDE DEF N
  <2>1. CASE \E c \in 1..(N - 1) : ~Signs(chain[c + 1], chain[c])
    <3>1. PICK c \in 1..(N - 1) : ~Signs(chain[c + 1], chain[c])
      BY <2>1
    <3>2. c \in DOMAIN chain /\ c < N
      BY <1>1
    <3> QED
      BY <3>1, <3>2
  <2>2. CASE IsSelfSigned(chain[N]) /\ ~VerifySignature(chain[N], chain[N])
    <3>1. N \in DOMAIN chain /\ ~(N < N) /\ ~Signs(chain[N], chain[N])
      BY <1>1, <1>3, <1>4, <2>2
    <3> QED
      BY <2>2, <3>1
  <2> QED
    BY <1>2, <1>4, <2>1, <2>2, Zenon
<1>5. ASSUME NEW c \in DOMAIN chain, IF c < N THEN ~Signs(chain[c + 1], chain[c])
                                     ELSE IsSelfSigned(chain[c]) /\ ~Signs(chain[c], chain[c])
      PROVE  chain # <<>> /\ ~ValidateChain(chain)
  <2> HIDE DEF N
  <2>1. CASE c < N
    BY <1>1, <1>2, <1>5, <2>1
  <2>2. CASE c = N
    BY <1>1, <1>2, <1>3, <1>5, <2>2
  <2> QED
    BY <1>1, <2>1, <2>2
<1> QED
  BY <1>4, <1>5 DEF Signs

(* The certificates a session shows are those that can be parsed, with the *)
(* status of their chain, unless TLS 1.3 hides them.                       *)
LEMMA ShownCertificates ==
    ASSUME NEW s \in Streams, NEW X, NEW chain \in Seq(X),
           Parseable(ExtractDer(s.messages.certificates)) = chain
    PROVE  LET hello   == s.messages.server_hellos
               version == NegotiatedVersion(hello[1])
               details == FactsOf(s).tls_session
           IN  /\ details # NoTls <=> /\ ParserCalled(s) /\ s.messages.client_hellos > 0
                                     /\ hello # <<>>
               /\ details # NoTls =>
                      /\ details.tls_version = version
                      /\ details.certificates =
                             IF version = "TLSv1.3" THEN <<>>
                             ELSE [c \in 1..Len(chain) |->
                                     [x509 |-> chain[c],
                                      chain_valid |-> IF ValidateChain(chain)
                                                      THEN "valid" ELSE "broken"]]
<1> DEFINE hello == s.messages.server_hellos
           judged == s.messages.client_hellos # 0 /\ hello # <<>>
           version == NegotiatedVersion(hello[1])
           tls == Parse(s.messages)
           checked == WithChainStatus(tls)
           certs == IF version = "TLSv1.3" THEN <<>>
                    ELSE ParseCertificates(ExtractDer(s.messages.certificates))
<1>1. s.messages.client_hellos > 0 <=> s.messages.client_hellos # 0
  BY StreamAssumption
<1>2. FactsOf(s).tls_session = IF ParserCalled(s) THEN checked ELSE NoTls
  BY Zenon, FieldsOfSession DEF FactsOf, ParserCalled
<1>3. ~judged => tls = NoTls /\ checked = NoTls
  BY DEF Parse, WithChainStatus
<1>4. judged => tls # NoTls /\ checked # NoTls
  BY NoneAssumption
<1>5. judged => checked.tls_version = version
  <2>1. judged => tls.tls_version = version /\ "tls_version" \in DOMAIN tls
    BY DEF Parse
  <2>2. judged => checked.tls_version = tls.tls_version
    <3> HIDE DEF tls, judged
    <3> QED
      BY <1>4, <2>1 DEF WithChainStatus
  <2> HIDE DEF judged, tls, checked, version
  <2> QED
    BY <2>1, <2>2
<1>6. ASSUME judged
      PROVE  checked.certificates =
                 [c \in DOMAIN certs |->
                     [certs[c] EXCEPT !.chain_valid =
                         IF ValidateChain([n \in DOMAIN certs |-> certs[n].x509])
                         THEN "valid" ELSE "broken"]]
  <2>1. tls.certificates = certs
    BY <1>6 DEF Parse
  <2>2. checked = [tls EXCEPT !.certificates =
                    [c \in DOMAIN tls.certificates |->
                        [tls.certificates[c] EXCEPT !.chain_valid =
                            IF ValidateChain([n \in DOMAIN tls.certificates |->
                                                 tls.certificates[n].x509])
                            THEN "valid" ELSE "broken"]]]
    BY <1>4, <1>6, Zenon DEF WithChainStatus
  <2>3. "certificates" \in DOMAIN tls
    BY <1>6 DEF Parse
  <2> HIDE DEF tls, certs
  <2> QED
    BY <2>1, <2>2, <2>3
<1>7. ASSUME version # "TLSv1.3"
      PROVE  certs = [c \in 1..Len(chain) |-> [x509 |-> chain[c], chain_valid |-> "unset"]]
  BY <1>7 DEF ParseCertificates
<1>8. ASSUME judged, version # "TLSv1.3"
      PROVE  checked.certificates =
                 [c \in 1..Len(chain) |->
                     [x509 |-> chain[c],
                      chain_valid |-> IF ValidateChain(chain) THEN "valid" ELSE "broken"]]
  <2>1. DOMAIN certs = 1..Len(chain) /\ [n \in DOMAIN certs |-> certs[n].x509] = chain
    BY <1>7, <1>8
  <2>2. \A c \in 1..Len(chain) : certs[c] = [x509 |-> chain[c], chain_valid |-> "unset"]
    BY <1>7, <1>8
  <2> DEFINE verdict == IF ValidateChain(chain) THEN "valid" ELSE "broken"
  <2>3. checked.certificates = [c \in DOMAIN certs |-> [certs[c] EXCEPT !.chain_valid = verdict]]
    <3>1. ValidateChain([n \in DOMAIN certs |-> certs[n].x509]) <=> ValidateChain(chain)
      BY <2>1
    <3> HIDE DEF checked, certs
    <3> QED
      BY <1>6, <1>8, <3>1
  <2> HIDE DEF checked, certs, verdict
  <2>4. \A c \in 1..Len(chain) : [certs[c] EXCEPT !.chain_valid = verdict]
                                   = [x509 |-> chain[c], chain_valid |-> verdict]
    <3>1. ASSUME NEW r, NEW x, r = [x509 |-> x, chain_valid |-> "unset"]
          PROVE  [r EXCEPT !.chain_valid = verdict] = [x509 |-> x, chain_valid |-> verdict]
      BY <3>1
    <3> TAKE c \in 1..Len(chain)
    <3>2. certs[c] = [x509 |-> chain[c], chain_valid |-> "unset"]
      BY <2>2
    <3> QED
      BY <3>1, <3>2
  <2>5. checked.certificates = [c \in 1..Len(chain) |-> [x509 |-> chain[c], chain_valid |-> verdict]]
    BY <2>1, <2>3, <2>4
  <2> QED
    BY <2>5 DEF verdict
<1>9. ASSUME judged, version = "TLSv1.3" PROVE checked.certificates = <<>>
  <2>1. certs = <<>>
    BY <1>9
  <2> HIDE DEF checked, certs
  <2> QED
    BY <1>6, <1>9, <2>1
<1> HIDE DEF checked
<1> QED
  BY <1>1, <1>2, <1>3, <1>4, <1>5, <1>8, <1>9

(* The chain of a session is broken if it was judged and is not valid.     *)
LEMMA BrokenChainOfStream ==
    ASSUME NEW s \in Streams, NEW X, NEW chain \in Seq(X),
           Parseable(ExtractDer(s.messages.certificates)) = chain
    PROVE  LET hello == s.messages.server_hellos
           IN  BrokenChain(FactsOf(s))
                  <=> /\ ParserCalled(s) /\ s.messages.client_hellos > 0
                      /\ hello # <<>> /\ NegotiatedVersion(hello[1]) # "TLSv1.3"
                      /\ chain # <<>> /\ ~ValidateChain(chain)
<1> DEFINE hello == s.messages.server_hellos
           version == NegotiatedVersion(hello[1])
           details == FactsOf(s).tls_session
           judged == ParserCalled(s) /\ s.messages.client_hellos > 0 /\ hello # <<>>
<1>1. /\ details # NoTls <=> judged
      /\ details # NoTls =>
             details.certificates =
                 IF version = "TLSv1.3" THEN <<>>
                 ELSE [c \in 1..Len(chain) |->
                         [x509 |-> chain[c],
                          chain_valid |-> IF ValidateChain(chain) THEN "valid" ELSE "broken"]]
  BY ShownCertificates
<1>2. BrokenChain(FactsOf(s))
        <=> /\ details # NoTls /\ details.certificates # <<>>
            /\ \A c \in DOMAIN details.certificates : details.certificates[c].chain_valid = "broken"
  BY DEF BrokenChain, HasTls
<1> HIDE DEF details, judged
<1>3. ASSUME judged, version # "TLSv1.3"
      PROVE  (/\ details.certificates # <<>>
              /\ \A c \in DOMAIN details.certificates :
                    details.certificates[c].chain_valid = "broken")
             <=> (chain # <<>> /\ ~ValidateChain(chain))
  <2> DEFINE verdict == IF ValidateChain(chain) THEN "valid" ELSE "broken"
             Y == {[x509 |-> chain[c], chain_valid |-> verdict] : c \in 1..Len(chain)}
  <2>1. details.certificates = [c \in 1..Len(chain) |-> [x509 |-> chain[c], chain_valid |-> verdict]]
    BY <1>1, <1>3
  <2> HIDE DEF verdict, details
  <2>2. details.certificates \in [1..Len(chain) -> Y] /\ Len(chain) \in Nat
    BY <2>1
  <2>3. /\ details.certificates \in Seq(Y) /\ Len(details.certificates) = Len(chain)
        /\ DOMAIN details.certificates = 1..Len(chain)
    <3> HIDE DEF Y
    <3> QED
      BY <2>2, SequenceOf
  <2>4. chain # <<>> <=> Len(chain) > 0
    OBVIOUS
  <2>5. details.certificates # <<>> <=> Len(chain) > 0
    <3> HIDE DEF Y
    <3> QED
      BY <2>3
  <2>6. \A c \in 1..Len(chain) : details.certificates[c].chain_valid = verdict
    BY <2>1
  <2>7. verdict = "broken" <=> ~ValidateChain(chain)
    BY DEF verdict
  <2> QED
    BY <2>2, <2>3, <2>4, <2>5, <2>6, <2>7
<1> QED
  BY <1>1, <1>2, <1>3 DEF judged

(* Of a stream where at most one message has certificates, they are all    *)
(* that is extracted and all that is presented.                            *)
LEMMA ChainOfOneSender ==
    ASSUME NEW s \in Streams, NEW peers,
           \A m \in DOMAIN s.messages.certificates :
               s.messages.certificates[m].chain # <<>>
                   => s.messages.certificates[m].sender \in peers,
           \A m, n \in {m \in DOMAIN s.messages.certificates :
                            s.messages.certificates[m].chain # <<>>} : m = n
    PROVE  LET chain == Presented(s.messages.certificates, peers)
           IN  /\ Parseable(ExtractDer(s.messages.certificates)) = chain
               /\ \E X : chain \in Seq(X)
<1> DEFINE sent == s.messages.certificates
           N == Len(sent)
           senders == {m \in DOMAIN sent : sent[m].chain # <<>>}
<1>1. /\ sent \in Seq(Range(sent)) /\ N \in Nat /\ DOMAIN sent = 1..N
      /\ \A m \in 1..N : /\ sent[m].sender \in {"client", "server"}
                         /\ sent[m].chain \in Seq(Range(sent[m].chain))
  <2>1. /\ sent \in Seq(Range(sent))
        /\ \A m \in DOMAIN sent : /\ sent[m].sender \in {"client", "server"}
                                  /\ sent[m].chain \in Seq(Range(sent[m].chain))
    BY StreamAssumption
  <2> HIDE DEF sent
  <2> QED
    BY <2>1
<1> DEFINE p == IF senders = {} THEN 0 ELSE CHOOSE n \in senders : TRUE
           v == IF senders = {} THEN <<>> ELSE sent[p].chain
           X == Range(v)
<1>2. /\ p \in Nat /\ v \in Seq(X)
      /\ \A n \in 1..N : sent[n].chain = IF n = p THEN v ELSE <<>>
  <2>1. CASE senders = {}
    <3>1. p = 0 /\ v = <<>> /\ <<>> \in Seq(X)
      BY <2>1
    <3>2. \A n \in 1..N : sent[n].chain = <<>>
      BY <1>1, <2>1
    <3> QED
      BY <3>1, <3>2
  <2>2. CASE senders # {}
    <3>1. p \in senders /\ v = sent[p].chain
      BY <2>2
    <3> HIDE DEF p
    <3>2. p \in 1..N /\ sent[p].chain \in Seq(Range(sent[p].chain)) /\ p \in Nat
      BY <1>1, <3>1
    <3>3. \A n \in 1..N : sent[n].chain = IF n = p THEN sent[p].chain ELSE <<>>
      BY <1>1, <3>1
    <3> QED
      BY <2>2, <3>1, <3>2, <3>3
  <2> QED
    BY <2>1, <2>2
<1>3. \A n \in 1..N : sent[n].chain # <<>> => sent[n].sender \in peers
  BY <1>1
<1> HIDE DEF sent, p, v, X
<1> DEFINE w == IF p \in 1..N THEN v ELSE <<>>
<1>5. ExtractDer(sent) = w
  BY <1>1, <1>2, DersOfOneSender
<1>6. Presented(sent, peers) = Parseable(w)
  BY <1>1, <1>2, <1>3, PresentedByOneSender
<1>7. w \in Seq(X)
  BY <1>2
<1>8. Parseable(w) \in Seq(X)
  <2> HIDE DEF w
  <2> QED
    BY <1>7, PickedElements DEF Parseable
<1> HIDE DEF w
<1> QED
  BY <1>5, <1>6, <1>8 DEF sent

(* Where one peer shows certificates in the clear, the verdict is right.   *)
THEOREM ChainIsJudged == Spec => []ChainVerdict
<1>1. RunInv => ChainVerdict
  <2> SUFFICES ASSUME RunInv PROVE ChainVerdict
    OBVIOUS
  <2> DEFINE s(i) == capture[sessions[i].id]
             sent(i) == s(i).messages.certificates
             chain(i) == Presented(sent(i), {"client", "server"})
             hello(i) == s(i).messages.server_hellos
             Signs(a, b) == a.subject = b.issuer /\ VerifySignature(b, a)
             senders(i) == {m \in DOMAIN sent(i) : sent(i)[m].chain # <<>>}
             Broken(i) == \E c \in DOMAIN chain(i) :
                              IF c < Len(chain(i)) THEN ~Signs(chain(i)[c + 1], chain(i)[c])
                              ELSE /\ IsSelfSigned(chain(i)[c])
                                   /\ ~Signs(chain(i)[c], chain(i)[c])
  <2>1. ASSUME NEW i \in DOMAIN sessions, Assessed(i), phase # "failed",
               \A m, n \in senders(i) : m = n
        PROVE  Found(sessions[i], "CRYPTO-009")
                  <=> /\ ParserCalled(s(i)) /\ s(i).messages.client_hellos > 0
                      /\ hello(i) # <<>> /\ NegotiatedVersion(hello(i)[1]) # "TLSv1.3"
                      /\ Broken(i)
    <3>1. s(i) \in Streams /\ sessions[i].facts = FactsOf(s(i))
      BY DEF RunInv, RunTypes, SessionsInv
    <3>2. Found(sessions[i], "CRYPTO-009") <=> BrokenChain(FactsOf(s(i)))
      <4>1. Found(sessions[i], "CRYPTO-009") <=> HasFinding(sessions[i].facts, "CRYPTO-009")
        BY <2>1, AssessedIsGrown, RuleFindingsOfGrown DEF RuleIds
      <4>2. HasFinding(sessions[i].facts, "CRYPTO-009") <=> BrokenChain(sessions[i].facts)
        BY FindingOfRule
      <4> QED
        BY <3>1, <4>1, <4>2
    <3>3. /\ Parseable(ExtractDer(sent(i))) = chain(i)
          /\ \E X : chain(i) \in Seq(X)
      <4>1. \A m \in DOMAIN sent(i) : sent(i)[m].sender \in {"client", "server"}
        BY <3>1, StreamAssumption
      <4> HIDE DEF s
      <4> QED
        BY <2>1, <3>1, <4>1, ChainOfOneSender
    <3>4. PICK X : chain(i) \in Seq(X)
      BY <3>3
    <3>5. (chain(i) # <<>> /\ ~ValidateChain(chain(i))) <=> Broken(i)
      <4> HIDE DEF chain
      <4> QED
        BY <3>4, BrokenLink
    <3>6. BrokenChain(FactsOf(s(i)))
             <=> /\ ParserCalled(s(i)) /\ s(i).messages.client_hellos > 0
                 /\ hello(i) # <<>> /\ NegotiatedVersion(hello(i)[1]) # "TLSv1.3"
                 /\ chain(i) # <<>> /\ ~ValidateChain(chain(i))
      <4> HIDE DEF s, chain
      <4> QED
        BY <3>1, <3>3, <3>4, BrokenChainOfStream
    <3> HIDE DEF Broken, chain, s
    <3> QED
      BY <3>2, <3>5, <3>6
  <2> QED
    BY <2>1 DEF ChainVerdict
<1> QED
  BY <1>1, AnalysisInvariant, PTL

(* What ServerChainReported fails for is a client that shows certificates: *)
(* where at most one message of a stream has any, and that is the server's,*)
ServersPresent ==
    \A s \in Streams :
        LET sent    == s.messages.certificates
            senders == {m \in DOMAIN sent : sent[m].chain # <<>>}
        IN  \A m, n \in senders : m = n /\ sent[m].sender = "server"

(* a session shows exactly the certificates the server presented, in their *)
(* order, whatever else happens to the session (the run with a client      *)
(* certificate shows that this is needed).                                 *)
THEOREM ServerChains == ASSUME ServersPresent PROVE Spec => []ServerChainReported
<1>1. ASSUME RunInv PROVE ServerChainReported
  <2> DEFINE s(i) == capture[sessions[i].id]
             chain(i) == Presented(s(i).messages.certificates, {"server"})
             tls(i) == sessions[i].facts.tls_session
  <2>1. ASSUME NEW i \in DOMAIN sessions, tls(i) # NoTls, tls(i).tls_version # "TLSv1.3"
        PROVE  [c \in DOMAIN tls(i).certificates |-> tls(i).certificates[c].x509] = chain(i)
    <3>1. s(i) \in Streams /\ sessions[i].facts = FactsOf(s(i))
      BY <1>1 DEF RunInv, RunTypes, SessionsInv
    <3>2. /\ Parseable(ExtractDer(s(i).messages.certificates)) = chain(i)
          /\ \E X : chain(i) \in Seq(X)
      <4> HIDE DEF s
      <4> QED
        BY <3>1, ChainOfOneSender DEF ServersPresent
    <3>3. PICK X : chain(i) \in Seq(X)
      BY <3>2
    <3> DEFINE verdict == IF ValidateChain(chain(i)) THEN "valid" ELSE "broken"
    <3>4. tls(i).certificates = [c \in 1..Len(chain(i)) |-> [x509 |-> chain(i)[c], chain_valid |-> verdict]]
      <4> HIDE DEF s, chain
      <4> QED
        BY <2>1, <3>1, <3>2, <3>3, ShownCertificates
    <3> HIDE DEF tls, verdict, chain
    <3>5. [c \in DOMAIN tls(i).certificates |-> tls(i).certificates[c].x509]
             = [c \in 1..Len(chain(i)) |-> chain(i)[c]]
      BY <3>4
    <3>6. [c \in 1..Len(chain(i)) |-> chain(i)[c]] = chain(i)
      BY <3>3
    <3> QED
      BY <3>5, <3>6
  <2> QED
    BY <2>1 DEF ServerChainReported
<1> QED
  BY <1>1, AnalysisInvariant, PTL

-----------------------------------------------------------------------------
(* What the command line writes of an analysis that is done.               *)
Statuses == {"analysing", "writing", "browser", "ok", "error"}

ExportTypes == /\ status \in Statuses
               /\ todo \subseteq requested /\ requested \subseteq Formats
               /\ files \in [Formats -> {"none", "earlier", "this", "partial"}]
               /\ silent \in BOOLEAN

(* A file that main may count as written.                                  *)
Done(f) == files[f] = "this" \/ (f = "pdf" /\ silent /\ files[f] # "none")

(* The formats asked for are worked through in order: those no longer in   *)
(* todo are done, those in it untouched, but for the PDF when the browser  *)
(* is tried after WeasyPrint.                                              *)
InOrder ==
    status \in {"writing", "browser", "ok"} =>
        /\ phase = "done"
        /\ \A f \in requested \ todo : Done(f)
        /\ \A f, g \in requested : <<f, g>> \in Before /\ g \notin todo => f \notin todo
        /\ \A f \in todo : status = "writing" => Untouched(f)
        /\ status = "browser" => todo = {"pdf"}
        /\ status = "ok" => todo = {}

(* Nothing is touched before the analysis is over or that is not asked for.*)
HandsOff ==
    /\ \A f \in Formats : f \notin requested => Untouched(f)
    /\ status = "analysing" => requested = {}
    /\ status = "error" => phase \in {"done", "failed"}

CliInv == ExportTypes /\ InOrder /\ HandsOff /\ ErrorLeavesPrefix

LEMMA CliInitInv == CliInit => CliInv
BY DEF CliInit, CliInv, ExportTypes, Statuses, Formats, InOrder, HandsOff, Untouched,
       ErrorLeavesPrefix, Init

(* The analysis ends for good, done or failed.                             *)
LEMMA AnalysisEnds == Next => phase \notin {"done", "failed"}
BY DEF Next, Reassemble, Building, SkipUnknown, BuildSession, ParserFails, StartAssessing,
       Assess, StartRisk, ApplyRisk, StartAnomaly, ApplyAnomaly, Return, Export

LEMMA AnalysisStep == CliInv /\ Analysis => CliInv'
<1> SUFFICES ASSUME CliInv, Analysis PROVE CliInv'
  OBVIOUS
<1>1. phase \notin {"done", "failed"} /\ UNCHANGED exports
  BY AnalysisEnds DEF Analysis
<1>2. status = "analysing"
  BY <1>1 DEF CliInv, ExportTypes, Statuses, InOrder, HandsOff
<1> QED
  BY <1>1, <1>2 DEF exports, CliInv, ExportTypes, InOrder, HandsOff, Untouched,
                    ErrorLeavesPrefix

LEMMA AnalysisFailsStep == CliInv /\ AnalysisFails => CliInv'
BY DEF AnalysisFails, vars, given, shown, CliInv, ExportTypes, Statuses, InOrder, HandsOff,
       Untouched, ErrorLeavesPrefix

LEMMA StartWritingStep == CliInv /\ StartWriting => CliInv'
<1> SUFFICES ASSUME CliInv, StartWriting PROVE CliInv'
  OBVIOUS
<1>1. \A f \in Formats : Untouched(f)
  BY DEF CliInv, HandsOff, StartWriting
<1>2. /\ todo' = requested' /\ requested' \subseteq Formats /\ phase' = "done"
      /\ status' \in {"writing", "error"} /\ files' = files /\ silent' = silent
  BY DEF StartWriting, vars
<1>3. \A f \in Formats : Untouched(f)'
  BY <1>1, <1>2 DEF Untouched
<1>4. ExportTypes' /\ InOrder'
  BY <1>2, <1>3 DEF CliInv, ExportTypes, Statuses, InOrder
<1>5. HandsOff' /\ ErrorLeavesPrefix'
  BY <1>2, <1>3 DEF HandsOff, ErrorLeavesPrefix
<1> QED
  BY <1>4, <1>5 DEF CliInv

(* Writing(f) comes when everything before f is done.                      *)
LEMMA NextInOrder ==
    ASSUME CliInv, NEW f \in Formats, Writing(f)
    PROVE  /\ f \in requested /\ phase = "done" /\ Untouched(f)
           /\ \A g \in requested : <<g, f>> \in Before => g \notin todo
           /\ f = "pdf" => todo = {"pdf"}
<1>1. f \in requested /\ phase = "done" /\ Untouched(f) /\ todo \subseteq Formats
  BY DEF CliInv, ExportTypes, InOrder, Writing
<1>2. \A g \in Formats : <<g, f>> \in Before => ~(WritingOrder[f] <= WritingOrder[g])
  BY DEF Formats, Before, WritingOrder
<1>3. \A g \in requested : <<g, f>> \in Before => g \notin todo
  BY <1>1, <1>2 DEF Writing
<1>4. ASSUME f = "pdf" PROVE todo = {"pdf"}
  <2>1. \A g \in Formats \ {"pdf"} : ~(WritingOrder["pdf"] <= WritingOrder[g])
    BY DEF Formats, WritingOrder
  <2> QED
    BY <1>1, <1>4, <2>1 DEF Writing
<1> QED
  BY <1>1, <1>3, <1>4

(* A report is written whole.                                              *)
LEMMA WrittenStep ==
    ASSUME CliInv, NEW f \in Formats, Written(f),
           Writing(f) \/ (status = "browser" /\ f = "pdf"),
           files' \in [Formats -> {"none", "earlier", "this", "partial"}],
           \A g \in Formats \ {f} : files'[g] = files[g],
           silent' \in BOOLEAN, silent => silent', Done(f)'
    PROVE  CliInv'
<1> USE DEF CliInv
<1>1. /\ status' = "writing" /\ todo' = todo \ {f} /\ requested' = requested
      /\ phase' = phase
  BY DEF Written, vars
<1>2. /\ f \in requested /\ f \in todo /\ phase = "done"
      /\ \A g \in requested : <<g, f>> \in Before => g \notin todo
  <2>1. CASE Writing(f)
    BY <2>1, NextInOrder DEF Writing
  <2>2. CASE status = "browser" /\ f = "pdf"
    BY <2>2 DEF InOrder, ExportTypes, Before
  <2> QED
    BY <2>1, <2>2
<1>3. status \in {"writing", "browser"}
  BY DEF Writing
<1>4. ExportTypes'
  BY <1>1 DEF ExportTypes, Statuses
<1>5. \A g \in Formats \ {f} : Untouched(g)' <=> Untouched(g)
  BY DEF Untouched
<1>6. InOrder'
  <2>1. \A g \in requested \ todo : Done(g)'
    <3> SUFFICES ASSUME NEW g \in requested \ todo PROVE Done(g)'
      OBVIOUS
    <3>1. g \in Formats \ {f} /\ Done(g)
      BY <1>2, <1>3 DEF ExportTypes, InOrder
    <3> QED
      BY <3>1 DEF Done
  <2>2. \A g, h \in requested : <<g, h>> \in Before /\ h \notin todo' => g \notin todo'
    BY <1>1, <1>2, <1>3 DEF InOrder
  <2>3. \A g \in todo' : Untouched(g)'
    <3> SUFFICES ASSUME NEW g \in todo' PROVE Untouched(g)'
      OBVIOUS
    <3>1. g \in Formats \ {f} /\ g \in todo
      BY <1>1 DEF ExportTypes
    <3>2. status = "writing"
      BY <1>3, <3>1 DEF InOrder, Writing
    <3> QED
      BY <1>5, <3>1, <3>2 DEF InOrder
  <2> QED
    BY <1>1, <1>2, <2>1, <2>2, <2>3 DEF InOrder
<1>7. HandsOff' /\ ErrorLeavesPrefix'
  BY <1>1, <1>2, <1>3, <1>5 DEF HandsOff, ErrorLeavesPrefix
<1> QED
  BY <1>4, <1>6, <1>7

(* A writer fails for good: at most its own file is spoiled.               *)
LEMMA RaiseStep ==
    ASSUME CliInv, NEW f \in Formats, Raise,
           Writing(f) \/ (status = "browser" /\ f = "pdf"),
           files' \in [Formats -> {"none", "earlier", "this", "partial"}],
           \A g \in Formats \ {f} : files'[g] = files[g],
           silent' \in BOOLEAN
    PROVE  CliInv'
<1> USE DEF CliInv
<1>1. /\ status' = "error" /\ todo' = todo /\ requested' = requested /\ phase' = phase
  BY DEF Raise, vars
<1>2. /\ f \in requested /\ f \in todo /\ phase = "done"
      /\ \A g \in requested : <<g, f>> \in Before => g \notin todo
  <2>1. CASE Writing(f)
    BY <2>1, NextInOrder DEF Writing
  <2>2. CASE status = "browser" /\ f = "pdf"
    BY <2>2 DEF InOrder, ExportTypes, Before
  <2> QED
    BY <2>1, <2>2
<1>3. status \in {"writing", "browser"}
  BY DEF Writing
<1>4. ExportTypes' /\ InOrder'
  BY <1>1 DEF ExportTypes, Statuses, InOrder
<1>5. HandsOff'
  BY <1>1, <1>2, <1>3 DEF HandsOff, Untouched
<1>6. ErrorLeavesPrefix'
  <2> SUFFICES ASSUME NEW g \in requested, NEW h \in requested, <<g, h>> \in Before,
                      ~Untouched(h)'
               PROVE  files'[g] = "this"
    BY <1>1, <1>2, <1>5 DEF HandsOff, ErrorLeavesPrefix
  <2>1. g \in Formats /\ h \in Formats /\ g # "pdf" /\ g # h
    BY DEF ExportTypes, Before
  <2>2. g \notin todo
    <3>1. CASE h = f
      BY <1>2, <3>1
    <3>2. CASE h # f
      <4>1. ~Untouched(h)
        BY <2>1, <3>2 DEF Untouched
      <4>2. h \notin todo
        <5>1. CASE Writing(f)
          BY <4>1, <5>1 DEF InOrder, Writing
        <5>2. CASE status = "browser" /\ f = "pdf"
          BY <3>2, <5>2 DEF InOrder
        <5> QED
          BY <5>1, <5>2
      <4> QED
        BY <1>3, <4>2 DEF InOrder
    <3> QED
      BY <3>1, <3>2
  <2>3. g # f /\ files[g] = "this"
    BY <1>2, <1>3, <2>1, <2>2 DEF InOrder, Done
  <2> QED
    BY <2>1, <2>3
<1> QED
  BY <1>4, <1>5, <1>6

(* What LeaveFile leaves.                                                  *)
LEMMA Left ==
    ASSUME ExportTypes, NEW f \in Formats, LeaveFile(f)
    PROVE  /\ files' \in [Formats -> {"none", "earlier", "this", "partial"}]
           /\ \A g \in Formats \ {f} : files'[g] = files[g]
BY DEF ExportTypes, LeaveFile

(* What a writer that succeeds leaves.                                     *)
LEMMA Put ==
    ASSUME ExportTypes, NEW f \in Formats, files' = [files EXCEPT ![f] = "this"]
    PROVE  /\ files' \in [Formats -> {"none", "earlier", "this", "partial"}]
           /\ \A g \in Formats \ {f} : files'[g] = files[g]
           /\ Done(f)'
BY DEF ExportTypes, Done

LEMMA WriteTextStep ==
    ASSUME CliInv, NEW f \in Formats, WriteText(f)
    PROVE  CliInv'
<1>1. Writing(f) /\ silent' = silent /\ silent \in BOOLEAN /\ ExportTypes
  BY DEF WriteText, CliInv, ExportTypes
<1>2. CASE files' = [files EXCEPT ![f] = "this"] /\ Written(f)
  BY <1>1, <1>2, Put, WrittenStep
<1>3. CASE LeaveFile(f) /\ Raise
  BY <1>1, <1>3, Left, RaiseStep
<1> QED
  BY <1>2, <1>3 DEF WriteText

LEMMA WeasyPrintStep == CliInv /\ WeasyPrint => CliInv'
<1> SUFFICES ASSUME CliInv, WeasyPrint PROVE CliInv'
  OBVIOUS
<1>1. /\ Writing("pdf") /\ silent' = silent /\ silent \in BOOLEAN /\ ExportTypes
      /\ "pdf" \in Formats
  BY DEF WeasyPrint, CliInv, ExportTypes, Formats
<1>2. CASE files' = [files EXCEPT !["pdf"] = "this"] /\ Written("pdf")
  BY <1>1, <1>2, Put, WrittenStep
<1>3. CASE LeaveFile("pdf") /\ Raise
  BY <1>1, <1>3, Left, RaiseStep
<1>4. CASE LeaveFile("pdf") /\ status' = "browser" /\ UNCHANGED <<vars, requested, todo>>
  <2>1. /\ files' \in [Formats -> {"none", "earlier", "this", "partial"}]
        /\ \A g \in Formats \ {"pdf"} : files'[g] = files[g]
    BY <1>1, <1>4, Left
  <2>2. todo = {"pdf"} /\ "pdf" \in requested /\ phase = "done" /\ status = "writing"
    BY <1>1, NextInOrder DEF Writing
  <2>3. phase' = phase /\ requested' = requested /\ todo' = todo /\ status' = "browser"
    BY <1>4 DEF vars
  <2>4. ExportTypes'
    BY <1>1, <2>1, <2>3 DEF ExportTypes, Statuses
  <2>5. InOrder'
    <3>1. \A f \in requested \ todo : Done(f)'
      BY <1>1, <2>1, <2>2 DEF CliInv, ExportTypes, InOrder, Done
    <3>2. \A f, g \in requested : <<f, g>> \in Before /\ g \notin todo => f \notin todo
      BY <2>2 DEF CliInv, InOrder
    <3> QED
      BY <2>2, <2>3, <3>1, <3>2 DEF InOrder
  <2>6. HandsOff'
    BY <1>1, <2>1, <2>2, <2>3 DEF CliInv, HandsOff, Untouched
  <2>7. ErrorLeavesPrefix'
    BY <2>3 DEF ErrorLeavesPrefix
  <2> QED
    BY <2>4, <2>5, <2>6, <2>7 DEF CliInv
<1> QED
  BY <1>2, <1>3, <1>4 DEF WeasyPrint

LEMMA BrowserStep == CliInv /\ Browser => CliInv'
<1> SUFFICES ASSUME CliInv, Browser PROVE CliInv'
  OBVIOUS
<1>1. /\ status = "browser" /\ silent \in BOOLEAN /\ ExportTypes /\ "pdf" \in Formats
      /\ files \in [Formats -> {"none", "earlier", "this", "partial"}]
  BY DEF Browser, CliInv, ExportTypes, Formats
<1>2. CASE UNCHANGED <<files, silent>> /\ Raise
  BY <1>1, <1>2, RaiseStep
<1>3. ASSUME \/ files' = [files EXCEPT !["pdf"] = "this"] /\ UNCHANGED silent
             \/ LeaveFile("pdf") /\ silent' = TRUE,
             NEW returned \in {0, 1},
             IF PdfAccepted(returned) THEN Written("pdf") ELSE Raise
      PROVE  CliInv'
  <2>1. /\ files' \in [Formats -> {"none", "earlier", "this", "partial"}]
        /\ \A g \in Formats \ {"pdf"} : files'[g] = files[g]
        /\ silent' \in BOOLEAN /\ (silent => silent')
    <3>1. CASE files' = [files EXCEPT !["pdf"] = "this"] /\ silent' = silent
      BY <1>1, <3>1, Put
    <3>2. CASE LeaveFile("pdf") /\ silent' = TRUE
      BY <1>1, <3>2, Left
    <3> QED
      BY <1>3, <3>1, <3>2
  <2>2. CASE Raise
    BY <1>1, <2>1, <2>2, RaiseStep
  <2>3. CASE PdfAccepted(returned) /\ Written("pdf")
    <3>1. Done("pdf")'
      BY <1>1, <1>3, <2>3 DEF Done, PdfAccepted
    <3> QED
      BY <1>1, <2>1, <2>3, <3>1, WrittenStep
  <2> QED
    BY <1>3, <2>2, <2>3
<1> QED
  BY <1>2, <1>3 DEF Browser

LEMMA ExitStep == CliInv /\ Exit => CliInv'
BY DEF Exit, vars, CliInv, ExportTypes, Statuses, InOrder, HandsOff, Untouched, Done,
       ErrorLeavesPrefix

LEMMA CliStep == CliInv /\ [CliNext]_cliVars => CliInv'
<1> SUFFICES ASSUME CliInv, [CliNext]_cliVars PROVE CliInv'
  OBVIOUS
<1>1. CASE UNCHANGED cliVars
  BY <1>1 DEF cliVars, exports, vars, CliInv, ExportTypes, InOrder, HandsOff, Untouched,
              Done, ErrorLeavesPrefix
<1>2. CASE CliNext
  BY <1>2, AnalysisStep, AnalysisFailsStep, StartWritingStep, WriteTextStep,
     WeasyPrintStep, BrowserStep, ExitStep DEF CliNext
<1> QED
  BY <1>1, <1>2

(* A run that ends well has written every report that was asked for, but   *)
(* for a browser that reports success and prints nothing.                  *)
THEOREM SuccessWrites == CliSpec => []OkMeansWritten
<1>1. CliInv => OkMeansWritten
  BY DEF CliInv, InOrder, Done, OkMeansWritten
<1> QED
  BY CliInitInv, CliStep, <1>1, PTL DEF CliSpec

(* A run that ends in an error spoils at most the report it came to.       *)
THEOREM FailureSpoilsOne == CliSpec => []ErrorLeavesPrefix
<1>1. CliInv => ErrorLeavesPrefix
  BY DEF CliInv
<1> QED
  BY CliInitInv, CliStep, <1>1, PTL DEF CliSpec
===============================================================================

------------------------------ MODULE AnalysisRun ------------------------------
(***************************************************************************)
(* One run of pipeline.analyze over a capture and the presentation of its  *)
(* result: the sessions are built from the reassembled streams one by one, *)
(* assessed by the rules, enriched by the two optional models, and ordered *)
(* for the reports and for the dashboard.                                  *)
(*                                                                         *)
(* A stream is the record of what the stages before conclude of it:        *)
(*   banner, port   the protocol each of them identifies, or "UNKNOWN";    *)
(*   implicit       the port is one of the implicit TLS ports;             *)
(*   starttls       the result of the STARTTLS detector;                   *)
(*   messages       its TLS messages, as the handshake parser sees them;   *)
(*   complete       is_complete of the reassembled stream.                 *)
(***************************************************************************)
EXTENDS FeatureExtraction

CONSTANTS Streams,      \* the streams a capture may hold
          MaxStreams,   \* bound on the streams of a capture
          RiskClasses   \* what the risk model may predict

ASSUME RunAssumption == MaxStreams \in Nat

(* The fields of a stream, its TLS messages as HandshakeParser has them.    *)
ASSUME StreamAssumption ==
    \A s \in Streams :
        LET sent == s.messages.certificates
        IN  /\ s.implicit \in BOOLEAN
            /\ s.starttls.clienthello \in BOOLEAN
            /\ s.messages.client_hellos \in Nat
            /\ sent \in Seq(Range(sent))
            /\ \A m \in DOMAIN sent : /\ sent[m].sender \in {"client", "server"}
                                     /\ sent[m].chain \in Seq(Range(sent[m].chain))

VARIABLES capture,      \* the reassembled streams, in the order of their ids
          riskModel, anomalyModel,   \* "none", "readable" or "broken"
          phase,        \* "listing", "building", "assessing", "risk",
                        \* "anomaly", "exporting", "done" or "failed"
          k,            \* the position of the loop of the phase
          sessions,
          report,       \* the order of the JSON and the HTML report
          dashboard     \* the order of the tables of the dashboard

given == <<capture, riskModel, anomalyModel>>
shown == <<report, dashboard>>
vars  == <<given, phase, k, sessions, shown>>

Init == /\ capture \in UNION {[1..n -> Streams] : n \in 0..MaxStreams}
        /\ riskModel \in {"none", "readable", "broken"}
        /\ anomalyModel \in {"none", "readable", "broken"}
        /\ phase = "listing"
        /\ k = 1
        /\ sessions = <<>>
        /\ report = <<>> /\ dashboard = <<>>

-----------------------------------------------------------------------------
(* Variant of Identify: the banner is not used.                            *)
IdentifyByPort(s) == s.port

(* identify_protocol: a banner that is recognised beats the port.          *)
Identify(s) == IF s.banner # "UNKNOWN" THEN s.banner ELSE s.port

(* Variant of WithChainStatus: the chain is not validated.                 *)
Unvalidated(tls) == tls

(* _populate_certificate_chain_status *)
WithChainStatus(tls) ==
    IF tls = NoTls THEN tls
    ELSE LET certs == tls.certificates
             valid == ValidateChain([c \in DOMAIN certs |-> certs[c].x509])
         IN  [tls EXCEPT !.certificates =
                 [c \in DOMAIN certs |->
                     [certs[c] EXCEPT !.chain_valid = IF valid THEN "valid"
                                                               ELSE "broken"]]]

(* None is no TLS session.                                                 *)
ASSUME NoneAssumption ==
    \A s \in Streams :
        s.messages.client_hellos # 0 /\ s.messages.server_hellos # <<>> =>
            NoTls \notin {Parse(s.messages), WithChainStatus(Parse(s.messages))}

ParserCalled(s) ==
    s.implicit \/ (s.starttls.server_accepted = "yes" /\ s.starttls.clienthello)

NewSession(id, s) ==
    [id |-> id,
     facts |-> Session(s.implicit, s.starttls,
                       WithChainStatus(Parse(s.messages)), s.complete),
     findings |-> <<>>, risk_score |-> 0,
     ml_risk_class |-> "none", anomalous |-> FALSE]

-----------------------------------------------------------------------------
(* The capture is reassembled, or tshark fails and so does the analysis.   *)
Reassemble == /\ phase = "listing"
              /\ phase' \in {"building", "failed"}
              /\ UNCHANGED <<given, k, sessions, shown>>

Building == phase = "building" /\ k <= Len(capture)

SkipUnknown == /\ Building
               /\ Identify(capture[k]) = "UNKNOWN"
               /\ k' = k + 1
               /\ UNCHANGED <<given, phase, sessions, shown>>

BuildSession == /\ Building
                /\ Identify(capture[k]) # "UNKNOWN"
                /\ sessions' = Append(sessions, NewSession(k, capture[k]))
                /\ k' = k + 1
                /\ UNCHANGED <<given, phase, shown>>

(* A tshark call of the handshake parser fails: no exception is caught.    *)
ParserFails == /\ Building
               /\ Identify(capture[k]) # "UNKNOWN"
               /\ ParserCalled(capture[k])
               /\ phase' = "failed"
               /\ UNCHANGED <<given, k, sessions, shown>>

StartAssessing == /\ phase = "building"
                  /\ k > Len(capture)
                  /\ phase' = "assessing"
                  /\ k' = 1
                  /\ UNCHANGED <<given, sessions, shown>>

(* assess_session *)
Assess == /\ phase = "assessing"
          /\ k <= Len(sessions)
          /\ LET found == Findings(sessions[k].facts)
             IN  sessions' = [sessions EXCEPT ![k].findings = found,
                                              ![k].risk_score = Score(found)]
          /\ k' = k + 1
          /\ UNCHANGED <<given, phase, shown>>

(* apply_ml, which does not even load a model when there is no session.    *)
StartRisk == /\ phase = "assessing"
             /\ k > Len(sessions)
             /\ phase' = IF sessions # <<>> /\ riskModel = "broken"
                         THEN "failed" ELSE "risk"
             /\ k' = IF riskModel = "readable" THEN 1 ELSE k
             /\ UNCHANGED <<given, sessions, shown>>

RiskFinding == [id |-> "ML-RISK-001", severity |-> "INFO"]

ApplyRisk == /\ phase = "risk"
             /\ k <= Len(sessions)
             /\ \E class \in RiskClasses :
                    sessions' = [sessions EXCEPT
                                     ![k].ml_risk_class = class,
                                     ![k].findings = Append(@, RiskFinding)]
             /\ k' = k + 1
             /\ UNCHANGED <<given, phase, shown>>

(* detector.load, after the risk findings are attached.                    *)
StartAnomaly == /\ phase = "risk"
                /\ k > Len(sessions)
                /\ phase' = IF sessions # <<>> /\ anomalyModel = "broken"
                            THEN "failed" ELSE "anomaly"
                /\ k' = IF anomalyModel = "readable" THEN 1 ELSE k
                /\ UNCHANGED <<given, sessions, shown>>

(* Variant of AnomalyFinding.                                              *)
SevereAnomaly == [id |-> "ML-ANOMALY-001", severity |-> "HIGH"]
AnomalyFinding == [id |-> "ML-ANOMALY-001", severity |-> "LOW"]

(* Variants of Flagged: the score follows, the other findings are lost.    *)
Rescored(s) == [s EXCEPT !.findings = Append(@, AnomalyFinding),
                         !.risk_score = Score(Append(s.findings, AnomalyFinding)),
                         !.anomalous = TRUE]
Replaced(s) == [s EXCEPT !.findings = <<AnomalyFinding>>, !.anomalous = TRUE]

Flagged(s) == [s EXCEPT !.findings = Append(@, AnomalyFinding), !.anomalous = TRUE]

ApplyAnomaly == /\ phase = "anomaly"
                /\ k <= Len(sessions)
                /\ \E flagged \in BOOLEAN :
                       sessions' = IF flagged
                                   THEN [sessions EXCEPT ![k] = Flagged(@)]
                                   ELSE sessions
                /\ k' = k + 1
                /\ UNCHANGED <<given, phase, shown>>

Return == /\ phase = "anomaly"
          /\ k > Len(sessions)
          /\ phase' = "exporting"
          /\ UNCHANGED <<given, k, sessions, shown>>

-----------------------------------------------------------------------------
(* The sort keys; the ids of an instance compare as their strings do.      *)
SeverityRank(s) ==
    LET v == OverallSeverity(s.findings)
    IN  CHOOSE r \in DOMAIN SeverityOrder : SeverityOrder[r] = v

ReportBefore(a, b) == \/ a.risk_score > b.risk_score
                      \/ a.risk_score = b.risk_score /\ a.id < b.id

DashboardBefore(a, b) ==
    \/ SeverityRank(a) < SeverityRank(b)
    \/ SeverityRank(a) = SeverityRank(b) /\ a.risk_score > b.risk_score
    \/ SeverityRank(a) = SeverityRank(b) /\ a.risk_score = b.risk_score /\ a.id > b.id

(* What sorted() may return: the sessions in some order, none of them      *)
(* after one that the key puts later.                                      *)
Arrangements == {[n \in DOMAIN sessions |-> sessions[p[n]]] :
                     p \in Bijection(DOMAIN sessions, DOMAIN sessions)}

Sorted(list, Earlier(_, _)) ==
    \A m, n \in DOMAIN list : m < n => ~Earlier(list[n], list[m])

Export == /\ phase = "exporting"
          /\ report' \in Arrangements /\ Sorted(report', ReportBefore)
          /\ dashboard' \in Arrangements /\ Sorted(dashboard', DashboardBefore)
          /\ phase' = "done"
          /\ UNCHANGED <<given, k, sessions>>

Next == \/ Reassemble \/ SkipUnknown \/ BuildSession \/ ParserFails
        \/ StartAssessing \/ Assess \/ StartRisk \/ ApplyRisk
        \/ StartAnomaly \/ ApplyAnomaly \/ Return \/ Export

Spec == Init /\ [][Next]_vars

-----------------------------------------------------------------------------
MlFindings == {"ML-RISK-001", "ML-ANOMALY-001"}
RuleFindings(s) ==
    Picked(s.findings, {n \in DOMAIN s.findings : s.findings[n].id \notin MlFindings})
Assessed(i) == phase \notin {"listing", "building"} /\ (phase = "assessing" => i < k)

(* Every stream that its banner or its port names a mail stream is in the  *)
(* reports exactly once, whatever the order (build_sessions_from_pcap,     *)
(* identify_protocol and the sorts of the reports).                        *)
EveryMailStreamReported ==
    phase = "done" =>
        /\ {report[i].id : i \in DOMAIN report} =
               {i \in DOMAIN capture : capture[i].banner # "UNKNOWN"
                                       \/ capture[i].port # "UNKNOWN"}
        /\ \A i, j \in DOMAIN report : i # j => report[i].id # report[j].id

(* The models never move the score: it is that of the rule findings, a     *)
(* number of 0 to 100, also when a model adds a finding that carries a     *)
(* penalty ("deterministic findings remain the scoring source of truth",   *)
(* pipeline.py) or the penalties add up to more (scorer.py).               *)
ScoreFromRules ==
    \A i \in DOMAIN sessions :
        Assessed(i) /\ phase # "failed" =>
            /\ sessions[i].risk_score = Score(RuleFindings(sessions[i]))
            /\ sessions[i].risk_score \in 0..100

(* And they move the headline at most from INFO to LOW: no session is      *)
(* presented as severe on the word of a model alone (apply_ml and          *)
(* overall_severity).                                                      *)
HeadlineFromRules ==
    \A i \in DOMAIN sessions :
        Assessed(i) /\ phase # "failed" =>
            LET byRules == OverallSeverity(RuleFindings(sessions[i]))
                all     == OverallSeverity(sessions[i].findings)
            IN  all = byRules \/ (byRules = "INFO" /\ all = "LOW")

Found(s, id) == \E n \in DOMAIN s.findings : s.findings[n].id = id

(* A session without TLS details says exactly one thing about them: that   *)
(* the capture cannot tell (CRYPTO-000), that there was no encryption      *)
(* (CRYPTO-001), or, in one note, that TLS was attempted; one with details *)
(* says nothing. The notes are taken by three branches of pipeline.py, the *)
(* findings by rules.py.                                                   *)
AbsenceExplainedOnce ==
    \A i \in DOMAIN sessions :
        Assessed(i) /\ phase # "failed" =>
            LET found == {f \in {"CRYPTO-000", "CRYPTO-001"} : Found(sessions[i], f)}
                said  == Cardinality(found) + Len(sessions[i].facts.analysis_notes)
            IN  said = IF HasTls(sessions[i].facts) THEN 0 ELSE 1

(* The certificates of the messages a peer sent that can be parsed.        *)
Presented(messages, peers) ==
    LET sent[n \in 0..Len(messages)] ==
            IF n = 0 THEN <<>>
            ELSE sent[n - 1] \o (IF messages[n].sender \in peers
                                 THEN messages[n].chain ELSE <<>>)
    IN  Parseable(sent[Len(messages)])

(* Where one peer presents certificates in the clear, the finding is given *)
(* exactly if one of them is not signed by the next, or a self-issued last *)
(* one not by itself: the status is set on every certificate before the    *)
(* rules look at it, and a handshake of TLS 1.3 or without an answer       *)
(* leaves nothing to judge.                                                *)
ChainVerdict ==
    \A i \in DOMAIN sessions :
        LET s     == capture[sessions[i].id]
            chain == Presented(s.messages.certificates, {"client", "server"})
            hello == s.messages.server_hellos
            Signs(a, b) == a.subject = b.issuer /\ VerifySignature(b, a)
            senders == {m \in DOMAIN s.messages.certificates :
                            s.messages.certificates[m].chain # <<>>}
        IN  Assessed(i) /\ phase # "failed" /\ (\A m, n \in senders : m = n) =>
                (Found(sessions[i], "CRYPTO-009")
                    <=> /\ ParserCalled(s) /\ s.messages.client_hellos > 0
                        /\ hello # <<>> /\ NegotiatedVersion(hello[1]) # "TLSv1.3"
                        /\ \E c \in DOMAIN chain :
                               IF c < Len(chain) THEN ~Signs(chain[c + 1], chain[c])
                               ELSE IsSelfSigned(chain[c]) /\ ~Signs(chain[c], chain[c]))

(* The certificates a session shows are those the server presented (the    *)
(* extractor reads "each certificate's DER bytes as hex, in the order      *)
(* presented (leaf first, then any intermediates)").                       *)
ServerChainReported ==
    \A i \in DOMAIN sessions :
        LET tls == sessions[i].facts.tls_session
        IN  tls # NoTls /\ tls.tls_version # "TLSv1.3" =>
                [c \in DOMAIN tls.certificates |-> tls.certificates[c].x509]
                    = Presented(capture[sessions[i].id].messages.certificates,
                                {"server"})

(* What the models see decides what these five rules find: sessions the    *)
(* features cannot tell apart have the same of these findings, so labels   *)
(* that rest on them can be learned. The other rules read what is in no    *)
(* feature ("keep this in sync with anything new added to                  *)
(* risk_engine/rules.py", feature_extraction.py).                          *)
FeaturesFollowRules ==
    \A i, j \in DOMAIN sessions :
        /\ Assessed(i) /\ Assessed(j) /\ phase # "failed"
        /\ Features(sessions[i].facts) = Features(sessions[j].facts)
        => \A id \in {"CRYPTO-002", "CRYPTO-003", "CRYPTO-004", "CRYPTO-005",
                       "CRYPTO-006"} :
               Found(sessions[i], id) <=> Found(sessions[j], id)

(* Once a session is assessed its findings only grow: no model withdraws   *)
(* or reorders what a rule found.                                          *)
FindingsOnlyGrow ==
    [][\A i \in DOMAIN sessions : Assessed(i) =>
           IsPrefix(sessions[i].findings, sessions'[i].findings)]_vars

(* "Reports and the dashboard [...] present the highest-risk sessions      *)
(* first" (architecture.md), where a lower score is worse; the dashboard   *)
(* ranks by severity first.                                                *)
HighestRiskFirst ==
    /\ \A i, j \in DOMAIN report :
           i < j => report[i].risk_score <= report[j].risk_score
    /\ \A i, j \in DOMAIN dashboard :
           i < j /\ SeverityRank(dashboard[i]) = SeverityRank(dashboard[j])
               => dashboard[i].risk_score <= dashboard[j].risk_score
===============================================================================

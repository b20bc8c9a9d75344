----------------------------- MODULE MailDialogue -----------------------------
(***************************************************************************)
(* A mail client and server that may negotiate STARTTLS (STLS in POP3), a  *)
(* capture of the dialogue that may start late and may end at any moment,  *)
(* and what the detector, the session builder and the rules say of it.     *)
(*                                                                         *)
(* The peers are external to the program; their lines are those the        *)
(* detector can tell apart.  The verdict is evaluated in every state: each *)
(* is one in which the capture may end.                                    *)
(***************************************************************************)
EXTENDS StartTlsDetector, SessionRules

CONSTANTS Spoken,        \* the protocols of the instance
          Tags,          \* tags of an IMAP client, a sequence
          GreetingWords, \* word sets of a greeting, per protocol
          AcceptWords,   \* word sets of a positive answer, per protocol
          RefuseWords,   \* word sets of a negative answer
          CapaWords,     \* word sets of the first line of a POP3 CAPA reply
          ReplyWords,    \* word sets of replies to other commands, per protocol
          TextKinds,     \* kinds of text lines a client may send
          MaxAsks,       \* bound on the STARTTLS commands, per protocol
          MaxTexts,      \* bound on the text lines
          MaxReplies,    \* bound on the replies to other commands
          Tls            \* what the parser returns for a whole handshake

ASSUME DialogueAssumption == /\ Spoken \subseteq Protocols
                             /\ MaxAsks \in [Spoken -> 0..Len(Tags)]
                             /\ MaxTexts \in Nat /\ MaxReplies \in Nat
                             /\ TextKinds \subseteq {"ends", "starts", "second",
                                                     "inside", "other"}
                             /\ Tls # NoTls

(* The tags of the STARTTLS commands are told from the marks of untagged   *)
(* lines and from the tags of other commands.  Of the wordings nothing is  *)
(* assumed: RFC 3207, 3501 and 2449 leave them to the server.              *)
ASSUME TagAssumption == /\ Tags \in Seq(Range(Tags))
                        /\ Range(Tags) \cap {NoTag, "*", "other"} = {}

VARIABLES protocol,
          state,      \* "connecting", "plain", "asked", "agreed", "tls", "closed"
          capturing, fromStart,
          client, server,        \* the captured lines of both directions
          advertised,            \* the client asked for the extensions
          offerCaptured,         \* "no", "bare" or "named": the server's offer
                                 \* as captured, "bare" in a list without CAPA
          asks, texts, replies,
          accepted,              \* "no", "known" or "unknown": the server agreed
                                 \* to TLS, in words the detector looks for or not
          refusals,              \* word sets of the captured refusals
          misled,                \* another captured line reads like an acceptance
          handshake              \* "none", "hello", "whole": TLS as captured

fixed  == <<protocol, fromStart>>
offer  == <<advertised, offerCaptured>>
counts == <<asks, texts, replies>>
vars   == <<fixed, state, capturing, client, server, offer, counts, accepted,
            refusals, misled, handshake>>

Init == /\ protocol \in Spoken
        /\ state = "connecting"
        /\ capturing \in BOOLEAN
        /\ fromStart = capturing
        /\ client = <<>> /\ server = <<>>
        /\ advertised = FALSE /\ offerCaptured = "no"
        /\ asks = 0 /\ texts = 0 /\ replies = 0
        /\ accepted = "no"
        /\ refusals = <<>>
        /\ misled = FALSE
        /\ handshake = "none"

-----------------------------------------------------------------------------
Line(head, status, words) == [head |-> head, status |-> status, words |-> words]

(* The words by which the detector knows an agreement.                     *)
Known(words) == CASE protocol = "SMTP" -> words \cap SmtpAcceptance # {}
                  [] protocol = "IMAP" -> words \cap ImapAcceptance # {}
                  [] protocol = "POP3" -> "BEGIN_TLS" \in words

(* A positive line of SMTP or POP3 with such words: nothing else in it     *)
(* tells what it answers.                                                  *)
Misleading(line) == line.head \in {"220", "+OK"} /\ Known(line.words)

ClientSays(kind, tag) ==
    client' = IF capturing THEN Append(client, [kind |-> kind, tag |-> tag])
                           ELSE client

ServerSays(lines) == server' = IF capturing THEN server \o lines ELSE server

(* What the server says of something else than the STARTTLS command.       *)
ServerRemarks(lines) ==
    /\ ServerSays(lines)
    /\ misled' = (misled \/ (capturing /\ \E k \in DOMAIN lines : Misleading(lines[k])))

(* The offer stays captured however the list is answered later.            *)
OfferSeen(offered, form) ==
    offerCaptured' = IF offered /\ capturing THEN form ELSE offerCaptured

StartCapture == /\ ~capturing
                /\ capturing' = TRUE
                /\ UNCHANGED <<fixed, state, client, server, offer, counts,
                               accepted, refusals, misled, handshake>>

(* The greeting; an IMAP server may list its extensions in it.             *)
Greeting(words) ==
    CASE protocol = "SMTP" -> Line("220", "none", words)
      [] protocol = "IMAP" -> Line("*", "OK", words)
      [] protocol = "POP3" -> Line("+OK", "none", words)

Greet == /\ state = "connecting"
         /\ state' = "plain"
         /\ \E w \in GreetingWords[protocol] :
                /\ ServerRemarks(<<Greeting(w)>>)
                /\ OfferSeen(protocol = "IMAP" /\ {"CAPABILITY", "STARTTLS"} \subseteq w,
                             "named")
         /\ UNCHANGED <<fixed, capturing, client, advertised, counts, accepted,
                        refusals, handshake>>

(* The server lists its extensions when asked, STARTTLS among them or not; *)
(* words are those of the first line of a POP3 list.                       *)
Capabilities(offered, words) ==
    CASE protocol = "SMTP" ->
             <<Line("250", "none", IF offered THEN {"STARTTLS", "TLS"} ELSE {})>>
      [] protocol = "IMAP" ->
             <<Line("*", "CAPABILITY",
                    {"CAPABILITY"} \cup (IF offered THEN {"STARTTLS", "TLS"} ELSE {}))>>
      [] protocol = "POP3" ->
             <<Line("+OK", "none", words)>>
                 \o (IF offered THEN <<Line("STLS", "none", {})>> ELSE <<>>)
                 \o <<Line(".", "none", {})>>

Advertise == /\ state = "plain"
             /\ ~advertised
             /\ advertised' = TRUE
             /\ \E offered \in BOOLEAN :
                \E w \in IF protocol = "POP3" THEN CapaWords ELSE {{}} :
                    /\ ServerRemarks(Capabilities(offered, w))
                    /\ OfferSeen(offered, IF protocol = "POP3" /\ "CAPA" \notin w
                                          THEN "bare" ELSE "named")
             /\ UNCHANGED <<fixed, state, capturing, client, counts, accepted,
                            refusals, handshake>>

(* The reply to another command, also one sent just before STARTTLS: in    *)
(* SMTP a refusal (its other replies decide nothing), in IMAP an OK with a *)
(* tag of its own, in POP3 a positive line.                                *)
Remark(words) ==
    CASE protocol = "SMTP" -> Line("refusal", "none", words)
      [] protocol = "IMAP" -> Line("other", "OK", words)
      [] protocol = "POP3" -> Line("+OK", "none", words)

Reply == /\ state \in {"plain", "asked"}
         /\ replies < MaxReplies
         /\ replies' = replies + 1
         /\ \E w \in ReplyWords[protocol] : ServerRemarks(<<Remark(w)>>)
         /\ UNCHANGED <<fixed, state, capturing, client, offer, asks, texts,
                        accepted, refusals, handshake>>

(* A client may ask for TLS unasked, and again after a refusal; an IMAP or *)
(* POP3 client only before it has authenticated.                           *)
Ask == /\ state = "plain"
       /\ asks < MaxAsks[protocol]
       /\ protocol = "SMTP" \/ texts = 0
       /\ state' = "asked"
       /\ asks' = asks + 1
       /\ ClientSays("command", IF protocol = "IMAP" THEN Tags[asks + 1] ELSE NoTag)
       /\ UNCHANGED <<fixed, capturing, server, offer, texts, replies, accepted,
                      refusals, misled, handshake>>

Answer(positive, words) ==
    CASE protocol = "SMTP" ->
             Line(IF positive THEN "220" ELSE "refusal", "none", words)
      [] protocol = "IMAP" ->
             Line(Tags[asks], IF positive THEN "OK" ELSE "NO", words)
      [] protocol = "POP3" ->
             Line(IF positive THEN "+OK" ELSE "-ERR", "none", words)

Accept == /\ state = "asked"
          /\ state' = "agreed"
          /\ \E w \in AcceptWords[protocol] :
                 /\ ServerSays(<<Answer(TRUE, w)>>)
                 /\ accepted' = IF Known(w) THEN "known" ELSE "unknown"
          /\ UNCHANGED <<fixed, capturing, client, offer, counts, refusals,
                         misled, handshake>>

Refuse == /\ state = "asked"
          /\ state' = "plain"
          /\ \E w \in RefuseWords :
                 /\ ServerSays(<<Answer(FALSE, w)>>)
                 /\ refusals' = IF capturing THEN Append(refusals, w) ELSE refusals
          /\ UNCHANGED <<fixed, capturing, client, offer, counts, accepted,
                         misled, handshake>>

(* Mail text, an argument or a password that contains the word.            *)
SendText == /\ state = "plain"
            /\ texts < MaxTexts
            /\ texts' = texts + 1
            /\ \E kind \in TextKinds :
                   ClientSays(kind, IF kind \in {"ends", "second"} THEN "first_word"
                                                                  ELSE NoTag)
            /\ UNCHANGED <<fixed, state, capturing, server, offer, asks, replies,
                           accepted, refusals, misled, handshake>>

(* The client's first flight, of which the capture may hold only a part.   *)
Hello == /\ state = "agreed"
         /\ state' = "tls"
         /\ \E kind \in {"hello", "cut_hello"} :
                /\ ClientSays(kind, NoTag)
                /\ handshake' = IF capturing /\ kind = "hello" THEN "hello"
                                                               ELSE "none"
         /\ UNCHANGED <<fixed, capturing, server, offer, counts, accepted,
                        refusals, misled>>

(* The ServerHello: what follows is ciphertext without lines.              *)
ServerHello == /\ state = "tls"
               /\ handshake = "hello"
               /\ handshake' = "whole"
               /\ UNCHANGED <<fixed, state, capturing, client, server, offer,
                              counts, accepted, refusals, misled>>

Close == /\ state \notin {"connecting", "closed"}
         /\ state' = "closed"
         /\ UNCHANGED <<fixed, capturing, client, server, offer, counts,
                        accepted, refusals, misled, handshake>>

Next == \/ StartCapture \/ Greet \/ Advertise \/ Reply \/ Ask \/ Accept \/ Refuse
        \/ SendText \/ Hello \/ ServerHello \/ Close

Spec == Init /\ [][Next]_vars

-----------------------------------------------------------------------------
(* What the program makes of the capture so far.                           *)
Result == DetectStartTls(protocol, client, server)

(* handshake_observed and connection_closed, without packet loss.          *)
Complete == fromStart /\ state = "closed"

Parsed == IF handshake = "whole" THEN Tls ELSE NoTls

Verdict == Session(FALSE, Result, Parsed, Complete)

-----------------------------------------------------------------------------
(* An upgrade that was captured from its command to the ClientHello is     *)
(* recognised if the server agreed in words the detector looks for,        *)
(* whatever was refused, said or written before it ("Whether the capture   *)
(* shows an accepted upgrade followed by ClientHello").                    *)
UpgradeSeen == fromStart /\ accepted = "known" /\ handshake # "none" => TlsStarted(Result)

(* A server that did not agree to TLS is not reported to have agreed       *)
(* ("Check the terminal SMTP response associated with the STARTTLS         *)
(* command"): the acceptance suppresses the plaintext finding.             *)
AcceptanceIsReal == Result.server_accepted = "yes" => accepted # "no"

(* Only a positive line that reads like an acceptance can make it untrue:  *)
(* no refusal, no list and no reply with another tag is taken for one, and *)
(* in IMAP, where the answer has the tag of the command, nothing at all.   *)
OnlyRemarksMislead == AcceptanceIsReal \/ (misled /\ protocol # "IMAP")

(* A refusal that names TLS is not overruled by anything said before it,   *)
(* such as a greeting that reads like an acceptance, nor by a list or a    *)
(* reply after it; in POP3, where refusals are not looked at, unless a     *)
(* positive line misleads.                                                 *)
RefusalStands ==
    /\ accepted = "no" /\ refusals # <<>> /\ "TLS" \in Last(refusals)
    /\ protocol = "POP3" => ~misled
    => Result.server_accepted # "yes"

(* The critical finding is only given to a dialogue captured from its      *)
(* opening to its close, in which the server did not agree to TLS in words *)
(* the detector looks for.                                                 *)
PlaintextVerdict ==
    HasFinding(Verdict, "CRYPTO-001") => Complete /\ accepted # "known"

(* In IMAP and POP3 the finding is given to every such dialogue, whatever  *)
(* was offered, refused or said in it, but for a misleading positive line  *)
(* of a POP3 server.                                                       *)
PlaintextExact ==
    protocol = "IMAP" \/ (protocol = "POP3" /\ ~misled) =>
        (HasFinding(Verdict, "CRYPTO-001") <=> Complete /\ accepted # "known")

(* The report of an unused offer is given only if an offer was captured,   *)
(* the dialogue was captured whole and no upgrade in words the detector    *)
(* looks for was; and it is given whenever no ClientHello followed an      *)
(* offer, unless a POP3 list does not name CAPA.                           *)
UnusedOfferReported ==
    /\ HasFinding(Verdict, "CRYPTO-007") =>
           Complete /\ offerCaptured # "no" /\ ~(accepted = "known" /\ handshake # "none")
    /\ Complete /\ offerCaptured = "named" /\ handshake = "none" =>
           HasFinding(Verdict, "CRYPTO-007")
================================================================================

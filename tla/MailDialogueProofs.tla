-------------------------- MODULE MailDialogueProofs --------------------------
(***************************************************************************)
(* Proofs about MailDialogue, for any wordings that the assumptions of the *)
(* module allow and any number of commands and of texts.                   *)
(***************************************************************************)
EXTENDS MailDialogue, OperatorLemmas

States == {"connecting", "plain", "asked", "agreed", "tls", "closed"}

(* The lines the peers may say.                                            *)
Heads == {"220", "250", "refusal", "*", "other", "+OK", "-ERR", ".", "STLS"} \cup Range(Tags)
Statuses == {"none", "OK", "NO", "CAPABILITY"}
FixedWords == {{}, {"STARTTLS", "TLS"}, {"CAPABILITY"}, {"CAPABILITY", "STARTTLS", "TLS"}}
WordsOf(words) == UNION {words[p] : p \in Spoken}
Wordings == WordsOf(AcceptWords) \cup WordsOf(GreetingWords) \cup WordsOf(ReplyWords)
                \cup RefuseWords \cup CapaWords \cup FixedWords
ServerLine == [head : Heads, status : Statuses, words : Wordings]
ClientLine == [kind : {"command", "hello", "cut_hello"} \cup TextKinds,
               tag : Range(Tags) \cup {NoTag, "first_word"}]

DialogueTypes ==
    /\ protocol \in Spoken /\ state \in States
    /\ capturing \in BOOLEAN /\ fromStart \in BOOLEAN
    /\ client \in Seq(ClientLine) /\ server \in Seq(ServerLine)
    /\ advertised \in BOOLEAN /\ offerCaptured \in {"no", "bare", "named"}
    /\ asks \in 0..MaxAsks[protocol] /\ texts \in Nat /\ replies \in Nat
    /\ accepted \in {"no", "known", "unknown"} /\ misled \in BOOLEAN /\ refusals \in Seq(RefuseWords)
    /\ handshake \in {"none", "hello", "whole"}

(* The order of the dialogue.                                              *)
Course ==
    /\ fromStart => capturing
    /\ state = "connecting" => server = <<>> /\ client = <<>> /\ asks = 0
    /\ state \in {"connecting", "plain", "asked"} => accepted = "no"
    /\ state \in {"agreed", "tls"} => accepted # "no"
    /\ accepted # "no" \/ state = "asked" => asks > 0
    /\ handshake # "none" => accepted # "no" /\ state \in {"tls", "closed"}

(* What the client was captured saying.                                    *)
ClientInv ==
    /\ fromStart /\ asks > 0 => \E k \in DOMAIN client : client[k].kind = "command"
    /\ fromStart /\ handshake # "none" => HelloAfterMention(client)
    /\ \A k \in DOMAIN client : client[k].kind = "hello" => handshake # "none"
    /\ fromStart /\ protocol = "IMAP" /\ asks = 0 /\ texts = 0 => client = <<>>
    /\ fromStart /\ protocol = "IMAP" /\ asks > 0 =>
           client # <<>> /\ client[1].tag = Tags[1]

(* What an SMTP server was captured saying: the last word is the acceptance*)
(* it gave, or until then the last refusal but for lists of extensions and *)
(* other refusals; and nothing else reads like an acceptance unless it     *)
(* misleads.                                                               *)
SmtpInv ==
    /\ fromStart /\ accepted = "known" =>
           /\ server # <<>>
           /\ server[Len(server)].head = "220" /\ Says(server[Len(server)], SmtpAcceptance)
    /\ accepted = "no" /\ refusals # <<>> =>
           \E k \in DOMAIN server :
               /\ server[k].head = "refusal" /\ server[k].words = Last(refusals)
               /\ \A m \in DOMAIN server : m > k => server[m].head \in {"250", "refusal"}
    /\ accepted # "known" /\ ~misled =>
           \A k \in DOMAIN server : server[k].head = "220" => ~Says(server[k], SmtpAcceptance)
    /\ SmtpCapabilitySeen(server) <=> offerCaptured = "named"

(* An IMAP server: only an acceptance is OK with the tag of the command.   *)
Untagged == {"*", "other"}
ImapInv ==
    /\ asks = 0 \/ (state = "asked" /\ asks = 1) => \A k \in DOMAIN server : server[k].head \in Untagged
    /\ fromStart /\ accepted = "known" /\ asks = 1 =>
           /\ server # <<>>
           /\ server[Len(server)].head = Tags[1] /\ server[Len(server)].status = "OK"
           /\ Says(server[Len(server)], ImapAcceptance)
           /\ \A k \in DOMAIN server : k < Len(server) => server[k].head \in Untagged
    /\ accepted # "known" => \A k \in DOMAIN server :
           server[k].status = "OK" /\ Says(server[k], ImapAcceptance) => server[k].head \in Untagged
    /\ ImapCapabilitySeen(server) <=> offerCaptured = "named"

(* A POP3 server: nothing but an acceptance begins TLS unless it misleads, *)
(* and the offer stands right after the line that opens the list.          *)
Pop3Inv ==
    /\ fromStart /\ accepted = "known" => Pop3Accepts(server)
    /\ accepted # "known" /\ ~misled => ~Pop3Accepts(server)
    /\ (\E k \in DOMAIN server : server[k].head = "STLS") => offerCaptured # "no"
    /\ offerCaptured = "named" => \E k \in DOMAIN server :
           /\ k + 1 \in DOMAIN server
           /\ OpensCapa(server[k]) /\ server[k + 1].head = "STLS"

ServerInv == /\ protocol = "SMTP" => SmtpInv
             /\ protocol = "IMAP" => ImapInv
             /\ protocol = "POP3" => Pop3Inv

DialogueInv == DialogueTypes /\ Course /\ ClientInv /\ ServerInv

(* The IMAP client asks once.                                              *)
AsksOnce == "IMAP" \in Spoken => MaxAsks["IMAP"] <= 1

(***************************************************************************)
(* The lines the steps add.                                                *)
(***************************************************************************)
LEMMA TagsAreSequence ==
    /\ Tags \in Seq(Range(Tags)) /\ NoTag \notin Range(Tags)
    /\ Range(Tags) \cap Untagged = {}
    /\ \A n \in 1..Len(Tags) : Tags[n] \in Range(Tags)
<1>1. Tags \in Seq(Range(Tags)) /\ NoTag \notin Range(Tags)
    /\ Range(Tags) \cap Untagged = {}
  BY TagAssumption DEF Untagged
<1>2. \A n \in 1..Len(Tags) : Tags[n] \in Range(Tags)
  BY <1>1 DEF Range
<1> QED
  BY <1>1, <1>2

LEMMA WordingsSpoken ==
    /\ RefuseWords \subseteq Wordings /\ CapaWords \subseteq Wordings
    /\ \A p \in Spoken : /\ AcceptWords[p] \subseteq Wordings
                         /\ GreetingWords[p] \subseteq Wordings
                         /\ ReplyWords[p] \subseteq Wordings
    /\ FixedWords \subseteq Wordings
<1>1. RefuseWords \subseteq Wordings
  BY DEF Wordings
<1>2. CapaWords \subseteq Wordings
  BY DEF Wordings
<1>3. \A p \in Spoken : /\ AcceptWords[p] \subseteq WordsOf(AcceptWords)
                        /\ GreetingWords[p] \subseteq WordsOf(GreetingWords)
                        /\ ReplyWords[p] \subseteq WordsOf(ReplyWords)
  BY DEF WordsOf
<1>4. /\ WordsOf(AcceptWords) \subseteq Wordings
      /\ WordsOf(GreetingWords) \subseteq Wordings
      /\ WordsOf(ReplyWords) \subseteq Wordings
  BY DEF Wordings
<1>5. FixedWords \subseteq Wordings
  BY DEF Wordings
<1> QED
  BY <1>1, <1>2, <1>3, <1>4, <1>5

LEMMA LineType ==
    ASSUME NEW h \in Heads, NEW t \in Statuses, NEW w \in Wordings
    PROVE  /\ Line(h, t, w) \in ServerLine
           /\ Line(h, t, w).head = h /\ Line(h, t, w).status = t /\ Line(h, t, w).words = w
BY DEF Line, ServerLine

(* A captured line stands after the others; one that is not, nowhere.      *)
LEMMA ServerSaysLine ==
    ASSUME server \in Seq(ServerLine), NEW l \in ServerLine, ServerSays(<<l>>)
    PROVE  /\ server' \in Seq(ServerLine)
           /\ capturing => server' = Append(server, l)
           /\ ~capturing => server' = server
<1>1. server \o <<l>> = Append(server, l)
  OBVIOUS
<1> QED
  BY <1>1 DEF ServerSays

LEMMA AppendedLine ==
    ASSUME NEW X, NEW s \in Seq(X), NEW l \in X
    PROVE  LET t == Append(s, l)
           IN  /\ t \in Seq(X) /\ t # <<>> /\ Len(t) = Len(s) + 1 /\ t[Len(s) + 1] = l
               /\ DOMAIN s = 1..Len(s) /\ DOMAIN t = 1..(Len(s) + 1) /\ Len(s) \in Nat
               /\ \A k \in DOMAIN s : k \in DOMAIN t /\ t[k] = s[k] /\ k < Len(s) + 1
               /\ \A k \in DOMAIN t : k \in DOMAIN s \/ k = Len(s) + 1
OBVIOUS

LEMMA ClientSaysLine ==
    ASSUME client \in Seq(ClientLine), NEW kind, NEW tag,
           [kind |-> kind, tag |-> tag] \in ClientLine, ClientSays(kind, tag)
    PROVE  /\ client' \in Seq(ClientLine)
           /\ capturing => client' = Append(client, [kind |-> kind, tag |-> tag])
           /\ ~capturing => client' = client
BY DEF ClientSays

-----------------------------------------------------------------------------
(***************************************************************************)
(* The invariant is inductive.                                             *)
(***************************************************************************)
LEMMA DialogueInit == Init => DialogueInv
<1> SUFFICES ASSUME Init PROVE DialogueInv
  OBVIOUS
<1>1. /\ protocol \in Spoken /\ state = "connecting" /\ client = <<>> /\ server = <<>>
      /\ ~advertised /\ advertised \in BOOLEAN /\ asks = 0 /\ texts = 0 /\ replies = 0
      /\ refusals = <<>> /\ handshake = "none"
      /\ offerCaptured = "no" /\ accepted = "no" /\ ~misled /\ misled \in BOOLEAN
      /\ capturing \in BOOLEAN /\ fromStart \in BOOLEAN /\ (fromStart => capturing)
  BY Zenon DEF Init
<1>2. MaxAsks[protocol] \in Nat
  <2>1. MaxAsks \in [Spoken -> 0..Len(Tags)] /\ Len(Tags) \in Nat
    BY DialogueAssumption, TagsAreSequence
  <2> QED
    BY <1>1, <2>1
<1>3. DialogueTypes /\ Course
  BY <1>1, <1>2 DEF DialogueTypes, Course, States
<1>4. ClientInv
  BY <1>1 DEF ClientInv
<1>5. ServerInv
  BY <1>1 DEF ServerInv, SmtpInv, ImapInv, Pop3Inv, SmtpCapabilitySeen, ImapCapabilitySeen,
              Pop3Accepts, AnyLine
<1> QED
  BY <1>3, <1>4, <1>5 DEF DialogueInv

(* Steps in which the client says nothing,                                 *)
LEMMA ClientStays ==
    ASSUME DialogueInv, UNCHANGED <<fixed, client, asks, texts>>,
           (handshake' = "none") <=> (handshake = "none")
    PROVE  ClientInv'
BY DEF DialogueInv, ClientInv, fixed, HelloAfterMention, Mentions

(* and in which the server says nothing.                                   *)
LEMMA ServerStays ==
    ASSUME DialogueInv, UNCHANGED <<fixed, server, offerCaptured, accepted, refusals, misled>>,
           asks' = 0 \/ (state' = "asked" /\ asks' = 1)
               => asks = 0 \/ (state = "asked" /\ asks = 1),
           accepted # "no" => asks' = asks
    PROVE  ServerInv'
<1>1. protocol' = protocol
  BY DEF fixed
<1>2. SmtpInv => SmtpInv'
  BY DEF SmtpInv, SmtpCapabilitySeen, AnyLine, fixed
<1>3. ImapInv => ImapInv'
  BY DEF ImapInv, ImapCapabilitySeen, AnyLine, fixed
<1>4. Pop3Inv => Pop3Inv'
  BY DEF Pop3Inv, Pop3Accepts, AnyLine, fixed
<1> QED
  BY <1>1, <1>2, <1>3, <1>4 DEF DialogueInv, ServerInv

LEMMA DialogueStutters == DialogueInv /\ UNCHANGED vars => DialogueInv'
<1> SUFFICES ASSUME DialogueInv, UNCHANGED vars PROVE DialogueInv'
  OBVIOUS
<1>1. DialogueTypes' /\ Course'
  BY DEF DialogueInv, DialogueTypes, Course, vars, fixed, offer, counts
<1>2. ClientInv'
  BY ClientStays DEF vars, counts
<1>3. ServerInv'
  BY ServerStays DEF vars, offer, counts
<1> QED
  BY <1>1, <1>2, <1>3 DEF DialogueInv

LEMMA StartCaptureKeeps == DialogueInv /\ StartCapture => DialogueInv'
<1> SUFFICES ASSUME DialogueInv, StartCapture PROVE DialogueInv'
  OBVIOUS
<1>1. DialogueTypes' /\ Course'
  BY DEF DialogueInv, DialogueTypes, Course, StartCapture, fixed, offer, counts
<1>2. ClientInv'
  BY ClientStays DEF StartCapture, counts
<1>3. ServerInv'
  BY ServerStays DEF StartCapture, offer, counts
<1> QED
  BY <1>1, <1>2, <1>3 DEF DialogueInv

LEMMA AskKeeps == DialogueInv /\ Ask => DialogueInv'
<1> SUFFICES ASSUME DialogueInv, Ask PROVE DialogueInv'
  OBVIOUS
<1> DEFINE tag == IF protocol = "IMAP" THEN Tags[asks + 1] ELSE NoTag
           l == [kind |-> "command", tag |-> tag]
<1>1. /\ client \in Seq(ClientLine) /\ asks \in Nat /\ asks + 1 \in 1..MaxAsks[protocol]
      /\ MaxAsks[protocol] \in 0..Len(Tags)
  <2>1. /\ client \in Seq(ClientLine) /\ asks \in 0..MaxAsks[protocol]
        /\ asks < MaxAsks[protocol] /\ protocol \in Spoken
    BY DEF DialogueInv, DialogueTypes, Ask
  <2>2. MaxAsks[protocol] \in 0..Len(Tags) /\ Len(Tags) \in Nat
    BY <2>1, DialogueAssumption, TagsAreSequence
  <2> QED
    BY <2>1, <2>2
<1>2. tag \in Range(Tags) \cup {NoTag, "first_word"}
  <2>1. asks + 1 \in 1..Len(Tags) /\ Len(Tags) \in Nat
    BY <1>1, TagsAreSequence
  <2> QED
    BY <2>1, TagsAreSequence
<1>3. l \in ClientLine /\ l.kind = "command" /\ l.tag = tag
  BY <1>2 DEF ClientLine
<1>4. ClientSays("command", tag) /\ asks' = asks + 1 /\ state' = "asked" /\ state = "plain"
  BY DEF Ask
<1> HIDE DEF tag
<1>5. /\ client' \in Seq(ClientLine)
      /\ capturing => client' = Append(client, l)
      /\ ~capturing => client' = client
  BY <1>1, <1>3, <1>4, ClientSaysLine
<1>6. DialogueTypes' /\ Course'
  BY <1>1, <1>4, <1>5 DEF DialogueInv, DialogueTypes, Course, States, Ask, fixed, offer, counts
<1>7. ClientInv'
  <2>1. CASE ~capturing
    BY <2>1, <1>5 DEF DialogueInv, Course, ClientInv, Ask, fixed
  <2>2. CASE capturing
    <3>1. /\ client' # <<>> /\ client'[Len(client) + 1] = l /\ Len(client) \in Nat
          /\ DOMAIN client = 1..Len(client) /\ DOMAIN client' = 1..(Len(client) + 1)
          /\ \A k \in DOMAIN client : k \in DOMAIN client' /\ client'[k] = client[k]
          /\ \A k \in DOMAIN client' : k \in DOMAIN client \/ k = Len(client) + 1
      BY <1>1, <1>3, <1>5, <2>2, AppendedLine
    <3>2. \E k \in DOMAIN client' : client'[k].kind = "command"
      BY <1>3, <3>1
    <3>3. handshake' = "none" /\ handshake = "none"
      BY DEF Ask, DialogueInv, Course
    <3>4. \A k \in DOMAIN client' : client'[k].kind # "hello"
      BY <1>3, <3>1, <3>3 DEF DialogueInv, ClientInv
    <3>5. ASSUME fromStart, protocol = "IMAP" PROVE client' # <<>> /\ client'[1].tag = Tags[1]
      <4>1. CASE asks = 0
        <5>1. texts = 0
          BY <3>5 DEF Ask
        <5>2. client = <<>>
          BY <3>5, <4>1, <5>1 DEF DialogueInv, ClientInv
        <5>3. client'[1] = l
          BY <3>1, <5>2
        <5> QED
          BY <1>3, <3>1, <3>5, <4>1, <5>3 DEF tag
      <4>2. CASE asks > 0
        <5>1. client # <<>> /\ client[1].tag = Tags[1]
          BY <3>5, <4>2 DEF DialogueInv, ClientInv
        <5>2. 1 \in DOMAIN client
          BY <1>1, <5>1
        <5> QED
          BY <3>1, <5>1, <5>2
      <4> QED
        BY <1>1, <4>1, <4>2
    <3> QED
      BY <1>1, <1>4, <3>2, <3>3, <3>4, <3>5 DEF ClientInv, Ask, fixed
  <2> QED
    BY <2>1, <2>2
<1>8. ServerInv'
  <2>1. accepted = "no"
    BY DEF DialogueInv, Course, Ask
  <2> QED
    BY <1>1, <2>1, ServerStays DEF Ask, offer, counts
<1> QED
  BY <1>6, <1>7, <1>8 DEF DialogueInv

LEMMA SendTextKeeps == DialogueInv /\ SendText => DialogueInv'
<1> SUFFICES ASSUME DialogueInv, SendText PROVE DialogueInv'
  OBVIOUS
<1>1. PICK kind \in TextKinds : ClientSays(kind, IF kind \in {"ends", "second"} THEN "first_word" ELSE NoTag)
  BY DEF SendText
<1> DEFINE tag == IF kind \in {"ends", "second"} THEN "first_word" ELSE NoTag
           l == [kind |-> kind, tag |-> tag]
<1>2. l \in ClientLine /\ l.kind # "hello" /\ client \in Seq(ClientLine)
  BY TagAssumption, DialogueAssumption DEF ClientLine, DialogueInv, DialogueTypes
<1> HIDE DEF tag
<1>3. /\ client' \in Seq(ClientLine)
      /\ capturing => client' = Append(client, l)
      /\ ~capturing => client' = client
  BY <1>1, <1>2, ClientSaysLine DEF tag
<1>4. texts' = texts + 1 /\ texts \in Nat /\ asks' = asks /\ asks \in Nat /\ handshake' = handshake
      /\ accepted = "no" /\ handshake = "none"
  <2>1. texts' = texts + 1 /\ texts \in Nat /\ asks' = asks /\ handshake' = handshake
        /\ accepted = "no" /\ handshake = "none"
    BY DEF SendText, DialogueInv, DialogueTypes, Course
  <2>2. protocol \in Spoken /\ asks \in 0..MaxAsks[protocol]
    BY DEF DialogueInv, DialogueTypes
  <2>3. MaxAsks \in [Spoken -> 0..Len(Tags)] /\ Len(Tags) \in Nat
    BY DialogueAssumption, TagsAreSequence
  <2> QED
    BY <2>1, <2>2, <2>3
<1>5. DialogueTypes' /\ Course'
  BY <1>3, <1>4 DEF DialogueInv, DialogueTypes, Course, SendText, fixed, offer, counts
<1>6. ClientInv'
  <2>1. CASE ~capturing
    BY <2>1, <1>3, <1>4 DEF DialogueInv, Course, ClientInv, SendText, fixed
  <2>2. CASE capturing
    <3>1. /\ client' # <<>> /\ client'[Len(client) + 1] = l /\ Len(client) \in Nat
          /\ DOMAIN client = 1..Len(client) /\ DOMAIN client' = 1..(Len(client) + 1)
          /\ \A k \in DOMAIN client : k \in DOMAIN client' /\ client'[k] = client[k]
          /\ \A k \in DOMAIN client' : k \in DOMAIN client \/ k = Len(client) + 1
      BY <1>2, <1>3, <2>2, AppendedLine
    <3>2. fromStart /\ asks > 0 => \E k \in DOMAIN client' : client'[k].kind = "command"
      BY <3>1 DEF DialogueInv, ClientInv
    <3>3. \A k \in DOMAIN client' : client'[k].kind # "hello"
      BY <1>2, <1>4, <3>1 DEF DialogueInv, ClientInv
    <3>4. ASSUME fromStart, protocol = "IMAP", asks > 0 PROVE client'[1].tag = Tags[1]
      <4>1. client # <<>> /\ client[1].tag = Tags[1]
        BY <3>4 DEF DialogueInv, ClientInv
      <4>2. 1 \in DOMAIN client
        BY <1>2, <4>1
      <4> QED
        BY <3>1, <4>1, <4>2
    <3> QED
      BY <1>4, <3>1, <3>2, <3>3, <3>4 DEF ClientInv, SendText, fixed
  <2> QED
    BY <2>1, <2>2
<1>7. ServerInv'
  BY <1>4, ServerStays DEF SendText, offer, counts
<1> QED
  BY <1>5, <1>6, <1>7 DEF DialogueInv

LEMMA HelloKeeps == DialogueInv /\ Hello => DialogueInv'
<1> SUFFICES ASSUME DialogueInv, Hello PROVE DialogueInv'
  OBVIOUS
<1>1. PICK kind \in {"hello", "cut_hello"} :
         /\ ClientSays(kind, NoTag)
         /\ handshake' = IF capturing /\ kind = "hello" THEN "hello" ELSE "none"
  BY DEF Hello
<1> DEFINE l == [kind |-> kind, tag |-> NoTag]
<1>2. l \in ClientLine /\ l.kind = kind /\ client \in Seq(ClientLine)
  BY DEF ClientLine, DialogueInv, DialogueTypes
<1>3. /\ client' \in Seq(ClientLine)
      /\ capturing => client' = Append(client, l)
      /\ ~capturing => client' = client
  BY <1>1, <1>2, ClientSaysLine
<1>4. /\ state = "agreed" /\ state' = "tls" /\ asks' = asks /\ texts' = texts
      /\ accepted # "no" /\ accepted' = accepted /\ handshake = "none" /\ asks > 0
      /\ UNCHANGED <<replies, misled, capturing, server, advertised, offerCaptured, refusals>>
      /\ protocol' = protocol /\ fromStart' = fromStart /\ (fromStart => capturing)
  BY DEF Hello, DialogueInv, Course, fixed, offer, counts
<1>5. DialogueTypes' /\ Course'
  BY <1>1, <1>3, <1>4 DEF DialogueInv, DialogueTypes, Course, States, Hello, fixed, offer, counts
<1>6. ClientInv'
  <2>1. CASE ~capturing
    <3>1. handshake' = "none" /\ client' = client
      BY <1>1, <1>3, <2>1
    <3> QED
      BY <1>4, <3>1, ClientStays DEF Hello, fixed
  <2>2. CASE capturing
    <3>1. /\ client' # <<>> /\ client'[Len(client) + 1] = l /\ Len(client) \in Nat
          /\ DOMAIN client = 1..Len(client) /\ DOMAIN client' = 1..(Len(client) + 1)
          /\ \A k \in DOMAIN client : /\ k \in DOMAIN client' /\ client'[k] = client[k]
                                     /\ k < Len(client) + 1
          /\ \A k \in DOMAIN client' : k \in DOMAIN client \/ k = Len(client) + 1
          /\ Len(client) + 1 \in DOMAIN client'
      BY <1>2, <1>3, <2>2, AppendedLine
    <3>2. fromStart => \E k \in DOMAIN client : client[k].kind = "command"
      BY <1>4 DEF DialogueInv, ClientInv
    <3>3. ASSUME fromStart, handshake' # "none" PROVE HelloAfterMention(client')
      <4>1. PICK k \in DOMAIN client : client[k].kind = "command"
        BY <3>2, <3>3
      <4>2. client'[Len(client) + 1].kind = "hello"
        BY <1>1, <1>2, <3>1, <3>3
      <4>3. Mentions(client'[k]) /\ k < Len(client) + 1 /\ k \in DOMAIN client'
        BY <3>1, <4>1 DEF Mentions
      <4> QED
        BY <3>1, <4>2, <4>3 DEF HelloAfterMention
    <3>4. \A k \in DOMAIN client' : client'[k].kind = "hello" => handshake' # "none"
      <4>1. \A k \in DOMAIN client : client[k].kind # "hello"
        BY <1>4 DEF DialogueInv, ClientInv
      <4>2. kind = "hello" => handshake' = "hello"
        BY <1>1, <2>2
      <4> QED
        BY <1>2, <3>1, <4>1, <4>2
    <3>5. ASSUME fromStart, protocol = "IMAP" PROVE client'[1].tag = Tags[1]
      <4>1. client # <<>> /\ client[1].tag = Tags[1]
        BY <1>4, <3>5 DEF DialogueInv, ClientInv
      <4>2. 1 \in DOMAIN client
        BY <1>2, <4>1
      <4> QED
        BY <3>1, <4>1, <4>2
    <3>6. fromStart => \E k \in DOMAIN client' : client'[k].kind = "command"
      BY <3>1, <3>2
    <3>7. asks # 0
      BY <1>4
    <3> QED
      BY <1>4, <3>1, <3>3, <3>4, <3>5, <3>6, <3>7 DEF ClientInv
  <2> QED
    BY <2>1, <2>2
<1>7. ServerInv'
  BY <1>4, ServerStays DEF Hello, offer, counts
<1> QED
  BY <1>5, <1>6, <1>7 DEF DialogueInv

LEMMA ServerHelloKeeps == DialogueInv /\ ServerHello => DialogueInv'
<1> SUFFICES ASSUME DialogueInv, ServerHello PROVE DialogueInv'
  OBVIOUS
<1>1. DialogueTypes' /\ Course'
  BY DEF DialogueInv, DialogueTypes, Course, ServerHello, fixed, offer, counts
<1>2. ClientInv'
  BY ClientStays DEF ServerHello, counts
<1>3. ServerInv'
  BY ServerStays DEF ServerHello, offer, counts
<1> QED
  BY <1>1, <1>2, <1>3 DEF DialogueInv

LEMMA CloseKeeps == DialogueInv /\ Close => DialogueInv'
<1> SUFFICES ASSUME DialogueInv, Close PROVE DialogueInv'
  OBVIOUS
<1>1. DialogueTypes' /\ Course'
  BY DEF DialogueInv, DialogueTypes, Course, States, Close, fixed, offer, counts
<1>2. ClientInv'
  BY ClientStays DEF Close, counts
<1>3. ServerInv'
  BY ServerStays DEF Close, offer, counts
<1> QED
  BY <1>1, <1>2, <1>3 DEF DialogueInv

(* What one more line of the server shows.                                 *)
LEMMA OneMoreLine ==
    ASSUME server \in Seq(ServerLine), NEW l \in ServerLine, server' = Append(server, l)
    PROVE  /\ SmtpCapabilitySeen(server') <=>
                  SmtpCapabilitySeen(server) \/ (l.head = "250" /\ Says(l, {"STARTTLS"}))
           /\ ImapCapabilitySeen(server') <=>
                  ImapCapabilitySeen(server)
                  \/ (l.head = "*" /\ {"CAPABILITY", "STARTTLS"} \subseteq l.words)
           /\ Pop3Accepts(server') <=>
                  Pop3Accepts(server) \/ (l.head = "+OK" /\ Says(l, {"BEGIN_TLS"}))
<1>1. /\ server'[Len(server) + 1] = l /\ Len(server) + 1 \in DOMAIN server'
      /\ \A k \in DOMAIN server : k \in DOMAIN server' /\ server'[k] = server[k]
      /\ \A k \in DOMAIN server' : k \in DOMAIN server \/ k = Len(server) + 1
  BY AppendedLine
<1>2. SmtpCapabilitySeen(server') <=>
         SmtpCapabilitySeen(server) \/ (l.head = "250" /\ Says(l, {"STARTTLS"}))
  <2> DEFINE P(x) == x.head = "250" /\ Says(x, {"STARTTLS"})
  <2>1. /\ SmtpCapabilitySeen(server') <=> \E k \in DOMAIN server' : P(server'[k])
        /\ SmtpCapabilitySeen(server) <=> \E k \in DOMAIN server : P(server[k])
    BY DEF SmtpCapabilitySeen, AnyLine
  <2> HIDE DEF P
  <2>2. SmtpCapabilitySeen(server') <=> SmtpCapabilitySeen(server) \/ P(l)
    BY <1>1, <2>1
  <2> QED
    BY <2>2 DEF P
<1>3. ImapCapabilitySeen(server') <=>
         ImapCapabilitySeen(server)
         \/ (l.head = "*" /\ {"CAPABILITY", "STARTTLS"} \subseteq l.words)
  <2> DEFINE P(x) == x.head = "*" /\ {"CAPABILITY", "STARTTLS"} \subseteq x.words
  <2>1. /\ ImapCapabilitySeen(server') <=> \E k \in DOMAIN server' : P(server'[k])
        /\ ImapCapabilitySeen(server) <=> \E k \in DOMAIN server : P(server[k])
    BY DEF ImapCapabilitySeen, AnyLine
  <2> HIDE DEF P
  <2>2. ImapCapabilitySeen(server') <=> ImapCapabilitySeen(server) \/ P(l)
    BY <1>1, <2>1
  <2> QED
    BY <2>2 DEF P
<1>4. Pop3Accepts(server') <=>
         Pop3Accepts(server) \/ (l.head = "+OK" /\ Says(l, {"BEGIN_TLS"}))
  <2> DEFINE P(x) == x.head = "+OK" /\ Says(x, {"BEGIN_TLS"})
  <2>1. /\ Pop3Accepts(server') <=> \E k \in DOMAIN server' : P(server'[k])
        /\ Pop3Accepts(server) <=> \E k \in DOMAIN server : P(server[k])
    BY DEF Pop3Accepts, AnyLine
  <2> HIDE DEF P
  <2>2. Pop3Accepts(server') <=> Pop3Accepts(server) \/ P(l)
    BY <1>1, <2>1
  <2> QED
    BY <2>2 DEF P
<1> QED
  BY <1>2, <1>3, <1>4

(* A line that answers no STARTTLS command.                                *)
LEMMA RemarkedLine ==
    ASSUME DialogueTypes, NEW l \in ServerLine, ServerRemarks(<<l>>)
    PROVE  /\ server' \in Seq(ServerLine)
           /\ capturing => server' = Append(server, l)
           /\ ~capturing => server' = server
           /\ misled' \in BOOLEAN
           /\ ~misled' => ~misled /\ (capturing => ~Misleading(l))
<1>1. ServerSays(<<l>>) /\ server \in Seq(ServerLine) /\ misled \in BOOLEAN
  BY DEF ServerRemarks, DialogueTypes
<1>2. misled' = (misled \/ (capturing /\ \E k \in DOMAIN <<l>> : Misleading(<<l>>[k])))
  BY DEF ServerRemarks
<1>3. (\E k \in DOMAIN <<l>> : Misleading(<<l>>[k])) <=> Misleading(l)
  <2>1. DOMAIN <<l>> = {1} /\ <<l>>[1] = l
    OBVIOUS
  <2> QED
    BY <2>1
<1> HIDE DEF Misleading
<1>4. misled' \in BOOLEAN /\ (~misled' => ~misled /\ (capturing => ~Misleading(l)))
  BY <1>1, <1>2, <1>3
<1> QED
  BY <1>1, <1>4, ServerSaysLine

LEMMA RemarkKeeps ==
    ASSUME DialogueInv, accepted = "no",
           UNCHANGED <<fixed, capturing, asks, accepted, refusals>>,
           state' = "asked" => state = "asked",
           NEW l \in ServerLine, ServerRemarks(<<l>>),
           protocol = "SMTP" =>
               /\ l.head \in {"220", "250", "refusal"} /\ (l.head = "220" => refusals = <<>>)
               /\ offerCaptured' = "named" <=>
                      \/ offerCaptured = "named"
                      \/ capturing /\ l.head = "250" /\ Says(l, {"STARTTLS"}),
           protocol = "IMAP" =>
               /\ l.head \in Untagged
               /\ offerCaptured' = "named" <=>
                      \/ offerCaptured = "named"
                      \/ capturing /\ l.head = "*" /\ {"CAPABILITY", "STARTTLS"} \subseteq l.words,
           protocol = "POP3" => l.head = "+OK" /\ offerCaptured' = offerCaptured
    PROVE  ServerInv'
<1>1. /\ server \in Seq(ServerLine) /\ protocol' = protocol /\ fromStart' = fromStart
      /\ accepted' = "no" /\ refusals' = refusals /\ asks' = asks
  BY DEF DialogueInv, DialogueTypes, fixed
<1>2. /\ capturing => server' = Append(server, l)
      /\ ~capturing => server' = server
      /\ ~misled' => ~misled /\ (capturing => ~Misleading(l))
  BY RemarkedLine DEF DialogueInv
<1>3. capturing => /\ DOMAIN server = 1..Len(server) /\ DOMAIN server' = 1..(Len(server) + 1)
                   /\ Len(server) \in Nat /\ server'[Len(server) + 1] = l
                   /\ \A k \in DOMAIN server : k \in DOMAIN server' /\ server'[k] = server[k]
                   /\ \A k \in DOMAIN server' : k \in DOMAIN server \/ k = Len(server) + 1
  BY <1>1, <1>2, AppendedLine
<1>4. ASSUME protocol = "SMTP" PROVE SmtpInv'
  <2>1. SmtpInv
    BY <1>4 DEF DialogueInv, ServerInv
  <2>2. SmtpCapabilitySeen(server') <=> offerCaptured' = "named"
    <3>1. CASE capturing
      BY <1>1, <1>2, <1>4, <2>1, <3>1, OneMoreLine DEF SmtpInv
    <3>2. CASE ~capturing
      BY <1>2, <1>4, <2>1, <3>2 DEF SmtpInv
    <3> QED
      BY <3>1, <3>2
  <2>3. ASSUME refusals # <<>>
        PROVE  \E k \in DOMAIN server' :
                  /\ server'[k].head = "refusal" /\ server'[k].words = Last(refusals)
                  /\ \A m \in DOMAIN server' : m > k => server'[m].head \in {"250", "refusal"}
    <3>1. PICK k \in DOMAIN server :
             /\ server[k].head = "refusal" /\ server[k].words = Last(refusals)
             /\ \A m \in DOMAIN server : m > k => server[m].head \in {"250", "refusal"}
      BY <2>1, <2>3 DEF SmtpInv
    <3>2. l.head \in {"250", "refusal"}
      BY <1>4, <2>3
    <3> QED
      BY <1>2, <1>3, <3>1, <3>2
  <2>4. ASSUME ~misled', NEW k \in DOMAIN server', server'[k].head = "220"
        PROVE  ~Says(server'[k], SmtpAcceptance)
    <3>1. \A n \in DOMAIN server : server[n].head = "220" => ~Says(server[n], SmtpAcceptance)
      BY <1>2, <2>1, <2>4 DEF SmtpInv
    <3>2. capturing /\ l.head = "220" => ~Says(l, SmtpAcceptance)
      BY <1>2, <1>4, <2>4 DEF Misleading, Known, Says
    <3> QED
      BY <1>2, <1>3, <2>4, <3>1, <3>2
  <2> QED
    BY <1>1, <2>2, <2>3, <2>4 DEF SmtpInv
<1>5. ASSUME protocol = "IMAP" PROVE ImapInv'
  <2>1. ImapInv
    BY <1>5 DEF DialogueInv, ServerInv
  <2>2. ImapCapabilitySeen(server') <=> offerCaptured' = "named"
    <3>1. CASE capturing
      BY <1>1, <1>2, <1>5, <2>1, <3>1, OneMoreLine DEF ImapInv
    <3>2. CASE ~capturing
      BY <1>2, <1>5, <2>1, <3>2 DEF ImapInv
    <3> QED
      BY <3>1, <3>2
  <2>3. \A k \in DOMAIN server' : \/ k \in DOMAIN server /\ server'[k] = server[k]
                                  \/ server'[k].head \in Untagged
    BY <1>2, <1>3, <1>5
  <2> QED
    BY <1>1, <2>1, <2>2, <2>3 DEF ImapInv
<1>6. ASSUME protocol = "POP3" PROVE Pop3Inv'
  <2>1. Pop3Inv
    BY <1>6 DEF DialogueInv, ServerInv
  <2>2. ~misled' => ~Pop3Accepts(server')
    <3>1. CASE capturing
      <4>1. ~misled' => ~(l.head = "+OK" /\ Says(l, {"BEGIN_TLS"}))
        BY <1>2, <1>6, <3>1 DEF Misleading, Known, Says
      <4> QED
        BY <1>1, <1>2, <2>1, <3>1, <4>1, OneMoreLine DEF Pop3Inv
    <3>2. CASE ~capturing
      BY <1>2, <2>1, <3>2 DEF Pop3Inv
    <3> QED
      BY <3>1, <3>2
  <2>3. (\E k \in DOMAIN server' : server'[k].head = "STLS") => offerCaptured # "no"
    BY <1>2, <1>3, <1>6, <2>1 DEF Pop3Inv
  <2>4. offerCaptured = "named" => \E k \in DOMAIN server' :
           /\ k + 1 \in DOMAIN server'
           /\ OpensCapa(server'[k]) /\ server'[k + 1].head = "STLS"
    BY <1>2, <1>3, <2>1 DEF Pop3Inv
  <2> QED
    BY <1>1, <1>6, <2>2, <2>3, <2>4 DEF Pop3Inv
<1> QED
  BY <1>1, <1>4, <1>5, <1>6 DEF ServerInv

LEMMA GreetKeeps == DialogueInv /\ Greet => DialogueInv'
<1> SUFFICES ASSUME DialogueInv, Greet PROVE DialogueInv'
  OBVIOUS
<1>1. /\ state = "connecting" /\ state' = "plain" /\ server = <<>> /\ asks = 0 /\ asks' = asks
      /\ accepted = "no" /\ accepted' = accepted /\ refusals' = refusals
      /\ protocol' = protocol /\ fromStart' = fromStart
      /\ server \in Seq(ServerLine) /\ protocol \in Spoken /\ Spoken \subseteq Protocols
      /\ UNCHANGED <<capturing, client, advertised, texts, replies, handshake>>
  BY DialogueAssumption DEF Greet, fixed, offer, counts, DialogueInv, DialogueTypes, Course
<1>2. PICK w \in GreetingWords[protocol] :
         /\ ServerRemarks(<<Greeting(w)>>)
         /\ OfferSeen(protocol = "IMAP" /\ {"CAPABILITY", "STARTTLS"} \subseteq w, "named")
  BY DEF Greet
<1> DEFINE l == Greeting(w)
<1>3. w \in Wordings
  BY <1>1, WordingsSpoken
<1>4. /\ l \in ServerLine /\ l.words = w
      /\ protocol = "SMTP" => l.head = "220"
      /\ protocol = "IMAP" => l.head = "*"
      /\ protocol = "POP3" => l.head = "+OK"
  <2>1. {"220", "*", "+OK"} \subseteq Heads /\ {"none", "OK"} \subseteq Statuses
    BY DEF Heads, Statuses
  <2>2. CASE protocol = "SMTP"
    BY <1>3, <2>1, <2>2, LineType DEF Greeting
  <2>3. CASE protocol = "IMAP"
    BY <1>3, <2>1, <2>3, LineType DEF Greeting
  <2>4. CASE protocol = "POP3"
    BY <1>3, <2>1, <2>4, LineType DEF Greeting
  <2> QED
    BY <1>1, <2>2, <2>3, <2>4 DEF Protocols
<1>5. ServerRemarks(<<l>>)
  BY <1>2
<1> HIDE DEF l
<1>6. /\ offerCaptured' \in {"no", "bare", "named"}
      /\ protocol # "IMAP" => offerCaptured' = offerCaptured
      /\ protocol = "IMAP" =>
             (offerCaptured' = "named" <=>
                 \/ offerCaptured = "named"
                 \/ capturing /\ {"CAPABILITY", "STARTTLS"} \subseteq l.words)
  BY <1>2, <1>4 DEF OfferSeen, DialogueInv, DialogueTypes
<1>7. server' \in Seq(ServerLine) /\ misled' \in BOOLEAN /\ (~capturing => server' = server)
  BY <1>4, <1>5, RemarkedLine DEF DialogueInv
<1>8. DialogueTypes' /\ Course'
  BY <1>1, <1>6, <1>7 DEF DialogueInv, DialogueTypes, Course, States
<1>9. ClientInv'
  BY <1>1, ClientStays DEF fixed
<1>10. protocol = "SMTP" => refusals = <<>>
  BY <1>1 DEF DialogueInv, ServerInv, SmtpInv
<1>11. protocol = "SMTP" => ~(l.head = "250")
  BY <1>4
<1>12. ServerInv'
  BY <1>1, <1>4, <1>5, <1>6, <1>10, <1>11, RemarkKeeps DEF fixed, Untagged
<1> QED
  BY <1>8, <1>9, <1>12 DEF DialogueInv

LEMMA ReplyKeeps == DialogueInv /\ Reply => DialogueInv'
<1> SUFFICES ASSUME DialogueInv, Reply PROVE DialogueInv'
  OBVIOUS
<1>1. /\ state \in {"plain", "asked"} /\ state' = state /\ asks' = asks
      /\ accepted = "no" /\ accepted' = accepted /\ refusals' = refusals
      /\ offerCaptured' = offerCaptured /\ replies' = replies + 1 /\ replies \in Nat
      /\ protocol' = protocol /\ fromStart' = fromStart
      /\ server \in Seq(ServerLine) /\ protocol \in Spoken /\ Spoken \subseteq Protocols
      /\ UNCHANGED <<capturing, client, advertised, texts, handshake>>
  BY DialogueAssumption DEF Reply, fixed, offer, counts, DialogueInv, DialogueTypes, Course
<1>2. PICK w \in ReplyWords[protocol] : ServerRemarks(<<Remark(w)>>)
  BY DEF Reply
<1> DEFINE l == Remark(w)
<1>3. w \in Wordings
  BY <1>1, WordingsSpoken
<1>4. /\ l \in ServerLine
      /\ protocol = "SMTP" => l.head = "refusal"
      /\ protocol = "IMAP" => l.head = "other"
      /\ protocol = "POP3" => l.head = "+OK"
  <2>1. {"refusal", "other", "+OK"} \subseteq Heads /\ {"none", "OK"} \subseteq Statuses
    BY DEF Heads, Statuses
  <2>2. CASE protocol = "SMTP"
    BY <1>3, <2>1, <2>2, LineType DEF Remark
  <2>3. CASE protocol = "IMAP"
    BY <1>3, <2>1, <2>3, LineType DEF Remark
  <2>4. CASE protocol = "POP3"
    BY <1>3, <2>1, <2>4, LineType DEF Remark
  <2> QED
    BY <1>1, <2>2, <2>3, <2>4 DEF Protocols
<1>5. ServerRemarks(<<l>>)
  BY <1>2
<1> HIDE DEF l
<1>6. server' \in Seq(ServerLine) /\ misled' \in BOOLEAN
  BY <1>4, <1>5, RemarkedLine DEF DialogueInv
<1>7. DialogueTypes' /\ Course'
  BY <1>1, <1>6 DEF DialogueInv, DialogueTypes, Course, States
<1>8. ClientInv'
  BY <1>1, ClientStays DEF fixed
<1>9. protocol = "SMTP" => l.head # "250" /\ l.head # "220"
  BY <1>4
<1>10. protocol = "IMAP" => l.head # "*" /\ l.head \in Untagged
  BY <1>4 DEF Untagged
<1>11. ServerInv'
  BY <1>1, <1>4, <1>5, <1>9, <1>10, RemarkKeeps DEF fixed
<1> QED
  BY <1>7, <1>8, <1>11 DEF DialogueInv

(* The answer to the command, positive or not.                             *)
LEMMA AnswerLine ==
    ASSUME DialogueInv, state = "asked", NEW positive \in BOOLEAN, NEW w,
           w \in IF positive THEN AcceptWords[protocol] ELSE RefuseWords
    PROVE  LET l == Answer(positive, w)
           IN  /\ l \in ServerLine /\ l.words = w
               /\ protocol = "SMTP" => l.head = IF positive THEN "220" ELSE "refusal"
               /\ protocol = "IMAP" => /\ l.head = Tags[asks] /\ l.head \notin Untagged
                                       /\ l.status = IF positive THEN "OK" ELSE "NO"
               /\ protocol = "POP3" => l.head = IF positive THEN "+OK" ELSE "-ERR"
<1>1. /\ protocol \in Spoken /\ Spoken \subseteq Protocols
      /\ asks \in 1..Len(Tags) /\ Tags[asks] \in Range(Tags) /\ Tags[asks] \notin Untagged
  <2>1. protocol \in Spoken /\ asks \in 0..MaxAsks[protocol] /\ asks > 0
    BY DEF DialogueInv, DialogueTypes, Course
  <2>2. MaxAsks \in [Spoken -> 0..Len(Tags)] /\ Spoken \subseteq Protocols /\ Len(Tags) \in Nat
    BY DialogueAssumption, TagsAreSequence
  <2>3. asks \in 1..Len(Tags)
    BY <2>1, <2>2
  <2> QED
    BY <2>1, <2>2, <2>3, TagsAreSequence
<1>2. w \in Wordings
  <2>1. CASE positive
    BY <1>1, <2>1, WordingsSpoken
  <2>2. CASE ~positive
    BY <2>2, WordingsSpoken
  <2> QED
    BY <2>1, <2>2
<1>3. CASE protocol = "SMTP"
  <2> DEFINE h == IF positive THEN "220" ELSE "refusal"
  <2>1. Answer(positive, w) = Line(h, "none", w) /\ h \in Heads /\ "none" \in Statuses
    BY <1>3 DEF Answer, Heads, Statuses
  <2> HIDE DEF h
  <2>2. Line(h, "none", w) \in ServerLine /\ Line(h, "none", w).head = h /\ Line(h, "none", w).words = w
    BY <1>2, <2>1, LineType
  <2> QED
    BY <1>3, <2>1, <2>2 DEF h
<1>4. CASE protocol = "IMAP"
  <2> DEFINE h == Tags[asks]
             t == IF positive THEN "OK" ELSE "NO"
  <2>1. Answer(positive, w) = Line(h, t, w) /\ h \in Heads /\ t \in Statuses
    BY <1>1, <1>4 DEF Answer, Heads, Statuses
  <2> HIDE DEF h, t
  <2>2. /\ Line(h, t, w) \in ServerLine /\ Line(h, t, w).head = h
        /\ Line(h, t, w).status = t /\ Line(h, t, w).words = w
    BY <1>2, <2>1, LineType
  <2> QED
    BY <1>1, <1>4, <2>1, <2>2 DEF h, t
<1>5. CASE protocol = "POP3"
  <2> DEFINE h == IF positive THEN "+OK" ELSE "-ERR"
  <2>1. Answer(positive, w) = Line(h, "none", w) /\ h \in Heads /\ "none" \in Statuses
    BY <1>5 DEF Answer, Heads, Statuses
  <2> HIDE DEF h
  <2>2. Line(h, "none", w) \in ServerLine /\ Line(h, "none", w).head = h /\ Line(h, "none", w).words = w
    BY <1>2, <2>1, LineType
  <2> QED
    BY <1>5, <2>1, <2>2 DEF h
<1> QED
  BY <1>1, <1>3, <1>4, <1>5 DEF Protocols

LEMMA AcceptKeeps == DialogueInv /\ Accept => DialogueInv'
<1> SUFFICES ASSUME DialogueInv, Accept PROVE DialogueInv'
  OBVIOUS
<1>1. /\ state = "asked" /\ state' = "agreed" /\ accepted = "no"
      /\ asks' = asks /\ asks > 0 /\ refusals' = refusals /\ handshake' = handshake
      /\ offerCaptured' = offerCaptured /\ advertised' = advertised /\ misled' = misled
      /\ protocol' = protocol /\ fromStart' = fromStart /\ (fromStart => capturing)
      /\ capturing' = capturing /\ client' = client /\ texts' = texts /\ replies' = replies
      /\ server \in Seq(ServerLine) /\ protocol \in Spoken /\ Spoken \subseteq Protocols
  BY DialogueAssumption DEF Accept, fixed, offer, counts, DialogueInv, DialogueTypes, Course
<1>2. PICK w \in AcceptWords[protocol] :
         /\ ServerSays(<<Answer(TRUE, w)>>)
         /\ accepted' = IF Known(w) THEN "known" ELSE "unknown"
  BY DEF Accept
<1> DEFINE l == Answer(TRUE, w)
<1>3. /\ l \in ServerLine /\ l.words = w
      /\ protocol = "SMTP" => l.head = "220"
      /\ protocol = "IMAP" => l.head = Tags[asks] /\ l.head \notin Untagged /\ l.status = "OK"
      /\ protocol = "POP3" => l.head = "+OK"
  BY <1>1, <1>2, AnswerLine
<1> HIDE DEF l
<1>4. /\ server' \in Seq(ServerLine)
      /\ capturing => server' = Append(server, l)
      /\ ~capturing => server' = server
  BY <1>1, <1>2, <1>3, ServerSaysLine DEF l
<1>5. DialogueTypes'
  BY <1>1, <1>2, <1>4 DEF DialogueInv, DialogueTypes, States
<1>6. Course'
  BY <1>1, <1>2, <1>4 DEF DialogueInv, Course
<1>7. ClientInv'
  BY <1>1, ClientStays DEF fixed, counts
<1>8. capturing => /\ server' # <<>> /\ server'[Len(server)+1] = l /\ Len(server') = Len(server) + 1
                   /\ Len(server) \in Nat
                   /\ DOMAIN server = 1..Len(server) /\ DOMAIN server' = 1..(Len(server) + 1)
                   /\ \A k \in DOMAIN server : /\ k \in DOMAIN server' /\ server'[k] = server[k]
                                              /\ k < Len(server) + 1
                   /\ \A k \in DOMAIN server' : k \in DOMAIN server \/ k = Len(server) + 1
  BY <1>1, <1>3, <1>4, AppendedLine
<1>9. ASSUME protocol = "SMTP" PROVE SmtpInv'
  <2>1. SmtpCapabilitySeen(server') <=> SmtpCapabilitySeen(server)
    BY <1>1, <1>3, <1>4, <1>9, OneMoreLine
  <2>2. accepted' = "known" <=> Says(l, SmtpAcceptance)
    BY <1>2, <1>3, <1>9 DEF Says, Known
  <2>3. SmtpInv
    BY <1>9 DEF DialogueInv, ServerInv
  <2>4. ASSUME fromStart, accepted' = "known"
        PROVE  /\ server' # <<>>
               /\ server'[Len(server')].head = "220" /\ Says(server'[Len(server')], SmtpAcceptance)
    BY <1>1, <1>3, <1>8, <1>9, <2>2, <2>4
  <2>5. ASSUME accepted' # "known", ~misled, NEW k \in DOMAIN server', server'[k].head = "220"
        PROVE  ~Says(server'[k], SmtpAcceptance)
    <3>1. \A n \in DOMAIN server : server[n].head = "220" => ~Says(server[n], SmtpAcceptance)
      BY <1>1, <2>3, <2>5 DEF SmtpInv
    <3> QED
      BY <1>4, <1>8, <2>2, <2>5, <3>1
  <2>6. accepted' # "no"
    BY <1>2
  <2> QED
    BY <1>1, <2>1, <2>3, <2>4, <2>5, <2>6 DEF SmtpInv
<1>10. ASSUME protocol = "IMAP" PROVE ImapInv'
  <2>1. ImapCapabilitySeen(server') <=> ImapCapabilitySeen(server)
    <3>1. l.head # "*"
      BY <1>3, <1>10 DEF Untagged
    <3> QED
      BY <1>1, <1>3, <1>4, <3>1, OneMoreLine
  <2>2. accepted' = "known" <=> Says(l, ImapAcceptance)
    BY <1>2, <1>3, <1>10 DEF Says, Known
  <2>3. ImapInv
    BY <1>10 DEF DialogueInv, ServerInv
  <2>4. ASSUME fromStart, asks = 1, accepted' = "known"
        PROVE  /\ server' # <<>>
               /\ server'[Len(server')].head = Tags[1] /\ server'[Len(server')].status = "OK"
               /\ Says(server'[Len(server')], ImapAcceptance)
               /\ \A k \in DOMAIN server' : k < Len(server') => server'[k].head \in Untagged
    <3>1. \A k \in DOMAIN server : server[k].head \in Untagged
      BY <1>1, <2>3, <2>4 DEF ImapInv
    <3> QED
      BY <1>1, <1>3, <1>8, <1>10, <2>2, <2>4, <3>1
  <2>5. ASSUME accepted' # "known", NEW k \in DOMAIN server', server'[k].status = "OK",
               Says(server'[k], ImapAcceptance)
        PROVE  server'[k].head \in Untagged
    <3>1. \A n \in DOMAIN server :
             server[n].status = "OK" /\ Says(server[n], ImapAcceptance) => server[n].head \in Untagged
      BY <1>1, <2>3 DEF ImapInv
    <3> QED
      BY <1>4, <1>8, <2>2, <2>5, <3>1
  <2> QED
    BY <1>1, <2>1, <2>3, <2>4, <2>5 DEF ImapInv
<1>11. ASSUME protocol = "POP3" PROVE Pop3Inv'
  <2>1. accepted' = "known" <=> Says(l, {"BEGIN_TLS"})
    BY <1>2, <1>3, <1>11 DEF Says, Known
  <2>2. capturing => (Pop3Accepts(server') <=> Pop3Accepts(server) \/ accepted' = "known")
    BY <1>1, <1>3, <1>4, <1>11, <2>1, OneMoreLine
  <2>3. Pop3Inv
    BY <1>11 DEF DialogueInv, ServerInv
  <2>4. (\E k \in DOMAIN server' : server'[k].head = "STLS") => offerCaptured # "no"
    BY <1>3, <1>4, <1>8, <1>11, <2>3 DEF Pop3Inv
  <2>5. offerCaptured = "named" => \E k \in DOMAIN server' :
           /\ k + 1 \in DOMAIN server'
           /\ OpensCapa(server'[k]) /\ server'[k + 1].head = "STLS"
    BY <1>4, <1>8, <2>3 DEF Pop3Inv
  <2>6. accepted' # "known" /\ ~misled => ~Pop3Accepts(server')
    BY <1>1, <1>4, <2>2, <2>3 DEF Pop3Inv
  <2> QED
    BY <1>1, <2>2, <2>4, <2>5, <2>6 DEF Pop3Inv
<1> QED
  BY <1>1, <1>5, <1>6, <1>7, <1>9, <1>10, <1>11 DEF DialogueInv, ServerInv

LEMMA RefuseKeeps == DialogueInv /\ Refuse => DialogueInv'
<1> SUFFICES ASSUME DialogueInv, Refuse PROVE DialogueInv'
  OBVIOUS
<1>1. /\ state = "asked" /\ state' = "plain" /\ accepted' = accepted /\ accepted = "no"
      /\ asks' = asks /\ asks > 0 /\ handshake' = handshake
      /\ offerCaptured' = offerCaptured /\ advertised' = advertised /\ misled' = misled
      /\ protocol' = protocol /\ fromStart' = fromStart /\ (fromStart => capturing)
      /\ capturing' = capturing /\ client' = client /\ texts' = texts /\ replies' = replies
      /\ server \in Seq(ServerLine) /\ protocol \in Spoken /\ Spoken \subseteq Protocols
      /\ refusals \in Seq(RefuseWords)
  BY DialogueAssumption DEF Refuse, fixed, offer, counts, DialogueInv, DialogueTypes, Course
<1>2. PICK w \in RefuseWords :
         /\ ServerSays(<<Answer(FALSE, w)>>)
         /\ refusals' = IF capturing THEN Append(refusals, w) ELSE refusals
  BY DEF Refuse
<1> DEFINE l == Answer(FALSE, w)
<1>3. /\ l \in ServerLine /\ l.words = w
      /\ protocol = "SMTP" => l.head = "refusal"
      /\ protocol = "IMAP" => l.head = Tags[asks] /\ l.head \notin Untagged /\ l.status = "NO"
      /\ protocol = "POP3" => l.head = "-ERR"
  BY <1>1, <1>2, AnswerLine
<1> HIDE DEF l
<1>4. /\ server' \in Seq(ServerLine)
      /\ capturing => server' = Append(server, l)
      /\ ~capturing => server' = server
  BY <1>1, <1>2, <1>3, ServerSaysLine DEF l
<1>5. refusals' \in Seq(RefuseWords) /\ (capturing => refusals' # <<>> /\ Last(refusals') = w)
  <2> DEFINE more == Append(refusals, w)
  <2>1. /\ more \in Seq(RefuseWords) /\ more # <<>>
        /\ Len(more) = Len(refusals) + 1 /\ more[Len(refusals) + 1] = w
    BY <1>1, AppendedLine
  <2>2. refusals' = IF capturing THEN more ELSE refusals
    BY <1>2
  <2> HIDE DEF more
  <2> QED
    BY <1>1, <2>1, <2>2 DEF Last
<1>6. DialogueTypes'
  BY <1>1, <1>4, <1>5 DEF DialogueInv, DialogueTypes, States
<1>7. Course'
  BY <1>1, <1>4 DEF DialogueInv, Course
<1>8. ClientInv'
  BY <1>1, ClientStays DEF fixed, counts
<1>9. capturing => /\ server'[Len(server)+1] = l /\ Len(server) \in Nat
                   /\ DOMAIN server = 1..Len(server) /\ DOMAIN server' = 1..(Len(server) + 1)
                   /\ Len(server) + 1 \in DOMAIN server'
                   /\ \A k \in DOMAIN server : k \in DOMAIN server' /\ server'[k] = server[k]
                   /\ \A k \in DOMAIN server' : k \in DOMAIN server \/ k = Len(server) + 1
  BY <1>1, <1>3, <1>4, AppendedLine
<1>10. ASSUME protocol = "SMTP" PROVE SmtpInv'
  <2>1. SmtpCapabilitySeen(server') <=> SmtpCapabilitySeen(server)
    BY <1>1, <1>3, <1>4, <1>10, OneMoreLine
  <2>2. SmtpInv
    BY <1>10 DEF DialogueInv, ServerInv
  <2>3. ASSUME refusals' # <<>>
        PROVE  \E k \in DOMAIN server' :
                  /\ server'[k].head = "refusal" /\ server'[k].words = Last(refusals')
                  /\ \A m \in DOMAIN server' : m > k => server'[m].head \in {"250", "refusal"}
    <3>1. CASE capturing
      <4>1. \A m \in DOMAIN server' : ~(m > Len(server) + 1)
        BY <1>9, <3>1
      <4> QED
        BY <1>3, <1>5, <1>9, <1>10, <3>1, <4>1
    <3>2. CASE ~capturing
      BY <1>1, <1>2, <1>4, <2>2, <2>3, <3>2 DEF SmtpInv
    <3> QED
      BY <3>1, <3>2
  <2>4. ASSUME ~misled, NEW k \in DOMAIN server', server'[k].head = "220"
        PROVE  ~Says(server'[k], SmtpAcceptance)
    <3>1. \A n \in DOMAIN server : server[n].head = "220" => ~Says(server[n], SmtpAcceptance)
      BY <1>1, <2>2, <2>4 DEF SmtpInv
    <3> QED
      BY <1>3, <1>4, <1>9, <1>10, <2>4, <3>1
  <2> QED
    BY <1>1, <2>1, <2>2, <2>3, <2>4 DEF SmtpInv
<1>11. ASSUME protocol = "IMAP" PROVE ImapInv'
  <2>1. ImapCapabilitySeen(server') <=> ImapCapabilitySeen(server)
    <3>1. l.head # "*"
      BY <1>3, <1>11 DEF Untagged
    <3> QED
      BY <1>1, <1>3, <1>4, <3>1, OneMoreLine
  <2>2. ImapInv
    BY <1>11 DEF DialogueInv, ServerInv
  <2>3. \A k \in DOMAIN server' :
           server'[k].status = "OK" /\ Says(server'[k], ImapAcceptance) => server'[k].head \in Untagged
    <3>1. \A k \in DOMAIN server :
             server[k].status = "OK" /\ Says(server[k], ImapAcceptance) => server[k].head \in Untagged
      BY <1>1, <2>2 DEF ImapInv
    <3> QED
      BY <1>3, <1>4, <1>9, <1>11, <3>1
  <2> QED
    BY <1>1, <2>1, <2>2, <2>3 DEF ImapInv
<1>12. ASSUME protocol = "POP3" PROVE Pop3Inv'
  <2>1. Pop3Accepts(server') <=> Pop3Accepts(server)
    BY <1>1, <1>3, <1>4, <1>12, OneMoreLine
  <2>2. Pop3Inv
    BY <1>12 DEF DialogueInv, ServerInv
  <2>3. (\E k \in DOMAIN server' : server'[k].head = "STLS") => offerCaptured # "no"
    BY <1>3, <1>4, <1>9, <1>12, <2>2 DEF Pop3Inv
  <2>4. offerCaptured = "named" => \E k \in DOMAIN server' :
           /\ k + 1 \in DOMAIN server'
           /\ OpensCapa(server'[k]) /\ server'[k + 1].head = "STLS"
    BY <1>4, <1>9, <2>2 DEF Pop3Inv
  <2> QED
    BY <1>1, <2>1, <2>2, <2>3, <2>4 DEF Pop3Inv
<1> QED
  BY <1>1, <1>6, <1>7, <1>8, <1>10, <1>11, <1>12 DEF DialogueInv, ServerInv

(* The list of extensions.                                                 *)
LEMMA ListedLine ==
    ASSUME NEW offered \in BOOLEAN, NEW words, protocol \in {"SMTP", "IMAP"}
    PROVE  \E l \in ServerLine :
               /\ Capabilities(offered, words) = <<l>>
               /\ protocol = "SMTP" => l.head = "250" /\ (Says(l, {"STARTTLS"}) <=> offered)
               /\ protocol = "IMAP" =>
                      /\ l.head = "*"
                      /\ {"CAPABILITY", "STARTTLS"} \subseteq l.words <=> offered
<1>1. CASE protocol = "SMTP"
  <2> DEFINE w == IF offered THEN {"STARTTLS", "TLS"} ELSE {}
             l == Line("250", "none", w)
  <2>1. Capabilities(offered, words) = <<l>>
    BY <1>1 DEF Capabilities
  <2>2. w \in Wordings /\ ("STARTTLS" \in w <=> offered)
    BY WordingsSpoken DEF FixedWords
  <2>3. "250" \in Heads /\ "none" \in Statuses
    BY DEF Heads, Statuses
  <2> HIDE DEF w
  <2>4. l \in ServerLine /\ l.head = "250" /\ l.words = w
    BY <2>2, <2>3, LineType
  <2> QED
    BY <1>1, <2>1, <2>2, <2>4 DEF Says
<1>2. CASE protocol = "IMAP"
  <2> DEFINE w == {"CAPABILITY"} \cup (IF offered THEN {"STARTTLS", "TLS"} ELSE {})
             l == Line("*", "CAPABILITY", w)
  <2>1. Capabilities(offered, words) = <<l>>
    BY <1>2 DEF Capabilities
  <2>2. w \in Wordings /\ ({"CAPABILITY", "STARTTLS"} \subseteq w <=> offered)
    <3>1. CASE offered
      <4>1. w = {"CAPABILITY", "STARTTLS", "TLS"}
        BY <3>1
      <4> QED
        BY <3>1, <4>1, WordingsSpoken DEF FixedWords
    <3>2. CASE ~offered
      <4>1. w = {"CAPABILITY"}
        BY <3>2
      <4> QED
        BY <3>2, <4>1, WordingsSpoken DEF FixedWords
    <3> QED
      BY <3>1, <3>2
  <2>3. "*" \in Heads /\ "CAPABILITY" \in Statuses
    BY DEF Heads, Statuses
  <2> HIDE DEF w
  <2>4. l \in ServerLine /\ l.head = "*" /\ l.words = w
    BY <2>2, <2>3, LineType
  <2> QED
    BY <1>2, <2>1, <2>2, <2>4
<1> QED
  BY <1>1, <1>2

LEMMA Pop3List ==
    ASSUME NEW offered \in BOOLEAN, NEW w \in CapaWords, protocol = "POP3"
    PROVE  LET lines == Capabilities(offered, w)
           IN  /\ lines \in Seq(ServerLine)
               /\ \A k \in DOMAIN lines :
                      /\ lines[k].head = "+OK" /\ Says(lines[k], {"BEGIN_TLS"}) => Misleading(lines[k])
                      /\ lines[k].head = "STLS" => offered
               /\ offered /\ "CAPA" \in w => /\ {1, 2} \subseteq DOMAIN lines
                                             /\ OpensCapa(lines[1]) /\ lines[2].head = "STLS"
<1> DEFINE lines == Capabilities(offered, w)
<1>1. lines = <<Line("+OK", "none", w)>>
                  \o (IF offered THEN <<Line("STLS", "none", {})>> ELSE <<>>)
                  \o <<Line(".", "none", {})>>
  BY DEF Capabilities
<1> HIDE DEF lines
<1> DEFINE open  == Line("+OK", "none", w)
           stls  == Line("STLS", "none", {})
           close == Line(".", "none", {})
<1>2. \A x : x.head = "+OK" /\ Says(x, {"BEGIN_TLS"}) => Misleading(x)
  BY DEF Misleading, Known, Says
<1>3. w \in Wordings /\ {} \in Wordings
  BY WordingsSpoken DEF FixedWords
<1>4. "+OK" \in Heads /\ "STLS" \in Heads /\ "." \in Heads /\ "none" \in Statuses
  BY DEF Heads, Statuses
<1>5. /\ open \in ServerLine /\ open.head = "+OK" /\ open.words = w
      /\ stls \in ServerLine /\ stls.head = "STLS"
      /\ close \in ServerLine /\ close.head = "."
  BY <1>3, <1>4, LineType
<1>6. lines = <<open>> \o (IF offered THEN <<stls>> ELSE <<>>) \o <<close>>
  BY <1>1
<1> HIDE DEF open, stls, close
<1>7. "CAPA" \in w => OpensCapa(open)
  BY <1>5 DEF Says, OpensCapa
<1> DEFINE middle == IF offered THEN <<stls>> ELSE <<>>
           first == <<open>> \o middle
<1>8. /\ <<open>> \in Seq(ServerLine) /\ Len(<<open>>) = 1 /\ <<open>>[1] = open
      /\ <<close>> \in Seq(ServerLine) /\ Len(<<close>>) = 1 /\ <<close>>[1] = close
  BY <1>5
<1>9. /\ middle \in Seq(ServerLine) /\ Len(middle) = IF offered THEN 1 ELSE 0
      /\ offered => middle[1] = stls
  BY <1>5
<1>10. lines = first \o <<close>>
  BY <1>6
<1> HIDE DEF middle
<1>11. /\ first \in Seq(ServerLine) /\ Len(first) = 1 + Len(middle)
       /\ \A n \in 1..(1 + Len(middle)) :
              first[n] = IF n <= 1 THEN <<open>>[n] ELSE middle[n - 1]
  BY <1>8, <1>9, ConcatProperties
<1> HIDE DEF first
<1>12. /\ lines \in Seq(ServerLine) /\ Len(lines) = Len(first) + 1
       /\ \A n \in 1..(Len(first) + 1) :
              lines[n] = IF n <= Len(first) THEN first[n] ELSE <<close>>[n - Len(first)]
  BY <1>8, <1>10, <1>11, ConcatProperties
<1>13. CASE offered
  <2>1. Len(first) = 2 /\ first[1] = open /\ first[2] = stls
    BY <1>8, <1>9, <1>11, <1>13
  <2>2. DOMAIN lines = {1, 2, 3} /\ lines[1] = open /\ lines[2] = stls /\ lines[3] = close
    BY <1>8, <1>12, <2>1
  <2> QED
    BY <1>2, <1>5, <1>7, <1>12, <1>13, <2>2 DEF lines
<1>14. CASE ~offered
  <2>1. Len(first) = 1 /\ first[1] = open
    BY <1>8, <1>9, <1>11, <1>14
  <2>2. DOMAIN lines = {1, 2} /\ lines[1] = open /\ lines[2] = close
    BY <1>8, <1>12, <2>1
  <2> QED
    BY <1>2, <1>5, <1>7, <1>12, <1>14, <2>2 DEF lines
<1> QED
  BY <1>13, <1>14

LEMMA AdvertiseKeeps == DialogueInv /\ Advertise => DialogueInv'
<1> SUFFICES ASSUME DialogueInv, Advertise PROVE DialogueInv'
  OBVIOUS
<1>1. /\ state = "plain" /\ state' = state /\ accepted' = accepted /\ accepted = "no"
      /\ asks' = asks /\ handshake' = handshake /\ refusals' = refusals
      /\ protocol' = protocol /\ fromStart' = fromStart /\ capturing' = capturing
      /\ client' = client /\ texts' = texts /\ replies' = replies
      /\ advertised' \in BOOLEAN /\ misled \in BOOLEAN
      /\ server \in Seq(ServerLine) /\ protocol \in Spoken /\ Spoken \subseteq Protocols
  BY DialogueAssumption DEF Advertise, fixed, counts, DialogueInv, DialogueTypes, Course
<1>2. PICK offered \in BOOLEAN, w \in IF protocol = "POP3" THEN CapaWords ELSE {{}} :
         /\ ServerRemarks(Capabilities(offered, w))
         /\ OfferSeen(offered, IF protocol = "POP3" /\ "CAPA" \notin w THEN "bare" ELSE "named")
  BY DEF Advertise
<1>3. /\ offerCaptured' \in {"no", "bare", "named"}
      /\ protocol # "POP3" =>
             (offerCaptured' = "named" <=> offerCaptured = "named" \/ (capturing /\ offered))
      /\ offerCaptured' = "named" =>
             \/ offerCaptured = "named"
             \/ capturing /\ offered /\ (protocol = "POP3" => "CAPA" \in w)
      /\ offerCaptured # "no" \/ (capturing /\ offered) => offerCaptured' # "no"
  BY <1>2 DEF OfferSeen, DialogueInv, DialogueTypes
<1>4. ClientInv'
  BY <1>1, ClientStays DEF fixed
<1>5. CASE protocol \in {"SMTP", "IMAP"}
  <2>1. PICK l \in ServerLine :
               /\ Capabilities(offered, w) = <<l>>
               /\ protocol = "SMTP" => l.head = "250" /\ (Says(l, {"STARTTLS"}) <=> offered)
               /\ protocol = "IMAP" =>
                      /\ l.head = "*"
                      /\ {"CAPABILITY", "STARTTLS"} \subseteq l.words <=> offered
    BY <1>5, ListedLine
  <2>2. ServerRemarks(<<l>>)
    BY <1>2, <2>1
  <2>3. server' \in Seq(ServerLine) /\ misled' \in BOOLEAN
    BY <2>2, RemarkedLine DEF DialogueInv
  <2>4. DialogueTypes' /\ Course'
    BY <1>1, <1>3, <2>3 DEF DialogueInv, DialogueTypes, Course, States
  <2>5. ServerInv'
    BY <1>1, <1>3, <1>5, <2>1, <2>2, RemarkKeeps DEF fixed, Untagged
  <2> QED
    BY <1>4, <2>4, <2>5 DEF DialogueInv
<1>6. CASE protocol = "POP3"
  <2> DEFINE lines == Capabilities(offered, w)
  <2>1. /\ lines \in Seq(ServerLine)
        /\ \A k \in DOMAIN lines :
               /\ lines[k].head = "+OK" /\ Says(lines[k], {"BEGIN_TLS"}) => Misleading(lines[k])
               /\ lines[k].head = "STLS" => offered
        /\ offered /\ "CAPA" \in w => /\ {1, 2} \subseteq DOMAIN lines
                                      /\ OpensCapa(lines[1]) /\ lines[2].head = "STLS"
    BY <1>2, <1>6, Pop3List
  <2>2. ServerRemarks(lines)
    BY <1>2
  <2> HIDE DEF lines
  <2>3. /\ server' \in Seq(ServerLine)
        /\ capturing => server' = server \o lines
        /\ ~capturing => server' = server
        /\ misled' = (misled \/ (capturing /\ \E k \in DOMAIN lines : Misleading(lines[k])))
    BY <1>1, <2>1, <2>2 DEF ServerRemarks, ServerSays
  <2>4. misled' \in BOOLEAN
    BY <1>1, <2>3
  <2>5. DialogueTypes' /\ Course'
    BY <1>1, <1>3, <2>3, <2>4 DEF DialogueInv, DialogueTypes, Course, States
  <2>6. Pop3Inv
    BY <1>6 DEF DialogueInv, ServerInv
  <2>7. CASE ~capturing
    <3>1. server' = server /\ (~misled' => ~misled)
      BY <2>3, <2>7
    <3> QED
      BY <1>1, <1>3, <1>4, <1>6, <2>5, <2>6, <2>7, <3>1 DEF DialogueInv, ServerInv, Pop3Inv
  <2>8. CASE capturing
    <3>1. server' = server \o lines
      BY <2>3, <2>8
    <3>2. /\ DOMAIN server = 1..Len(server) /\ DOMAIN lines = 1..Len(lines)
          /\ DOMAIN server' = 1..(Len(server) + Len(lines)) /\ Len(server) \in Nat /\ Len(lines) \in Nat
          /\ \A k \in DOMAIN server : k \in DOMAIN server' /\ server'[k] = server[k]
          /\ \A k \in DOMAIN lines : /\ Len(server) + k \in DOMAIN server'
                                     /\ server'[Len(server) + k] = lines[k]
      BY <1>1, <2>1, <3>1
    <3>3. \A k \in DOMAIN server' : \/ k \in DOMAIN server /\ server'[k] = server[k]
                                    \/ \E n \in DOMAIN lines : server'[k] = lines[n]
      <4> SUFFICES ASSUME NEW k \in DOMAIN server', k \notin DOMAIN server
                   PROVE  \E n \in DOMAIN lines : server'[k] = lines[n]
        BY <3>2
      <4>1. k - Len(server) \in DOMAIN lines /\ Len(server) + (k - Len(server)) = k
        BY <3>2
      <4> QED
        BY <3>2, <4>1
    <3>4. ~misled' => ~Pop3Accepts(server')
      <4> SUFFICES ASSUME ~misled' PROVE ~Pop3Accepts(server')
        OBVIOUS
      <4>1. ~misled /\ \A k \in DOMAIN lines : ~Misleading(lines[k])
        BY Zenon, <2>3, <2>8
      <4>2. \A k \in DOMAIN server : ~(server[k].head = "+OK" /\ Says(server[k], {"BEGIN_TLS"}))
        BY <1>1, <2>6, <4>1 DEF Pop3Inv, Pop3Accepts, AnyLine
      <4>3. \A k \in DOMAIN server' : ~(server'[k].head = "+OK" /\ Says(server'[k], {"BEGIN_TLS"}))
        BY <2>1, <3>3, <4>1, <4>2
      <4> QED
        BY <4>3 DEF Pop3Accepts, AnyLine
    <3>5. (\E k \in DOMAIN server' : server'[k].head = "STLS") => offerCaptured' # "no"
      <4>1. ASSUME NEW k \in DOMAIN server, server[k].head = "STLS" PROVE offerCaptured # "no"
        BY <2>6, <4>1 DEF Pop3Inv
      <4>2. ASSUME NEW k \in DOMAIN lines, lines[k].head = "STLS" PROVE offered
        BY <2>1, <4>2
      <4> QED
        BY <1>3, <2>8, <3>3, <4>1, <4>2
    <3>6. ASSUME offerCaptured' = "named"
          PROVE  \E k \in DOMAIN server' :
                    /\ k + 1 \in DOMAIN server'
                    /\ OpensCapa(server'[k]) /\ server'[k + 1].head = "STLS"
      <4>1. CASE offerCaptured = "named"
        <5>1. PICK k \in DOMAIN server : /\ k + 1 \in DOMAIN server
                                         /\ OpensCapa(server[k]) /\ server[k + 1].head = "STLS"
          BY <2>6, <4>1 DEF Pop3Inv
        <5> QED
          BY <3>2, <5>1
      <4>2. CASE offered /\ "CAPA" \in w
        <5>1. 1 \in DOMAIN lines /\ 2 \in DOMAIN lines /\ OpensCapa(lines[1]) /\ lines[2].head = "STLS"
          BY <2>1, <4>2
        <5>2. (Len(server) + 1) + 1 = Len(server) + 2
          BY <3>2
        <5>3. /\ Len(server) + 1 \in DOMAIN server' /\ server'[Len(server) + 1] = lines[1]
              /\ Len(server) + 2 \in DOMAIN server' /\ server'[Len(server) + 2] = lines[2]
          BY <3>2, <5>1
        <5> QED
          BY <5>1, <5>2, <5>3
      <4> QED
        BY <1>3, <1>6, <3>6, <4>1, <4>2
    <3>7. Pop3Inv'
      BY <1>1, <3>4, <3>5, <3>6 DEF Pop3Inv
    <3> QED
      BY <1>1, <1>4, <1>6, <2>5, <3>7 DEF DialogueInv, ServerInv
  <2> QED
    BY <2>7, <2>8
<1> QED
  BY <1>1, <1>5, <1>6 DEF Protocols

LEMMA DialogueStep == DialogueInv /\ [Next]_vars => DialogueInv'
BY DialogueStutters, StartCaptureKeeps, GreetKeeps, AdvertiseKeeps, ReplyKeeps, AskKeeps,
   AcceptKeeps, RefuseKeeps, SendTextKeeps, HelloKeeps, ServerHelloKeeps, CloseKeeps DEF Next

(* At any moment the capture holds what the order of the dialogue lets the *)
(* peers have said (DialogueInv above), whatever the wordings.             *)
THEOREM DialogueInvariant == Spec => []DialogueInv
<1>1. Init => DialogueInv
  BY DialogueInit
<1>2. DialogueInv /\ [Next]_vars => DialogueInv'
  BY DialogueStep
<1> QED
  BY <1>1, <1>2, PTL DEF Spec

-----------------------------------------------------------------------------
(***************************************************************************)
(* What the program says of the capture.                                   *)
(***************************************************************************)
LEMMA VerdictOfResult ==
    /\ HasFinding(Verdict, "CRYPTO-001") <=> Complete /\ Result.server_accepted # "yes"
    /\ HasFinding(Verdict, "CRYPTO-007") <=>
           Complete /\ CapabilitySeen(protocol, server) /\ ~TlsStarted(Result)
    /\ TlsStarted(Result) <=> Result.server_accepted = "yes" /\ HelloAfterMention(client)
<1> DEFINE seen == AnyLine(client, Mentions) /\ Accepted(protocol, client, server)
<1>1. /\ Result.offered = CapabilitySeen(protocol, server)
      /\ Result.server_accepted = ServerAccepted(AnyLine(client, Mentions), seen)
      /\ Result.clienthello = (seen /\ HelloAfterMention(client))
  BY DEF Result, DetectStartTls
<1> HIDE DEF seen
<1>2. Result.server_accepted = "yes" => seen
  BY <1>1 DEF ServerAccepted
<1>3. seen => Result.server_accepted = "yes"
  BY <1>1 DEF ServerAccepted, seen
<1>4. Result.clienthello <=> (seen /\ HelloAfterMention(client))
  BY Zenon, <1>1
<1>5. TlsStarted(Result) <=> Result.server_accepted = "yes" /\ HelloAfterMention(client)
  BY <1>2, <1>3, <1>4 DEF TlsStarted
<1>6. /\ Verdict.starttls_offered = (~FALSE /\ Result.offered)
      /\ Verdict.starttls_used = (~FALSE /\ TlsStarted(Result))
      /\ Verdict.tls_attempted =
             (FALSE \/ Result.server_accepted = "yes" \/ Result.clienthello)
      /\ Verdict.tls_session = IF FALSE \/ TlsStarted(Result) THEN Parsed ELSE NoTls
      /\ Verdict.capture_complete = Complete
  <2> DEFINE no == FALSE
  <2>1. Verdict = Session(no, Result, Parsed, Complete)
    BY DEF Verdict
  <2>2. ~no
    OBVIOUS
  <2> HIDE DEF no
  <2>3. /\ Verdict.starttls_offered = (~no /\ Result.offered)
        /\ Verdict.starttls_used = (~no /\ TlsStarted(Result))
        /\ Verdict.tls_attempted =
               (no \/ Result.server_accepted = "yes" \/ Result.clienthello)
        /\ Verdict.tls_session = IF no \/ TlsStarted(Result) THEN Parsed ELSE NoTls
        /\ Verdict.capture_complete = Complete
    BY <2>1, FieldsOfSession DEF TlsStarted
  <2> QED
    BY Zenon, <2>3 DEF no
<1>7. /\ Verdict.starttls_offered <=> CapabilitySeen(protocol, server)
      /\ Verdict.starttls_used <=> TlsStarted(Result)
      /\ Verdict.tls_attempted <=> Result.server_accepted = "yes"
      /\ Verdict.capture_complete <=> Complete
      /\ HasTls(Verdict) => Result.server_accepted = "yes"
  <2>1. Verdict.starttls_offered <=> CapabilitySeen(protocol, server)
    BY Zenon, <1>1, <1>6
  <2>2. Verdict.starttls_used <=> TlsStarted(Result)
    BY Zenon, <1>6
  <2>3. Verdict.tls_attempted <=> Result.server_accepted = "yes"
    BY Zenon, <1>3, <1>4, <1>6
  <2>4. Verdict.capture_complete <=> Complete
    BY Zenon, <1>6
  <2>5. HasTls(Verdict) => Result.server_accepted = "yes"
    BY Zenon, <1>5, <1>6 DEF HasTls
  <2> QED
    BY <2>1, <2>2, <2>3, <2>4, <2>5
<1>8. NoEncryption(Verdict) <=> Complete /\ Result.server_accepted # "yes"
  BY <1>7 DEF NoEncryption
<1>9. OfferUnused(Verdict) <=>
         Complete /\ CapabilitySeen(protocol, server) /\ ~TlsStarted(Result)
  BY <1>7 DEF OfferUnused
<1> QED
  BY <1>5, <1>8, <1>9, FindingOfRule

LEMMA ResultOfAgreement ==
    Result.server_accepted = "yes" <=>
        /\ AnyLine(client, Mentions) /\ CommandSeen(protocol, client)
        /\ ServerAgrees(protocol, client, server)
BY DEF Result, DetectStartTls, ServerAccepted, Accepted

(* The tag by which the detector knows the answer.                         *)
LEMMA CommandTagged ==
    ASSUME DialogueTypes
    PROVE  /\ ImapCommandTag(client) # NoTag => ImapCommandTag(client) \notin Untagged
           /\ client # <<>> /\ client[1].tag # NoTag => ImapCommandTag(client) = client[1].tag
<1> DEFINE tagged == {k \in DOMAIN client : client[k].tag # NoTag}
<1>1. client \in Seq(ClientLine) /\ tagged \subseteq Nat /\ tagged \subseteq DOMAIN client
  BY DEF DialogueTypes
<1>2. tagged # {} => Least(tagged) \in tagged /\ \A n \in tagged : Least(tagged) <= n
  <2> HIDE DEF tagged
  <2> QED
    BY <1>1, LeastNumber
<1>3. \A k \in DOMAIN client : client[k].tag \in Range(Tags) \cup {NoTag, "first_word"}
  <2>1. \A c \in ClientLine : c.tag \in Range(Tags) \cup {NoTag, "first_word"}
    BY DEF ClientLine
  <2>2. \A k \in DOMAIN client : client[k] \in ClientLine
    BY <1>1
  <2> QED
    BY <2>1, <2>2
<1>4. ImapCommandTag(client) = IF tagged = {} THEN NoTag ELSE client[Least(tagged)].tag
  BY DEF ImapCommandTag
<1>5. ImapCommandTag(client) # NoTag => ImapCommandTag(client) \notin Untagged
  <2>1. Range(Tags) \cap Untagged = {} /\ "first_word" \notin Untagged
    BY TagsAreSequence DEF Untagged
  <2>2. tagged # {} => Least(tagged) \in DOMAIN client
    BY <1>1, <1>2
  <2> HIDE DEF tagged
  <2> QED
    BY <1>3, <1>4, <2>1, <2>2
<1>6. ASSUME client # <<>>, client[1].tag # NoTag PROVE ImapCommandTag(client) = client[1].tag
  <2>1. 1 \in tagged /\ \A n \in tagged : 1 <= n /\ n \in Nat
    BY <1>1, <1>6
  <2> HIDE DEF tagged
  <2>2. Least(tagged) \in tagged /\ Least(tagged) <= 1
    BY <1>2, <2>1
  <2> DEFINE first == Least(tagged)
  <2>3. 1 <= first /\ first \in Nat /\ first <= 1
    BY <2>1, <2>2
  <2> HIDE DEF first
  <2>4. first = 1
    BY <2>3
  <2> QED
    BY <1>4, <2>1, <2>4 DEF first
<1> QED
  BY <1>5, <1>6

(* An acceptance that was captured is recognised.                          *)
LEMMA AcceptanceRecognised ==
    ASSUME AsksOnce, DialogueInv, fromStart, accepted = "known"
    PROVE  Result.server_accepted = "yes"
<1>1. /\ asks > 0 /\ protocol \in Spoken /\ Spoken \subseteq Protocols
      /\ asks \in 0..MaxAsks[protocol] /\ server \in Seq(ServerLine)
  BY DialogueAssumption DEF DialogueInv, DialogueTypes, Course
<1>2. PICK k \in DOMAIN client : client[k].kind = "command"
  BY <1>1 DEF DialogueInv, ClientInv
<1>3. AnyLine(client, Mentions) /\ CommandSeen(protocol, client)
  BY <1>2 DEF AnyLine, Mentions, CommandSeen, LooksLikeCommand
<1>4. CASE protocol = "SMTP"
  <2>1. /\ server # <<>> /\ server[Len(server)].head = "220"
        /\ Says(server[Len(server)], SmtpAcceptance)
    BY <1>4 DEF DialogueInv, ServerInv, SmtpInv
  <2>2. Len(server) \in DOMAIN server /\ \A m \in (Len(server) + 1)..Len(server) : FALSE
    BY <1>1, <2>1
  <2>3. SmtpAccepts(server)
    BY <2>1, <2>2 DEF SmtpAccepts, SmtpDecides
  <2> QED
    BY <1>3, <1>4, <2>3, ResultOfAgreement DEF ServerAgrees
<1>5. CASE protocol = "IMAP"
  <2>1. asks = 1 /\ Tags[1] \in Range(Tags) /\ Tags[1] # NoTag /\ Tags[1] \notin Untagged
    <3>1. MaxAsks["IMAP"] <= 1 /\ MaxAsks["IMAP"] \in 0..Len(Tags) /\ Len(Tags) \in Nat
      BY <1>1, <1>5, DialogueAssumption, TagsAreSequence DEF AsksOnce
    <3>2. asks = 1 /\ 1 \in 1..Len(Tags)
      BY <1>1, <1>5, <3>1
    <3> QED
      BY <3>2, TagsAreSequence
  <2>2. /\ server # <<>> /\ server[Len(server)].head = Tags[1] /\ server[Len(server)].status = "OK"
        /\ Says(server[Len(server)], ImapAcceptance)
        /\ \A m \in DOMAIN server : m < Len(server) => server[m].head \in Untagged
    BY <1>5, <2>1 DEF DialogueInv, ServerInv, ImapInv
  <2>3. client # <<>> /\ client[1].tag = Tags[1]
    BY <1>1, <1>5 DEF DialogueInv, ClientInv
  <2>4. ImapCommandTag(client) = Tags[1]
    BY <2>1, <2>3, CommandTagged DEF DialogueInv
  <2>5. Len(server) \in DOMAIN server /\ \A m \in 1..(Len(server) - 1) : server[m].head # Tags[1]
    BY <1>1, <2>1, <2>2
  <2>6. ImapAccepts(server, Tags[1])
    BY <2>2, <2>5 DEF ImapAccepts
  <2> QED
    BY <1>3, <1>5, <2>1, <2>4, <2>6, ResultOfAgreement DEF ServerAgrees
<1>6. CASE protocol = "POP3"
  <2>1. Pop3Accepts(server)
    BY <1>6 DEF DialogueInv, ServerInv, Pop3Inv
  <2> QED
    BY <1>3, <1>6, <2>1, ResultOfAgreement DEF ServerAgrees
<1> QED
  BY <1>1, <1>4, <1>5, <1>6 DEF Protocols

(* Nothing else is, but in SMTP and POP3 for a line that misleads.         *)
LEMMA OthersMislead ==
    ASSUME DialogueInv, accepted # "known", ~misled \/ protocol = "IMAP"
    PROVE  ~ServerAgrees(protocol, client, server)
<1>1. protocol \in {"SMTP", "IMAP", "POP3"}
  BY DialogueAssumption DEF DialogueInv, DialogueTypes, Protocols
<1>2. CASE protocol = "IMAP"
  <2>1. ImapCommandTag(client) # NoTag => ImapCommandTag(client) \notin Untagged
    BY CommandTagged DEF DialogueInv
  <2>2. \A k \in DOMAIN server :
           server[k].status = "OK" /\ Says(server[k], ImapAcceptance) => server[k].head \in Untagged
    BY <1>2 DEF DialogueInv, ServerInv, ImapInv
  <2>3. ImapCommandTag(client) # NoTag => ~ImapAccepts(server, ImapCommandTag(client))
    BY <2>1, <2>2 DEF ImapAccepts
  <2> QED
    BY <1>2, <2>3 DEF ServerAgrees
<1>3. CASE protocol = "POP3"
  BY <1>3 DEF DialogueInv, ServerInv, Pop3Inv, ServerAgrees
<1>4. CASE protocol = "SMTP"
  <2>1. ~SmtpAccepts(server)
    BY <1>4 DEF DialogueInv, ServerInv, SmtpInv, SmtpAccepts, SmtpDecides
  <2> QED
    BY <1>4, <2>1 DEF ServerAgrees
<1> QED
  BY <1>1, <1>2, <1>3, <1>4

(* An offer is only recognised if it was captured, and always unless a     *)
(* POP3 list does not name CAPA.                                           *)
LEMMA OfferRecognised ==
    ASSUME DialogueInv
    PROVE  /\ CapabilitySeen(protocol, server) => offerCaptured # "no"
           /\ offerCaptured = "named" => CapabilitySeen(protocol, server)
<1>1. protocol \in {"SMTP", "IMAP", "POP3"} /\ server \in Seq(ServerLine)
  BY DialogueAssumption DEF DialogueInv, DialogueTypes, Protocols
<1>2. CASE protocol = "SMTP"
  BY <1>2 DEF DialogueInv, ServerInv, SmtpInv, CapabilitySeen
<1>3. CASE protocol = "IMAP"
  BY <1>3 DEF DialogueInv, ServerInv, ImapInv, CapabilitySeen
<1>4. CASE protocol = "POP3"
  <2>1. Pop3Inv
    BY <1>4 DEF DialogueInv, ServerInv
  <2>2. Pop3CapabilitySeen(server) => offerCaptured # "no"
    BY <2>1 DEF Pop3Inv, Pop3CapabilitySeen
  <2>3. ASSUME offerCaptured = "named" PROVE Pop3CapabilitySeen(server)
    <3>1. PICK k \in DOMAIN server : /\ k + 1 \in DOMAIN server
                                     /\ OpensCapa(server[k]) /\ server[k + 1].head = "STLS"
      BY <2>1, <2>3 DEF Pop3Inv
    <3>2. k < k + 1 /\ \A n \in (k + 1)..((k + 1) - 1) : FALSE
      BY <1>1
    <3> QED
      BY <3>1, <3>2 DEF Pop3CapabilitySeen
  <2> QED
    BY <1>4, <2>2, <2>3 DEF CapabilitySeen
<1> QED
  BY <1>1, <1>2, <1>3, <1>4

(* The ClientHello counts if it was captured.                              *)
LEMMA HelloCounts ==
    ASSUME DialogueInv
    PROVE  /\ TlsStarted(Result) => handshake # "none"
           /\ AsksOnce /\ fromStart /\ accepted = "known" /\ handshake # "none" => TlsStarted(Result)
<1>1. HelloAfterMention(client) => handshake # "none"
  BY DEF DialogueInv, ClientInv, HelloAfterMention
<1>2. fromStart /\ handshake # "none" => HelloAfterMention(client)
  BY DEF DialogueInv, ClientInv
<1> QED
  BY <1>1, <1>2, AcceptanceRecognised, VerdictOfResult

(* No captured upgrade to TLS that was agreed in words the detector looks  *)
(* for is missed, whatever was refused, said or written before it, when an *)
(* IMAP client asks once (the run with a second IMAP command shows that    *)
(* this is needed).                                                        *)
THEOREM CapturedUpgrades == ASSUME AsksOnce PROVE Spec => []UpgradeSeen
<1>1. DialogueInv => UpgradeSeen
  BY HelloCounts DEF UpgradeSeen
<1> QED
  BY <1>1, DialogueInvariant, PTL

(* No server is reported to have agreed that has not, of any protocol and  *)
(* with any wordings, unless a greeting, a list or a reply to another      *)
(* command reads like an acceptance; of an IMAP server, not even then.     *)
THEOREM AcceptancesAreReal == Spec => []OnlyRemarksMislead
<1>1. ASSUME DialogueInv PROVE OnlyRemarksMislead
  <2>1. accepted = "no" => accepted # "known"
    OBVIOUS
  <2> QED
    BY <1>1, <2>1, OthersMislead, ResultOfAgreement DEF OnlyRemarksMislead, AcceptanceIsReal
<1> QED
  BY <1>1, DialogueInvariant, PTL

(* A captured refusal that names TLS stands until the server agrees after  *)
(* all: no greeting before it and no list or reply after it overrules it,  *)
(* but for a misleading line of a POP3 server.                             *)
THEOREM RefusalsStand == Spec => []RefusalStands
<1>1. ASSUME DialogueInv PROVE RefusalStands
  <2> SUFFICES ASSUME accepted = "no", refusals # <<>>, "TLS" \in Last(refusals),
                      protocol = "POP3" => ~misled
               PROVE  ~ServerAgrees(protocol, client, server)
    BY ResultOfAgreement DEF RefusalStands
  <2>1. CASE protocol # "SMTP"
    <3>1. protocol \in {"SMTP", "IMAP", "POP3"} /\ accepted # "known"
      BY <1>1, DialogueAssumption DEF DialogueInv, DialogueTypes, Protocols
    <3> QED
      BY <1>1, <2>1, <3>1, OthersMislead
  <2>2. CASE protocol = "SMTP"
    <3>1. PICK k \in DOMAIN server :
             /\ server[k].head = "refusal" /\ server[k].words = Last(refusals)
             /\ \A m \in DOMAIN server : m > k => server[m].head \in {"250", "refusal"}
      BY <1>1, <2>2 DEF DialogueInv, ServerInv, SmtpInv
    <3>2. server \in Seq(ServerLine) /\ DOMAIN server = 1..Len(server)
      BY <1>1 DEF DialogueInv, DialogueTypes
    <3>3. SmtpDecides(server[k])
      BY <3>1 DEF SmtpDecides, Says
    <3>4. ASSUME NEW n \in DOMAIN server, SmtpDecides(server[n]), server[n].head = "220",
                 \A m \in (n + 1)..Len(server) : ~SmtpDecides(server[m])
          PROVE  FALSE
      <4>1. n # k
        BY <3>1, <3>4
      <4>2. ~(n > k)
        BY <3>1, <3>4
      <4>3. k \in (n + 1)..Len(server)
        BY <3>2, <4>1, <4>2
      <4> QED
        BY <3>3, <3>4, <4>3
    <3> QED
      BY <2>2, <3>4 DEF SmtpAccepts, ServerAgrees
  <2> QED
    BY <2>1, <2>2
<1> QED
  BY <1>1, DialogueInvariant, PTL

(* The critical finding is never given to a dialogue in which the server   *)
(* agreed to TLS in words the detector looks for, nor to one that was not  *)
(* captured from opening to close.                                         *)
THEOREM PlaintextVerdicts == ASSUME AsksOnce PROVE Spec => []PlaintextVerdict
<1>1. ASSUME DialogueInv PROVE PlaintextVerdict
  BY <1>1, VerdictOfResult, AcceptanceRecognised DEF PlaintextVerdict, Complete
<1> QED
  BY <1>1, DialogueInvariant, PTL

(* In IMAP and POP3 it is given to every other dialogue, unless a line of  *)
(* a POP3 server misleads.                                                 *)
THEOREM PlaintextIsFound == ASSUME AsksOnce PROVE Spec => []PlaintextExact
<1>1. ASSUME DialogueInv PROVE PlaintextExact
  <2>1. (protocol = "IMAP" \/ ~misled) /\ accepted # "known" => Result.server_accepted # "yes"
    BY <1>1, OthersMislead, ResultOfAgreement
  <2>2. fromStart /\ accepted = "known" => Result.server_accepted = "yes"
    BY <1>1, AcceptanceRecognised
  <2> QED
    BY <2>1, <2>2, VerdictOfResult DEF PlaintextExact, Complete
<1> QED
  BY <1>1, DialogueInvariant, PTL

(* An offer is reported unused only if it was captured and no recognisable *)
(* upgrade was, and whenever no ClientHello followed one that a POP3 list  *)
(* names, of any wording.                                                  *)
THEOREM UnusedOffers == ASSUME AsksOnce PROVE Spec => []UnusedOfferReported
<1>1. ASSUME DialogueInv PROVE UnusedOfferReported
  <2>1. /\ TlsStarted(Result) => handshake # "none"
        /\ Complete /\ accepted = "known" /\ handshake # "none" => TlsStarted(Result)
    BY <1>1, HelloCounts DEF Complete
  <2>2. /\ CapabilitySeen(protocol, server) => offerCaptured # "no"
        /\ offerCaptured = "named" => CapabilitySeen(protocol, server)
    BY <1>1, OfferRecognised
  <2> QED
    BY <2>1, <2>2, VerdictOfResult DEF UnusedOfferReported
<1> QED
  BY <1>1, DialogueInvariant, PTL
===============================================================================

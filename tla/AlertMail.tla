----------------------------- MODULE AlertMail -----------------------------
(***************************************************************************)
(* What sending one alert mail can come to: who is addressed               *)
(* (alert-service.ts) and the conversation with the mail server            *)
(* (smtp-client.ts).  An address is a record of its lower-case form and of *)
(* the way it was typed; the text of the mail is left out.                 *)
(***************************************************************************)
EXTENDS Naturals, FiniteSets, Sequences, SequencesExt

CONSTANTS
  Contacts,    \* admin_contacts of the project, as typed, or <<>>
  Admin,       \* ADMIN_EMAIL, or Blank
  StartTls,    \* port 587 without smtps:
  Login,       \* the URL has a user and a password
  MaxTroubles  \* commands of a conversation the server does not just obey

Address(key, typed) == [key |-> key, typed |-> typed]
Blank == Address("", "")

ASSUME MailAssumption ==
  /\ Contacts \in Seq(ToSet(Contacts))
  /\ \A c \in ToSet(Contacts) \cup {Admin} : c = Address(c.key, c.typed)
  /\ {StartTls, Login} \subseteq BOOLEAN
  /\ MaxTroubles \in Nat

-----------------------------------------------------------------------------
(* Recipients.                                                             *)

\* normalizeEmailList: blanks go, and all but the first spelling.
NormalizeEmailList(to) ==
  LET Seen(c, out) == \E k \in DOMAIN out : out[k].key = c.key
      out[n \in 0..Len(to)] ==
        IF n = 0 THEN <<>>
        ELSE out[n - 1] \o (IF to[n] = Blank \/ Seen(to[n], out[n - 1]) THEN <<>> ELSE <<to[n]>>)
  IN out[Len(to)]

\* The contacts, and ADMIN_EMAIL as copy or as the only recipient.
ResolveAlertRecipients(to) ==
  LET contacts == NormalizeEmailList(to)
      named == \E c \in ToSet(contacts) : c.key = Admin.key
  IN contacts \o (IF Admin = Blank \/ named THEN <<>> ELSE <<Admin>>)

-----------------------------------------------------------------------------
(* The conversation: the client sends a command, reads one line and        *)
(* compares its code; it knows of no reply of several lines.               *)

Cmd(verb, expects) == [verb |-> verb, expects |-> expects, to |-> Blank]
Rcpt(address) == [Cmd("RCPT", 250) EXCEPT !.to = address]
When(condition, commands) == IF condition THEN commands ELSE <<>>

\* sendSmtpMail, from the greeting to QUIT.
Script(to) ==
  <<Cmd("greeting", 220), Cmd("EHLO", 250)>>
  \o When(StartTls, <<Cmd("STARTTLS", 220), Cmd("EHLO", 250)>>)
  \o When(Login, <<Cmd("AUTH", 334), Cmd("user", 334), Cmd("pass", 235)>>)
  \o <<Cmd("MAIL", 250)>>
  \o [i \in DOMAIN to |-> Rcpt(to[i])]
  \o <<Cmd("DATA", 354), Cmd("text", 250), Cmd("QUIT", 221)>>

\* How a server answers a command.  The line of code 0 stands for a reset of
\* the connection, which rejects the read; a server that falls silent, or
\* closes the connection in good order, answers nothing from then on.
Manners == {"obeys", "explains", "refuses", "resets", "falls silent"}

Reply(command, manner) ==
  CASE manner = "obeys"    -> <<command.expects>>
    [] manner = "explains" -> <<command.expects, command.expects>>
    [] manner = "refuses"  -> <<550>>
    [] manner = "resets"   -> <<0>>
    [] OTHER               -> <<>>

\* Server is a function from the commands of the script to manners.
Lines(script, server) ==
  LET mute == {i \in DOMAIN script : server[i] = "falls silent"}
  IN FlattenSeq([i \in DOMAIN script |->
       IF \E k \in mute : k <= i THEN <<>> ELSE Reply(script[i], server[i])])

\* Mutant: the answers to RCPT are not looked at.
MatchesButRcpt(script, lines, i) ==
  i \in DOMAIN lines /\ (lines[i] = script[i].expects \/ script[i].verb = "RCPT")

\* expect: the i-th line read is compared with the i-th code awaited.
Matches(script, lines, i) == i \in DOMAIN lines /\ lines[i] = script[i].expects

\* Command i is sent once everything before it was answered as awaited.
Reaches(script, lines, i) == \A k \in 1..(i - 1) : Matches(script, lines, k)

\* What the promise comes to.  Nothing times a conversation out.
Outcome(script, lines) ==
  CASE \A i \in DOMAIN script : Matches(script, lines, i) -> "sent"
    [] \E i \in DOMAIN script :
         /\ Reaches(script, lines, i)
         /\ i \in DOMAIN lines
         /\ ~Matches(script, lines, i) -> "failed"
    [] OTHER -> "hung"

\* The addresses the server has taken the text for.
Taken(script, lines, server) ==
  LET willing == {i \in DOMAIN script : /\ Reaches(script, lines, i)
                                        /\ server[i] \in {"obeys", "explains"}}
  IN IF \E i \in willing : script[i].verb = "text"
     THEN {script[i].to.key : i \in {k \in willing : script[k].verb = "RCPT"}}
     ELSE {}

Servers(script) ==
  { [i \in DOMAIN script |-> IF i \in DOMAIN t THEN t[i] ELSE "obeys"] :
      t \in UNION {[c -> Manners \ {"obeys"}] : c \in
                     {d \in SUBSET DOMAIN script : Cardinality(d) <= MaxTroubles}} }

\* Every result a mail to these addresses can have; whom a failed one has
\* reached all the same is left open.
Results(to) ==
  LET script == Script(to)
      Result(server) ==
        LET lines == Lines(script, server)
            outcome == Outcome(script, lines)
        IN [outcome |-> outcome,
            taken |-> IF outcome = "sent" THEN Taken(script, lines, server) ELSE {}]
  IN {Result(server) : server \in Servers(script)}
=============================================================================

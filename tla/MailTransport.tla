----------------------------- MODULE MailTransport -----------------------------
(***************************************************************************)
(* One mail through InvitationMailer and GmailSmtpTransport: a             *)
(* conversation over TLS, and when it breaks a second one that starts in   *)
(* the clear (STARTTLS).  A refusal by the server ends the mail; any other *)
(* failure of the first conversation is answered by the second, although   *)
(* the server may have accepted the mail, or accept it later.              *)
(*                                                                         *)
(* The client always waits for a line, so the lines and waiters that       *)
(* SmtpSession queues are those of one event and are not state.  The       *)
(* server follows the protocol: it answers each command once, in one or    *)
(* more lines, with 250 after the text only if it accepted the mail, and   *)
(* may say 421 or anything unreadable, fall silent or close at any time.   *)
(***************************************************************************)
EXTENDS Integers, Sequences, FiniteSets

CONSTANTS Modes         \* of config.mailMode: a subset of {"gmail-smtp", "webhook", "outbox"}

VARIABLES
    mode,
    recipientValid,     \* mailbox(payload.to) does not throw
    attempt,            \* the conversation under way
    position,           \* in its script: the reply awaited
    code,               \* the first line's code of a reply of which more is to come, or None
    texts,              \* what became of the text each conversation wrote
    sent,               \* the promise of deliver: "pending", "resolved" or "rejected"
    refusals            \* history: the conversations in which the server refused

mailVars == <<mode, recipientValid, attempt, position, code, texts, sent, refusals>>

Attempts == {"implicitTls", "startTls"}
None == 0

(* authenticateAndSend, after the greeting or after the second handshake.    *)
Conversation == <<"EHLO", "AUTH", "MAIL", "RCPT", "DATA", "text", "QUIT">>
Script(a) == IF a = "implicitTls" THEN <<"greeting">> \o Conversation
             ELSE <<"greeting", "EHLO", "STARTTLS", "handshake">> \o Conversation

Step == Script(attempt)[position]

Expected(step) ==
    CASE step \in {"greeting", "STARTTLS"} -> {220}
      [] step \in {"EHLO", "MAIL", "text"} -> {250}
      [] step = "AUTH" -> {235}
      [] step = "RCPT" -> {250, 251}
      [] step = "DATA" -> {354}
      [] step = "QUIT" -> {221}
      [] step = "handshake" -> {}

MailInit ==
    /\ mode \in Modes /\ recipientValid \in BOOLEAN
    /\ attempt = "implicitTls" /\ position = 1 /\ code = None
    /\ texts = [a \in Attempts |-> "unsent"]
    /\ sent = "pending" /\ refusals = {}

Waiting == mode = "gmail-smtp" /\ sent = "pending"

(* send: what happens when the conversation under way throws.                *)
Fails(refused) ==
    IF attempt = "implicitTls" /\ ~refused
    THEN attempt' = "startTls" /\ position' = 1 /\ UNCHANGED sent
    ELSE sent' = "rejected" /\ UNCHANGED <<attempt, position>>

(* The next command; the address is looked at when RCPT is to be written,    *)
(* and the text is written when DATA is answered.                            *)
Advances ==
    LET next == Script(attempt)[position + 1] IN
    CASE Step = "QUIT" -> sent' = "resolved" /\ UNCHANGED <<attempt, position, texts>>
      [] Step # "QUIT" /\ next = "RCPT" /\ ~recipientValid -> Fails(FALSE) /\ UNCHANGED texts
      [] OTHER ->
            /\ position' = position + 1
            /\ texts' = IF next = "text" THEN [texts EXCEPT ![attempt] = "written"] ELSE texts
            /\ UNCHANGED <<attempt, sent>>

Says(c) == Step = "text" /\ c \in Expected("text") => texts[attempt] = "accepted"

(* A line of a reply: reply and command.                                     *)
LineOfMore(c) ==
    /\ Waiting /\ Step # "handshake" /\ Says(c)
    /\ code \in {None, c} /\ code' = c
    /\ UNCHANGED <<mode, recipientValid, attempt, position, texts, sent, refusals>>

LastLine(c) ==
    /\ Waiting /\ Step # "handshake" /\ Says(c)
    /\ code \in {None, c} /\ code' = None
    /\ IF c \in Expected(Step) THEN Advances /\ UNCHANGED refusals
       ELSE Fails(TRUE) /\ UNCHANGED texts /\ refusals' = refusals \cup {attempt}
    /\ UNCHANGED <<mode, recipientValid>>

(* secure: the second handshake. *)
Secured ==
    /\ Waiting /\ Step = "handshake"
    /\ position' = position + 1
    /\ UNCHANGED <<mode, recipientValid, attempt, code, texts, sent, refusals>>

(* A line that is no reply or of another code, an error, the timeout and the *)
(* end of the connection.                                                    *)
Breaks ==
    /\ Waiting /\ Fails(FALSE) /\ code' = None
    /\ UNCHANGED <<mode, recipientValid, texts, refusals>>

(* The server takes a text, perhaps after the client has given up, or not.   *)
Accepts(a) ==
    /\ texts[a] = "written" /\ \E t \in {"accepted", "refused"} : texts' = [texts EXCEPT ![a] = t]
    /\ UNCHANGED <<mode, recipientValid, attempt, position, code, sent, refusals>>

(* deliver without Gmail: the webhook, which may take the mail and its       *)
(* answer be lost, and the outbox in memory.                                 *)
Handed(took, answer) ==
    /\ mode # "gmail-smtp" /\ sent = "pending"
    /\ mode = "outbox" => took /\ answer = "resolved"
    /\ answer = "resolved" => took
    /\ texts' = IF took THEN [texts EXCEPT !["implicitTls"] = "accepted"] ELSE texts
    /\ sent' = answer
    /\ UNCHANGED <<mode, recipientValid, attempt, position, code, refusals>>

Codes == {220, 221, 235, 250, 251, 354, 421, 550}

MailNext ==
    \/ \E c \in Codes : LineOfMore(c) \/ LastLine(c)
    \/ Secured \/ Breaks
    \/ \E a \in Attempts : Accepts(a)
    \/ \E took \in BOOLEAN, answer \in {"resolved", "rejected"} : Handed(took, answer)

------------------------------------------------------------------------------
(* A mail said to be sent was accepted; a second copy goes out only when the *)
(* answer to the first was lost, never after a refusal, and no text is       *)
(* written to an address that is none.                                       *)
MailIsSentWhenSaid ==
    LET copies == {a \in Attempts : texts[a] = "accepted"} IN
    /\ sent = "resolved" => copies # {}
    /\ copies = Attempts => mode = "gmail-smtp" /\ "implicitTls" \notin refusals
    /\ ~recipientValid /\ mode = "gmail-smtp" => texts = [a \in Attempts |-> "unsent"]
=============================================================================

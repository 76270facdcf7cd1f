------------------------------- MODULE Mailer -------------------------------
(***************************************************************************)
(* pkg/mail: Send of the two mailers, seen from the goroutine that called  *)
(* it and from the mail server. An SMTP session is over for the server     *)
(* once it has taken the message; the caller hears of it later, or never.  *)
(* Send has a context and does not look at it, so a server that falls      *)
(* silent keeps the goroutine.                                             *)
(***************************************************************************)
EXTENDS Naturals

CONSTANTS
    Senders,    \* goroutines that execute a job
    Mails       \* the messages, one per job

VARIABLES
    transport,  \* the mailer NewMailer has chosen: "smtp" or "log"
    session,    \* where Send is in each goroutine
    silent,     \* goroutines that wait for a server that does not answer
    delivered,  \* history: whether the server has taken the message of the session
    accepted    \* history: how often it has taken each message

mailvars == <<transport, session, silent, delivered, accepted>>

Sessions == {"idle", "open", "sending", "taken", "sent", "error"}

At(s, step) == session[s] = step
Goes(s, step) == session' = [session EXCEPT ![s] = step]

\* NewMailer: everything but a driver with a host writes to the log.
NewMailer(driver, host) == IF driver = "log" \/ ~host THEN "log" ELSE "smtp"

MailInit ==
    /\ \E driver \in {"smtp", "log"}, host \in BOOLEAN :
          transport = NewMailer(driver, host)
    /\ session = [s \in Senders |-> "idle"]
    /\ silent = {}
    /\ delivered = [s \in Senders |-> FALSE]
    /\ accepted = [m \in Mails |-> 0]

\* SendTemplate: the template may fail, and the log mailer is done at once.
Compose(s) ==
    /\ At(s, "idle")
    /\ Goes(s, "error") \/ Goes(s, IF transport = "log" THEN "sent" ELSE "open")
    /\ UNCHANGED <<transport, silent, delivered, accepted>>

\* [mutant of Converse] an error before DATA is logged, and nil returned.
ConverseUnchecked(s) ==
    /\ At(s, "open")
    /\ Goes(s, "sending") \/ Goes(s, "sent")
    /\ UNCHANGED <<delivered, accepted>>

\* Dial, TLS, AUTH, MAIL, RCPT, DATA and the text: any of them may fail.
Converse(s) ==
    /\ At(s, "open")
    /\ Goes(s, "sending") \/ Goes(s, "error")
    /\ UNCHANGED <<delivered, accepted>>

\* w.Close() ends the text, and the server takes the message or does not.
EndText(s, m) ==
    /\ At(s, "sending")
    /\ \/ /\ Goes(s, "taken")
          /\ delivered' = [delivered EXCEPT ![s] = TRUE]
          /\ accepted' = [accepted EXCEPT ![m] = @ + 1]
       \/ Goes(s, "error") /\ UNCHANGED <<delivered, accepted>>

\* The server's answer to the text may be lost, and the error of QUIT is the
\* error of Send, although the message is on its way.
Quit(s) ==
    /\ At(s, "taken")
    /\ Goes(s, "sent") \/ Goes(s, "error")
    /\ UNCHANGED <<delivered, accepted>>

SendStep(s, m) ==
    /\ s \notin silent
    /\ Converse(s) \/ EndText(s, m) \/ Quit(s)
    /\ UNCHANGED <<transport, silent>>

\* The server does not answer for longer than a reservation lasts.
Hang(s) ==
    /\ session[s] \in {"open", "sending", "taken"} /\ s \notin silent
    /\ silent' = silent \union {s}
    /\ UNCHANGED <<transport, session, delivered, accepted>>

\* It answers after all, or the connection is given up.
Wake(s) ==
    /\ s \in silent
    /\ silent' = silent \ {s}
    /\ UNCHANGED <<transport, session, delivered, accepted>>

MailTypeOK ==
    /\ transport \in {"smtp", "log"}
    /\ session \in [Senders -> Sessions] /\ silent \subseteq Senders
    /\ delivered \in [Senders -> BOOLEAN]
    /\ accepted \in [Mails -> Nat]
=============================================================================

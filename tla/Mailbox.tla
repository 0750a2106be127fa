------------------------------- MODULE Mailbox -------------------------------
(***************************************************************************)
(* What a channel of messages promises, however many queues it is made of  *)
(* and however many readers share it: every message is handed out at most  *)
(* once, and in the order in which the messages were posted.               *)
(***************************************************************************)
EXTENDS Naturals, Sequences

CONSTANT Messages

VARIABLES
    sent,       \* the messages posted so far
    delivered   \* the messages handed out so far

mailVars == <<sent, delivered>>

MailInit == sent = <<>> /\ delivered = <<>>

Post == \E m \in Messages : sent' = Append(sent, m)

(* The next message that nobody has, which may have been posted just now. *)
HandOut ==
    /\ Len(delivered) < Len(sent')
    /\ delivered' = Append(delivered, sent'[Len(delivered) + 1])

MailNext ==
    \/ Post /\ UNCHANGED delivered
    \/ UNCHANGED sent /\ HandOut
    \/ Post /\ HandOut

MailSpec == MailInit /\ [][MailNext]_mailVars
=============================================================================

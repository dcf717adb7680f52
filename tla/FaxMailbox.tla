------------------------------ MODULE FaxMailbox ------------------------------
(***************************************************************************)
(* What fetching faxes promises, without jobs, locks or passes: messages   *)
(* arrive, fax messages are kept, and a message may be settled, so that    *)
(* nobody will look at it again, only if it is kept or is no fax.  A       *)
(* message may be unsettled again; what is kept stays kept.                *)
(***************************************************************************)
EXTENDS Naturals, Sequences

CONSTANT Sources  \* mail accounts

VARIABLES
    mailbox,  \* per source, what each message is
    kept,     \* <<source, message>> of the faxes that are kept
    settled   \* <<source, message>> of the messages nobody will look at

mailboxVars == <<mailbox, kept, settled>>

Messages == {x \in Sources \X Nat : x[2] \in 1 .. Len(mailbox[x[1]])}

IsFax(x) == mailbox[x[1]][x[2]] = "fax"

MailboxInit ==
    /\ mailbox = [s \in Sources |-> <<>>]
    /\ kept = {}
    /\ settled = {}

Arrive ==
    /\ \E s \in Sources, kind \in {"fax", "other"} :
           mailbox' = [mailbox EXCEPT ![s] = Append(@, kind)]
    /\ UNCHANGED <<kept, settled>>

Keep ==
    /\ \E s \in Sources : \E m \in 1 .. Len(mailbox[s]) :
           /\ IsFax(<<s, m>>)
           /\ kept' = kept \cup {<<s, m>>}
    /\ UNCHANGED <<mailbox, settled>>

Settle ==
    /\ \A x \in settled' : x \in Messages /\ (IsFax(x) => x \in kept)
    /\ UNCHANGED <<mailbox, kept>>

MailboxNext == Arrive \/ Keep \/ Settle

MailboxSpec == MailboxInit /\ [][MailboxNext]_mailboxVars
=============================================================================

-------------------------- MODULE MCSessionManager --------------------------
(* Instances of SessionManager for TLC: which entries are appended.        *)
EXTENDS SessionManager

(* One type of each kind: the tree and the context, without files. *)
TreeTypes == {"message", "compaction", "label", "branch_summary", "model_change", "custom"}

(* The types that change what the model sees, or what a fork keeps. *)
ContextTypes == {"message", "compaction", "label", "branch_summary"}

(* The types _persist and the label index tell apart. *)
FileTypes == {"message", "label"}
=============================================================================

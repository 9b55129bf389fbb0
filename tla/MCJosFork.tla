----------------------------- MODULE MCJosFork -----------------------------
(* Instance of JosFork for TLC. *)
EXTENDS JosFork

Layout == <<"text", "stack">>
LayoutImage == [va \in {"text", "stack"} |-> IF va = "text" THEN 1 ELSE 0]
=============================================================================

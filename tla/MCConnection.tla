---------------------------- MODULE MCConnection ----------------------------
(***************************************************************************)
(* A small instance of Connection for TLC: an empty file, one that holds a *)
(* word the client searches for, and one that starts with a NUL byte and   *)
(* does not fit into a stream together with a text.  The other session     *)
(* uses one password; the session on the wire uses any.                    *)
(***************************************************************************)
EXTENDS Connection

SmallFiles == {<<>>, <<"word">>, <<"nul", "plain", "plain">>}

OnePassword ==
  LET p == CHOOSE p \in Passwords : TRUE IN {c \in Calls : c.password = p}
=============================================================================

----------------------------- MODULE MCUserSync -----------------------------
(* Small instances of UserSync for TLC. *)
EXTENDS UserSync

(* The public ids are interchangeable, and so are the workers. *)
MCUsers == {"ann", "bob"}
MCEmails == {"old", "new"}

Ev(id, user, type, at, email) ==
    [id |-> id, user |-> user, type |-> type, at |-> at, email |-> email]

(* ann is created, updated and deleted at one timestamp: only the rank of  *)
(* the types tells the events apart; bob is created.  No event follows a    *)
(* deletion.                                                                *)
MCEvents == {Ev(3, "ann", "user.created", 1, "old"),
             Ev(1, "ann", "user.updated", 1, "new"),
             Ev(0, "ann", "user.deleted", 1, NoEmail),
             Ev(2, "bob", "user.created", 1, "old")}

(* an update with a later timestamp than the deletion of its user *)
MCLateUpdate == {Ev(0, "ann", "user.created", 1, "old"),
                 Ev(1, "ann", "user.deleted", 2, NoEmail),
                 Ev(2, "ann", "user.updated", 3, "new")}
=============================================================================

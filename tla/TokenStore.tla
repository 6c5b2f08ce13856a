----------------------------- MODULE TokenStore -----------------------------
(***************************************************************************)
(* The Tokens table and the queries db_api.py runs on it, as operators on  *)
(* a set of rows.  A row is                                                *)
(*     [id, jwt, state, expires]                                           *)
(* where jwt stands for the token and for its hash alike: the hash is      *)
(* PBKDF2 with one fixed salt, so two rows carry the same hash exactly     *)
(* when they were made from the same token.  user_email and project_id of  *)
(* a row are the claims of its token.                                      *)
(***************************************************************************)
EXTENDS Integers, FiniteSets

CONSTANT None       \* Python's None: an absent filter, limit or offset

(* The rows filter_by(filter_dict) keeps: a filter that is None is left  *)
(* out of the dictionary.                                                  *)
Matching(rows, user, project, jwt) ==
    {t \in rows : /\ user # None => t.jwt.user = user
                  /\ project # None => t.jwt.project = project
                  /\ jwt # None => t.jwt = jwt}

(* Fault: a row counts as expired at the very time of its expiry.          *)
ExpiredRowsEarly(rows, time) == {t \in rows : t.expires <= time}

(* Rows whose expires_at lies strictly before the given time.              *)
ExpiredRows(rows, time) == {t \in rows : t.expires < time}

(* The first n rows in descending order of expires_at.  The database may   *)
(* order rows of equal expires_at as it likes, so this is a set of answers.*)
Top(rows, n) ==
    {P \in SUBSET rows :
        /\ Cardinality(P) = IF Cardinality(rows) < n THEN Cardinality(rows) ELSE n
        /\ \A a \in P, b \in rows \ P : a.expires >= b.expires}

(* The answers offset(offset).limit(limit) may give; both have to be       *)
(* there for either to count.                                              *)
Slice(rows, offset, limit) ==
    IF offset = None \/ limit = None
      THEN {rows}
      ELSE UNION {{Q \ P : P \in Top(Q, offset)} : Q \in Top(rows, offset + limit)}

(* The rows that may come first in that order.                             *)
Newest(rows) == {t \in rows : \A s \in rows : s.expires <= t.expires}

(* remove_token: one DELETE for every row with the hash.                   *)
RemoveToken(rows, jwt) == {t \in rows : t.jwt # jwt}

(* update_token finds its row with one_or_none: it succeeds when exactly   *)
(* one row has the hash, and raises when none or several have.             *)
OneRow(rows, jwt) == Cardinality({t \in rows : t.jwt = jwt}) = 1

UpdateToken(rows, jwt, state) ==
    {IF t.jwt = jwt THEN [t EXCEPT !.state = state] ELSE t : t \in rows}
=============================================================================

------------------------------- MODULE MCTenants -------------------------------
(* A tenant's rows, pictures and subscription, in mixes, so that their states    *)
(* add up instead of multiplying.  A small menu and staff are moved: the data    *)
(* run repeated while the restaurant works; its staff moved by the other script; *)
(* its sequences repaired.  The purchases of its subscription.  The pictures of  *)
(* its menu.  Who may work with it.                                              *)
EXTENDS Subscription, Migration, MenuImages, Access, TLC

\* p1, p2 are payments of Subscription and pictures of MenuImages; s1, s2 the
\* requests of each module.
CONSTANTS k1, k2, k3, u1, u2, x1, r1, r2, p1, p2, s1, s2, c1, d1, d2, a1, w1

VARIABLE mix

Symm == Permutations({p1, p2}) \cup Permutations({s1, s2})

MCTables == <<"Category", "MenuItem", "User">>
MCRefers == [t \in Table |-> IF t = "MenuItem" THEN "Category" ELSE NoTable]
PublicRow(k, p) == [key |-> k, parent |-> p]
MCSource == [t \in Table |->
  CASE t = "Category" -> 2 :> PublicRow(k1, 0)
    [] t = "MenuItem" -> 2 :> PublicRow(k2, 2)
    [] OTHER -> (1 :> PublicRow(u1, 0)) @@ (2 :> PublicRow(u2, 0))]

-----------------------------------------------------------------------------
\* The application works on these tables only.
WorksOn(S) == /\ app'.table \in S \cup {NoTable}
              /\ \A t \in Table \ S : edits' # edits => tenant'[t] = tenant[t]

\* The data run comes before the other script and what the application does.
DataFirst(s) == /\ job'.script \in {"none", "data", s}
                /\ job'.script = "data" => edits = 0

Moving ==
  /\ mix \in {"data", "staff", "sequences"} /\ UNCHANGED <<vars, imageVars, accessVars>>
  /\ MigrationNext
  /\ CASE mix = "data"  -> job'.script \in {"none", "data"} /\ WorksOn({"Category", "MenuItem"})
       [] mix = "staff" -> DataFirst("staff") /\ WorksOn({"User"}) /\ (edits' <= 1 \/ settled = {})
       [] OTHER         -> DataFirst("sequences") /\ WorksOn({"MenuItem", "User"})

Purchases == mix = "purchases" /\ UNCHANGED <<migrationVars, imageVars, accessVars>> /\ Next

\* One request at a time about two pictures, or two about one.
Pictures ==
  /\ mix \in {"solo", "pair"} /\ UNCHANGED <<vars, migrationVars, accessVars>>
  /\ ImageNext
  /\ mix = "solo" => Cardinality({e \in Editor : edit'[e] # NoEdit}) <= 1
  /\ mix = "pair" => Cardinality({i \in Image : file'[i] # NoFile}) <= 1

\* The restaurant is stopped and let go on, one login at a time in one second;
\* or it goes on, and passwords are changed under logins.
Doorkeeping ==
  /\ mix \in {"stops", "keys"} /\ UNCHANGED <<vars, migrationVars, imageVars>>
  /\ AccessNext
  /\ mix = "stops" => /\ \A p \in Staff : account'[p].pw = 0
                      /\ \A p \in Admins : account'[p].pw <= 1
                      /\ second' = 1 /\ visit'[s2] = Out
  /\ mix = "keys"  => /\ UNCHANGED <<house, plan, paid>>
                      /\ \A p \in Accounts : account'[p] # account[p] =>
                                           account'[p].pw # account[p].pw

MCInit ==
  /\ Init /\ MigrationInit /\ ImageInit /\ AccessInit
  /\ mix \in {"data", "staff", "sequences", "purchases", "solo", "pair", "stops", "keys"}
  /\ mix # "purchases" => \A r \in Restaurants : sub[r] = [status |-> "ACTIVE", expiry |-> 1]
MCNext == UNCHANGED mix /\ (Moving \/ Purchases \/ Pictures \/ Doorkeeping)
MCSpec == MCInit /\ [][MCNext]_<<vars, migrationVars, imageVars, accessVars, mix>>

-----------------------------------------------------------------------------
\* Each module keeps its types (schema.prisma).
TenancyTypeOK == CASE mix \in {"data", "staff", "sequences"} -> MigrationTypeOK
                   [] mix \in {"solo", "pair"}              -> ImageTypeOK
                   [] mix \in {"stops", "keys"}             -> AccessTypeOK
                   [] OTHER                                 -> TRUE

=============================================================================

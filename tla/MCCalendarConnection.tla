----------------------- MODULE MCCalendarConnection -----------------------
(***************************************************************************)
(* Instances of CalendarConnection for TLC.                                *)
(***************************************************************************)
EXTENDS CalendarConnection, TLC

CONSTANTS c1, c2, a1, a2, k1, p1, p2, h1, h2

Interchangeable == Permutations({c1, c2}) \cup Permutations({a1, a2})
         \cup Permutations({p1, p2}) \cup Permutations({h1, h2})

(* The channels are explored apart from the intents and with one consent,  *)
(* for the two share nothing but the connection.                           *)
Apart ==
  \/ \A h \in Channels : chan[h] = "none"
  \/ /\ \A k \in Keys : intents[k] = "none"
     /\ \A a, b \in Attempts : attempts[a] # "unused" /\ attempts[b] # "unused" => a = b
=============================================================================

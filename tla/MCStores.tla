------------------------------- MODULE MCStores -------------------------------
(* Either MailStore's instance, or imports and deliveries of old mail: two   *)
(* letters of one topic, a day apart, and an answer to the first under a     *)
(* topic of its own.  The fortnight is one day.  One file is in the order of *)
(* dates, the other has an answer before what it answers.                    *)
EXTENDS MCMailStore, MboxImport

CONSTANTS x1, x2, l1, l2, l3, d1, d2

VARIABLE story

TopicOf == l1 :> "s" @@ l2 :> "s" @@ l3 :> "r"
DayOf == l1 :> 0 @@ l2 :> 1 @@ l3 :> 2
Refers == l1 :> {} @@ l2 :> {} @@ l3 :> {l1}
MboxFiles == {<<l1, l2>>, <<l3, l1>>}
StoreOrder == <<d1, d2>>
Alike == Twins \union Permutations({x1, x2})

StoresInit == Init /\ LoadInit /\ story \in {"mail", "import"}
StoresNext ==
    /\ UNCHANGED story
    /\ \/ story = "mail" /\ Next /\ UNCHANGED loadVars
       \/ story = "import" /\ LoadNext /\ UNCHANGED vars
StoresSpec == StoresInit /\ [][StoresNext]_<<story, vars, loadVars>>
=============================================================================

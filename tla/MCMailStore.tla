----------------------------- MODULE MCMailStore -----------------------------
(* Two deliveries of one mail, and the answer to it, sent or delivered.      *)
EXTENDS MailStore, TLC

CONSTANTS a1, a2, a3, m1, m2, s1

TwiceAndAnswer == a1 :> m1 @@ a2 :> m1 @@ a3 :> m2
AnswerTo == m1 :> NoId @@ m2 :> m1
OneSubject == m1 :> s1 @@ m2 :> s1
OnceAndAnswer == a1 :> m1 @@ a3 :> m2
AnyRule == m1 :> {"none", "read", "archive", "delete"} @@ m2 :> {"none"}
FileOrDelete == m1 :> {"none", "delete"} @@ m2 :> {"none"}
AllOps == {"read", "open", "unread", "archive", "unarchive", "mute", "unmute", "delete"}
Twins == Permutations({a1, a2})
=============================================================================

--------------------------- MODULE MCNotifications ---------------------------
(* A notification by sms, by mail and in the application, and two workers. *)
EXTENDS Notifications, TLC

CONSTANTS sms, email, in_app, w1, w2

MCChannels == {sms, email, in_app}
MCWorkers == {w1, w2}
MCMail == {email, in_app}
MCOneWorker == {w1}
Symmetry == Permutations(MCWorkers)
=============================================================================

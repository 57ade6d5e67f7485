----------------------- MODULE MCNotificationService -----------------------
(* A user with a meter, an operator, and a user of another region who may   *)
(* answer late; there is room for two of them.                              *)
EXTENDS NotificationService, TLC

CONSTANTS user, operator, late

MCRole == (user :> "user" @@ operator :> "operator" @@ late :> "user")
MCUser == (user :> "u1" @@ operator :> "u2" @@ late :> "u3")
MCOwnRegions == (user :> {"r1"} @@ operator :> {} @@ late :> {"r2"})
MCOwnMeters == (user :> {"m1"} @@ operator :> {} @@ late :> {})

Message(kind, regions, meters, u) ==
  [kind |-> kind, regions |-> regions, meters |-> meters, user |-> u]

MCMessages ==
  {Message("alert", {"r2"}, {"m1"}, "none"), Message("status", {}, {}, "none"),
   Message("tariff", {"r1"}, {}, "none")}
=============================================================================

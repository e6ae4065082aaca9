------------------------ MODULE MCNotificationOutbox ------------------------
(* An instance of NotificationOutbox: one event, two platforms that may be *)
(* switched on and off, and the console.                                   *)
EXTENDS NotificationOutbox

CONSTANTS signal, telegram, feishu

OneEvent == {signal}
TwoPlatforms == {telegram, feishu, Console}
=============================================================================

------------------------ MODULE MCNotificationPipeline ------------------------
(* NotificationPipeline with model values.                                     *)
EXTENDS NotificationPipeline, TLC
===============================================================================

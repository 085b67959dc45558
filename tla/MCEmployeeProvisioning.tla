----------------------- MODULE MCEmployeeProvisioning -----------------------
(* Instances of EmployeeProvisioning for TLC.                              *)
EXTENDS EmployeeProvisioning, TLC

CONSTANTS task, system, hours, check, first, second, third

\* The first brief reports every day and has a scheduled routine with a
\* connected system; the second makes bookings, once the owner has given the
\* opening hours; the third asks for a credential with them.
MCKind ==
    first :> (task :> "native" @@ system :> "external" @@ hours :> "off") @@
    second :> (task :> "off" @@ system :> "off" @@ hours :> "input") @@
    third :> (task :> "off" @@ system :> "off" @@ hours :> "input")

MCSecret == first :> {} @@ second :> {} @@ third :> {hours}

MCUses == first :> (check :> {system}) @@ second :> (check :> {})
                                       @@ third :> (check :> {})

MCTimed == first :> {task, system} @@ second :> {} @@ third :> {}

MCCron == first :> {check} @@ second :> {} @@ third :> {}
=============================================================================

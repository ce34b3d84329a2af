--------------------------- MODULE MCDeviceStream ---------------------------
(***************************************************************************)
(* An instance of DeviceStream for TLC: the two pages that use the hook    *)
(* (DashboardPage, DevicesPage) and a bounded number of calls.             *)
(***************************************************************************)
EXTENDS DeviceStream

CONSTANTS dashboard, devices, s1, s2, s3, s4

MCConsumers == {dashboard, devices}
MCStreams == {s1, s2, s3, s4}
=============================================================================

---------------------------- MODULE MCSpiHdLink ----------------------------
(* Small instances of the SPI half-duplex link.                             *)
EXTENDS SpiHdLink

\* Every fault of the bus, the firmware, the board and the users.
LinkFaults == {"bus", "alloc", "rddma", "wrdma", "reject", "credit", "marker", "gpio",
               "late", "build", "user", "inject", "flush", "probe", "remove", "crash"}

=============================================================================

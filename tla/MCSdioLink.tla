----------------------------- MODULE MCSdioLink -----------------------------
(* Small instances of the SDIO link.                                        *)
EXTENDS SdioLink

\* Every fault of the bus, the firmware, the MMC host and the users, but for a
\* firmware that keeps its receive buffers over a whole boot event ("held").
LinkFaults == {"bus", "write", "read", "alloc", "late", "ack", "mmc", "build",
               "user", "flush", "pm", "remove", "crash", "keep_power"}

=============================================================================

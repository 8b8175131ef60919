------------------------------- MODULE MCHooks -------------------------------
EXTENDS Hooks, TLC

\* Threads and sockets are told apart by their numbers; only the devices
\* are interchangeable.
DeviceSymmetry == Permutations(Devices)
=============================================================================

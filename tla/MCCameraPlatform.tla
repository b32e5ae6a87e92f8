-------------------------- MODULE MCCameraPlatform --------------------------
EXTENDS CameraPlatform

\* The names of the devices addDevice is called for.
Everything == {Devices[i] : i \in DOMAIN Devices}

MCValidated == {Everything, Everything \ {"ServerCamera", "ServerDoorbell"}}
MCCameras == {"ServerCamera"}
=============================================================================

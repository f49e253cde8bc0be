---------------------------- MODULE MCMqttSync ----------------------------
EXTENDS MqttSync
=============================================================================

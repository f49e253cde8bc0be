--------------------------- MODULE MCMqttDelivery ---------------------------
EXTENDS MqttDelivery, TLC
=============================================================================

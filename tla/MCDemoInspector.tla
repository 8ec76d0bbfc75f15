---------------------------- MODULE MCDemoInspector ----------------------------
\* The two persistent actors of the page, spawned in this order.
EXTENDS DemoInspector

CONSTANTS workspace, document

Spawned == <<workspace, document>>

=============================================================================

------------------------------ MODULE MCOutbox ------------------------------
EXTENDS Outbox

CONSTANTS scheduler, cron
==============================================================================

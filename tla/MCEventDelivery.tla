-------------------------- MODULE MCEventDelivery --------------------------
EXTENDS EventDelivery

CONSTANTS t1, t2, c1

MCThreads == {t1, t2}
MCMaxEvents == [t \in MCThreads |-> IF t = t1 THEN 3 ELSE 1]
MCTopics == [c \in {c1} |-> {t1}]
=============================================================================

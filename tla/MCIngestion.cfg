SPECIFICATION FairSpec
CONSTANTS
    NULL = NULL
    Handlers = {r1, r2}
    Secrets = {"current", "next"}
    webhook_secrets <- ShopSecret
    Templates <- Deliveries
    Tolerance = 1
    Retention = 3
    RequestTime = 1
    MaxTime = 4
INVARIANTS IngestTypeOK AcknowledgedIsStored
PROPERTIES FirstDeliveryStands CapturedStoredOnce EventuallyAcknowledged
CHECK_DEADLOCK FALSE
